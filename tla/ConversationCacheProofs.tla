----------------------- MODULE ConversationCacheProofs -----------------------
(***************************************************************************)
(* Theorems about ConversationCache: its types, that the index advances    *)
(* one generation at a time, and that a job leaves the directory tidy, for *)
(* any number of docks, jobs, failures and deaths.  And about the list of  *)
(* conversations that is read from it, HistoryList: that it holds the      *)
(* sessions there are, that what is drawn shows the selected one, and that *)
(* no result of a job moves the selection to another.                      *)
(***************************************************************************)
EXTENDS ConversationCache, Integers, Sequences, TLAPS, FiniteSetTheorems, SequenceTheorems,
        WellFoundedInduction

-----------------------------------------------------------------------------
(* Types, with the names of the files.                                     *)

LEMMA TypesInit == Init => TypeOK /\ Fresh
<1> SUFFICES ASSUME Init
             PROVE  TypeOK /\ Fresh
  OBVIOUS
<1>1. TypeOK
  <2>1. listed \in [Docks -> SUBSET ({"temporary", "pointer", "file"} \X CacheFile)]
    BY DEF Init
  <2>2. jobs \in [Docks -> 0..MaxJobs] /\ faults \in 0..MaxFaults
    BY BoundAssumption DEF Init
  <2> QED BY <2>1, <2>2 DEF Init, TypeOK
<1>2. Fresh
  BY DEF Init, Fresh, Replacing
<1> QED BY <1>1, <1>2

(* What a dock starts to write is typed and new.                           *)
LEMMA ReadTypes ==
  ASSUME TypeOK, Fresh, NEW d \in Docks, Read(d)
  PROVE  TypeOK' /\ Fresh'
<1>1. CASE base[d] \in files \cup {NoFile}
  <2> DEFINE m == [dock |-> d, nonce |-> jobs[d], generation |-> Generation(base[d]) + 1]
  <2>1. jobs[d] \in 1..MaxJobs
    BY BoundAssumption DEF TypeOK, Fresh, Read
  <2>2. Generation(base[d]) \in Nat
    BY <1>1 DEF TypeOK, Generation, CacheFile
  <2>3. m \in CacheFile
    BY <2>1, <2>2 DEF CacheFile
  <2>4. /\ mine' = [mine EXCEPT ![d] = m]
        /\ pc' = [pc EXCEPT ![d] = "write"]
        /\ UNCHANGED <<directory, jobs, overlapped, swept, whole, faults, base, listed>>
    BY <1>1 DEF Read, Goto
  <2>5. TypeOK'
    BY <2>3, <2>4 DEF TypeOK, directory
  <2>6. Fresh'
    BY <2>1, <2>3, <2>4, NoFileAssumption
    DEF TypeOK, Fresh, Starting, Replacing, Before, directory, Read, CacheFile
  <2> QED BY <2>5, <2>6
<1>2. CASE base[d] \notin files \cup {NoFile}
  <2>1. End(d) /\ UNCHANGED <<directory, jobs, overlapped, swept, whole, faults>>
    BY <1>2 DEF Read
  <2> QED BY <2>1 DEF TypeOK, Fresh, Starting, Replacing, Before, End, Goto, directory, CacheFile
<1> QED BY <1>1, <1>2

LEMMA TypesStep == TypeOK /\ Fresh /\ [Next]_vars => TypeOK' /\ Fresh'
<1> SUFFICES ASSUME TypeOK, Fresh, [Next]_vars
             PROVE  TypeOK' /\ Fresh'
  OBVIOUS
<1> USE DEF TypeOK, Fresh, Starting, Replacing, Before, Goto, directory
<1>1. ASSUME NEW d \in Docks, Begin(d)
      PROVE  TypeOK' /\ Fresh'
  <2>1. jobs' \in [Docks -> 0..MaxJobs]
    BY <1>1, BoundAssumption DEF Begin
  <2>2. PICK names : /\ listed' = [listed EXCEPT ![d] =
                                        names \cap ({"temporary", "pointer"} \X CacheFile)]
                     /\ whole' = (names = Entries)
    BY <1>1 DEF Begin
  <2>3. names \cap ({"temporary", "pointer"} \X CacheFile)
          \in SUBSET ({"temporary", "pointer", "file"} \X CacheFile)
    OBVIOUS
  <2>4. listed' \in [Docks -> SUBSET ({"temporary", "pointer", "file"} \X CacheFile)]
    BY <2>2, <2>3
  <2>5. TypeOK'
    BY <1>1, <2>1, <2>2, <2>4 DEF Begin
  <2>6. Fresh'
    BY <1>1 DEF Begin, CacheFile
  <2> QED BY <2>5, <2>6
<1>2. ASSUME NEW d \in Docks, Clean(d)
      PROVE  TypeOK' /\ Fresh'
  BY <1>2 DEF Clean, End, CacheFile
<1>3. ASSUME NEW d \in Docks, Find(d)
      PROVE  TypeOK' /\ Fresh'
  BY <1>3 DEF Find, CacheFile
<1>4. ASSUME NEW d \in Docks, Write(d)
      PROVE  TypeOK' /\ Fresh'
  <2>1. mine[d] \in CacheFile /\ mine[d].dock = d /\ mine[d].nonce = jobs[d]
    BY <1>4 DEF Write
  <2>2. mine[d] \notin files /\ current # mine[d]
    BY <1>4, <2>1, NoFileAssumption DEF Write
  <2>3. TypeOK'
    BY <1>4, <2>1, <2>2 DEF Write
  <2>4. Fresh'
    BY <1>4, <2>1, <2>2 DEF Write, CacheFile
  <2> QED BY <2>3, <2>4
<1>5. ASSUME NEW d \in Docks, Publish(d)
      PROVE  TypeOK' /\ Fresh'
  BY <1>5 DEF Publish, End, CacheFile
<1>6. ASSUME NEW d \in Docks, Point(d)
      PROVE  TypeOK' /\ Fresh'
  BY <1>6 DEF Point, CacheFile
<1>7. ASSUME NEW d \in Docks, Switch(d)
      PROVE  TypeOK' /\ Fresh'
  <2>1. ASSUME NEW names,
               listed' = [listed EXCEPT ![d] = names \cap ({"file"} \X Older(d))],
               whole' = (whole /\ names = Entries'),
               current' = mine[d], pointers' = pointers \ {mine[d]},
               Goto(d, "sweep"), UNCHANGED <<base, mine>>
        PROVE  TypeOK' /\ Fresh'
    <3>1. names \cap ({"file"} \X Older(d)) \in SUBSET ({"temporary", "pointer", "file"} \X CacheFile)
      BY DEF Older
    <3>2. listed' \in [Docks -> SUBSET ({"temporary", "pointer", "file"} \X CacheFile)]
      BY <2>1, <3>1
    <3>3. mine[d] \in CacheFile
      BY <1>7 DEF Switch
    <3>4. TypeOK'
      BY <1>7, <2>1, <3>2, <3>3 DEF Switch
    <3>5. Fresh'
      BY <1>7, <2>1, <3>3 DEF Switch, CacheFile
    <3> QED BY <3>4, <3>5
  <2>2. CASE End(d) /\ UNCHANGED <<pointers, current, whole>>
    BY <1>7, <2>2 DEF Switch, End, CacheFile
  <2> QED BY <1>7, <2>1, <2>2 DEF Switch
<1>8. ASSUME NEW d \in Docks, Sweep(d)
      PROVE  TypeOK' /\ Fresh'
  <2>1. ASSUME NEW name \in listed[d], name[2] \in files,
               files' = files \ {name[2]},
               listed' = [listed EXCEPT ![d] = @ \ {name}],
               UNCHANGED <<pc, base, mine, temporaries, pointers, current, jobs, overlapped,
                           whole, faults, swept>>
        PROVE  TypeOK'
    BY <2>1
  <2>2. CASE End(d)
    <3>1. /\ files' \subseteq files
          /\ swept' \in BOOLEAN
          /\ UNCHANGED <<temporaries, pointers, current, jobs, overlapped, whole, faults>>
      BY <1>8 DEF Sweep
    <3>2. listed' \in [Docks -> SUBSET ({"temporary", "pointer", "file"} \X CacheFile)]
      BY <2>2 DEF End
    <3> QED BY <2>2, <3>1, <3>2 DEF End
  <2>3. TypeOK'
    BY <1>8, <2>1, <2>2 DEF Sweep
  <2>4. Fresh'
    BY <1>8 DEF Sweep, End, CacheFile
  <2> QED BY <2>3, <2>4
<1>9. ASSUME NEW d \in Docks, Fail(d)
      PROVE  TypeOK' /\ Fresh'
  BY <1>9, BoundAssumption DEF Fail, Fault, End, CacheFile
<1>10. ASSUME NEW d \in Docks, Die(d)
      PROVE  TypeOK' /\ Fresh'
  BY <1>10, BoundAssumption DEF Die, Fault, End, CacheFile
<1>11. CASE UNCHANGED vars
  BY <1>11 DEF vars
<1> QED
  BY ReadTypes, <1>1, <1>2, <1>3, <1>4, <1>5, <1>6, <1>7, <1>8, <1>9, <1>10, <1>11 DEF Next

(* The variables keep their types, a file has one name at a time, and each *)
(* dock writes files of its own.                                           *)
THEOREM CacheTypes == Spec => []TypeOK
<1>1. TypeOK /\ Fresh /\ [Next]_vars => (TypeOK /\ Fresh)'
  BY TypesStep
<1> QED
  BY TypesInit, <1>1, PTL DEF Spec
-----------------------------------------------------------------------------
(* One job at a time.                                                      *)

DockStep(d) == \/ Begin(d) \/ Clean(d) \/ Find(d) \/ Read(d)
               \/ Write(d) \/ Publish(d) \/ Point(d) \/ Switch(d) \/ Sweep(d)
               \/ Fail(d) \/ Die(d)

(* As long as jobs do not overlap, a step is one of the only job.          *)
LEMMA OnlyJob ==
  ASSUME TypeOK, Alone, NEW d \in Docks, DockStep(d), ~overlapped'
  PROVE  /\ ~overlapped
         /\ \A e \in Docks \ {d} : pc[e] = "idle" /\ pc'[e] = "idle"
         /\ Swept(d) /\ Succeeds(d)
<1>1. CASE Begin(d)
  BY <1>1 DEF Begin, Busy, Goto, TypeOK, Alone
<1>2. CASE ~Begin(d)
  <2>1. overlapped' = overlapped /\ pc[d] # "idle"
    BY <1>2 DEF DockStep, Clean, Find, Read, Write, Publish, Point, Switch, Sweep, Fail, Die
  <2>2. \E l : pc' = [pc EXCEPT ![d] = l]
    <3>1. pc \in [Docks -> {"idle", "clean", "find", "read", "write",
                            "publish", "point", "switch", "sweep"}]
      BY DEF TypeOK
    <3>2. UNCHANGED pc => pc' = [pc EXCEPT ![d] = pc[d]]
      BY <3>1
    <3> QED
      BY <1>2, <3>2
      DEF DockStep, Clean, Find, Read, Write, Publish, Point, Switch, Sweep, Fail, Die, End, Goto
  <2> QED BY <2>1, <2>2 DEF TypeOK, Alone, Single
<1> QED BY <1>1, <1>2

(* What is in the directory is among its entries.                          *)
LEMMA EntriesOf == /\ \A x \in temporaries : <<"temporary", x>> \in Entries
                   /\ \A x \in pointers : <<"pointer", x>> \in Entries
                   /\ \A x \in files : <<"file", x>> \in Entries
BY DEF Entries

(* What a step of the only job leaves in the directory.                    *)
LEMMA SweptStep ==
  ASSUME TypeOK, Fresh, NEW d \in Docks, DockStep(d), Swept(d)
  PROVE  Swept(d)'
<1> USE DEF Swept, TypeOK, Goto, directory
<1>0. ASSUME End(d)
      PROVE  Swept(d)'
  BY <1>0 DEF End
<1>1. CASE Begin(d)
  <2>1. PICK names : /\ listed' = [listed EXCEPT ![d] =
                                        names \cap ({"temporary", "pointer"} \X CacheFile)]
                     /\ whole' = (names = Entries)
    BY <1>1 DEF Begin
  <2> QED BY <1>1, <2>1, EntriesOf DEF Begin
<1>2. CASE Clean(d)
  <2>1. ASSUME NEW name \in listed[d],
               temporaries' = IF name[1] = "temporary" THEN temporaries \ {name[2]} ELSE temporaries,
               pointers' = IF name[1] = "pointer" THEN pointers \ {name[2]} ELSE pointers,
               listed' = [listed EXCEPT ![d] = @ \ {name}],
               UNCHANGED <<pc, swept, whole>>
        PROVE  Swept(d)'
    <3>1. listed'[d] = listed[d] \ {name}
      BY <2>1
    <3>2. ASSUME whole, NEW x \in temporaries'
          PROVE  <<"temporary", x>> \in listed'[d]
      <4>1. x \in temporaries /\ (name[1] = "temporary" => name[2] # x)
        BY <2>1, <3>2
      <4>2. <<"temporary", x>> \in listed[d]
        BY <1>2, <3>2, <4>1 DEF Clean
      <4>3. <<"temporary", x>> # name
        BY <4>1
      <4> QED BY <3>1, <4>2, <4>3
    <3>3. ASSUME whole, NEW x \in pointers'
          PROVE  <<"pointer", x>> \in listed'[d]
      <4>1. x \in pointers /\ (name[1] = "pointer" => name[2] # x)
        BY <2>1, <3>3
      <4>2. <<"pointer", x>> \in listed[d]
        BY <1>2, <3>3, <4>1 DEF Clean
      <4>3. <<"pointer", x>> # name
        BY <4>1
      <4> QED BY <3>1, <4>2, <4>3
    <3> QED BY <2>1, <3>2, <3>3, <1>2 DEF Clean
  <2>2. ASSUME listed[d] = {}, Goto(d, "find"), UNCHANGED <<temporaries, pointers, swept, whole>>
        PROVE  Swept(d)'
    BY <2>2, <1>2 DEF Clean
  <2> QED BY <1>0, <1>2, <2>1, <2>2 DEF Clean
<1>3. CASE Find(d)
  BY <1>3 DEF Find
<1>4. CASE Read(d)
  BY <1>0, <1>4 DEF Read
<1>5. CASE Write(d)
  BY <1>5 DEF Write
<1>6. CASE Publish(d)
  BY <1>0, <1>6 DEF Publish
<1>7. CASE Point(d)
  BY <1>7 DEF Point
<1>8. CASE Switch(d)
  BY <1>0, <1>8 DEF Switch
<1>9. CASE Sweep(d)
  BY <1>0, <1>9 DEF Sweep
<1>10. CASE Fail(d) \/ Die(d)
  BY <1>0, <1>10 DEF Fail, Die
<1> QED
  BY <1>1, <1>2, <1>3, <1>4, <1>5, <1>6, <1>7, <1>8, <1>9, <1>10 DEF DockStep

(* The file it writes is the successor of the one that `current` names.    *)
LEMMA SucceedsStep ==
  ASSUME TypeOK, Fresh, NEW d \in Docks, DockStep(d), Succeeds(d)
  PROVE  Succeeds(d)'
<1> USE DEF Succeeds, TypeOK, Goto, directory, Opened
<1>0. ASSUME End(d)
      PROVE  Succeeds(d)'
  BY <1>0 DEF End
<1>1. CASE Begin(d)
  BY <1>1 DEF Begin
<1>2. CASE Clean(d)
  BY <1>0, <1>2 DEF Clean
<1>3. CASE Find(d)
  BY <1>3 DEF Find
<1>4. CASE Read(d)
  BY <1>0, <1>4, NoFileAssumption DEF Read, Generation, CacheFile
<1>5. CASE Write(d)
  BY <1>5 DEF Write
<1>6. CASE Publish(d)
  BY <1>0, <1>6 DEF Publish, Fresh
<1>7. CASE Point(d)
  BY <1>7 DEF Point
<1>8. CASE Switch(d)
  <2>1. ASSUME NEW names,
               listed' = [listed EXCEPT ![d] = names \cap ({"file"} \X Older(d))],
               whole' = (whole /\ names = Entries'),
               current' = mine[d], Goto(d, "sweep"), UNCHANGED <<files, mine>>
        PROVE  Succeeds(d)'
    <3>1. (\A x \in files : <<"file", x>> \in Entries)'
      BY EntriesOf, PTL
    <3> QED BY <1>8, <2>1, <3>1 DEF Switch, Older
  <2> QED BY <1>0, <1>8, <2>1 DEF Switch
<1>9. CASE Sweep(d)
  <2>1. ASSUME NEW name \in listed[d],
               files' = files \ {name[2]},
               listed' = [listed EXCEPT ![d] = @ \ {name}],
               UNCHANGED <<pc, mine, current, whole>>
        PROVE  Succeeds(d)'
    <3>1. listed'[d] = listed[d] \ {name}
      BY <2>1
    <3>2. mine[d] \in files' /\ current = mine[d]
      BY <2>1, <1>9 DEF Sweep, CacheFile
    <3>3. whole => \A x \in files' :
                     x.generation < mine[d].generation => <<"file", x>> \in listed'[d]
      BY <2>1, <3>1, <1>9 DEF Sweep
    <3>4. \A n \in listed'[d] : n[2].generation < mine[d].generation
      BY <3>1, <1>9 DEF Sweep
    <3> QED BY <2>1, <3>2, <3>3, <3>4, <1>9 DEF Sweep
  <2> QED BY <1>0, <1>9, <2>1 DEF Sweep
<1>10. CASE Fail(d) \/ Die(d)
  BY <1>0, <1>10 DEF Fail, Die
<1> QED
  BY <1>1, <1>2, <1>3, <1>4, <1>5, <1>6, <1>7, <1>8, <1>9, <1>10 DEF DockStep

LEMMA AloneStep == TypeOK /\ Fresh /\ Alone /\ [Next]_vars => Alone'
<1> SUFFICES ASSUME TypeOK, Fresh, Alone, [Next]_vars
             PROVE  Alone'
  OBVIOUS
<1>1. ASSUME NEW d \in Docks, DockStep(d), ~overlapped'
      PROVE  Single' /\ \A e \in Docks : Swept(e)' /\ Succeeds(e)'
  <2>1. \A e \in Docks \ {d} : pc'[e] = "idle"
    BY <1>1, OnlyJob
  <2>2. Swept(d)' /\ Succeeds(d)'
    BY <1>1, OnlyJob, SweptStep, SucceedsStep
  <2>3. \A e \in Docks : pc'[e] = "idle" => Swept(e)' /\ Succeeds(e)'
    BY DEF Swept, Succeeds
  <2> QED BY <2>1, <2>2, <2>3 DEF Single
<1>2. CASE UNCHANGED vars
  BY <1>2 DEF vars, directory, Alone, Single, Swept, Succeeds, Opened
<1> QED
  BY <1>1, <1>2 DEF Next, DockStep, Alone
-----------------------------------------------------------------------------
(* What the index goes through, and what it leaves behind.                 *)

LEMMA Opens == TypeOK => Opened \in Nat
BY DEF TypeOK, Opened, CacheFile

LEMMA GenerationStep ==
  TypeOK /\ Fresh /\ Alone /\ [Next]_vars
     => [~overlapped => Opened' \in {Opened, Opened + 1}]_<<files, current>>
<1> SUFFICES ASSUME TypeOK, Fresh, Alone, NEW d \in Docks, DockStep(d), ~overlapped,
                    ~UNCHANGED <<files, current>>
             PROVE  Opened' \in {Opened, Opened + 1}
  BY DEF Next, DockStep, vars, directory
<1>1. Publish(d) \/ Switch(d) \/ Sweep(d)
  BY DEF DockStep, Begin, Clean, Find, Read, Write, Point, Fail, Die, directory
<1>2. ~overlapped'
  BY <1>1 DEF Publish, Switch, Sweep
<1>3. Succeeds(d)
  BY <1>2, OnlyJob
<1>4. CASE Publish(d)
  BY <1>3, <1>4 DEF Publish, Fresh, Opened, TypeOK
<1>5. CASE Switch(d)
  BY <1>3, <1>5, Opens DEF Switch, Succeeds, Opened, TypeOK
<1>6. CASE Sweep(d)
  <2>1. ASSUME NEW name \in listed[d], files' = files \ {name[2]}
        PROVE  current \in files /\ current \in files'
    BY <1>3, <1>6, <2>1 DEF Sweep, Succeeds, TypeOK, CacheFile
  <2> QED BY <1>6, <2>1 DEF Sweep, Opened
<1> QED BY <1>1, <1>4, <1>5, <1>6

LEMMA TidyStep == TypeOK /\ Fresh /\ Alone /\ Tidy /\ [Next]_vars => Tidy'
<1> SUFFICES ASSUME TypeOK, Fresh, Alone, Tidy, [Next]_vars,
                    swept', ~overlapped', Busy' = {}
             PROVE  Tidy'
  BY DEF Tidy
<1>1. ASSUME NEW d \in Docks, DockStep(d)
      PROVE  Tidy'
  <2>1. Swept(d) /\ Succeeds(d)
    BY <1>1, OnlyJob
  <2>2. pc'[d] = "idle" /\ ~Begin(d)
    BY DEF Busy, Begin
  <2>3. pc[d] # "idle"
    BY <1>1, <2>2 DEF DockStep, Clean, Find, Read, Write, Publish, Point, Switch, Sweep, Fail, Die
  <2>4. ~swept
    BY <2>1, <2>3 DEF Swept
  <2>5. Sweep(d) /\ listed[d] = {} /\ UNCHANGED <<files, temporaries, pointers, current>>
    BY <1>1, <2>2, <2>4
    DEF DockStep, Clean, Find, Read, Write, Publish, Point, Switch, Sweep, Fail, Die
  <2>6. /\ current = mine[d] /\ mine[d] \in files /\ whole' = whole
        /\ whole => temporaries = {} /\ pointers = {}
        /\ whole => \A x \in files : ~(x.generation < mine[d].generation)
    BY <2>1, <2>5 DEF Sweep, Swept, Succeeds
  <2>7. whole => \A x \in files : x.generation >= mine[d].generation
    BY <2>6 DEF TypeOK, CacheFile
  <2> QED BY <2>5, <2>6, <2>7 DEF Tidy
<1>2. CASE UNCHANGED vars
  BY <1>2 DEF vars, directory, Tidy, Busy
<1> QED BY <1>1, <1>2 DEF Next, DockStep

LEMMA CacheInvariant == Spec => [](TypeOK /\ Fresh /\ Alone /\ Tidy)
<1>1. Init => Alone /\ Tidy
  BY DEF Init, Alone, Single, Swept, Succeeds, Tidy
<1> QED BY TypesInit, TypesStep, AloneStep, TidyStep, <1>1, PTL DEF Spec

(* As long as jobs do not overlap, whatever fails and whoever dies, what   *)
(* the next job would open changes only from a generation to its successor *)
(* (persist_cancellable() publishes before it points and sweeps).          *)
THEOREM CacheGenerations == Spec => GenerationsAdvance
<1>1. TypeOK /\ Fresh /\ Alone /\ Tidy /\ [Next]_vars
         => [~overlapped => Opened' \in {Opened, Opened + 1}]_<<files, current>>
  BY GenerationStep
<1> QED BY CacheInvariant, <1>1, PTL DEF Spec, GenerationsAdvance

(* A job that ends in its usual way leaves its own file and the pointer to *)
(* it, whatever earlier jobs left behind; and nothing else that is older,  *)
(* if neither cleanup_stale_temporaries() nor remove_older_generations()   *)
(* had more entries to look at than .take() lets them.                     *)
THEOREM CacheTidy == Spec => []Tidy
BY CacheInvariant, PTL

-----------------------------------------------------------------------------
(* Theorems about HistoryList.                                             *)

CONSTANTS Providers, Sessions, Discovered, Tool, Path, Documented, Reported, Heights, None,
          MaxChanges
VARIABLES filesystem, live, aligned, fingerprint, poll, items, collapsed_providers,
          selected_provider, selection, scroll, loading, live_loading, notices, active, height,
          shown, changes

(* The list of conversations that is merged from what the index holds.     *)
Hl == INSTANCE HistoryList WITH items <- items

(* The instance has the operators of the library.                          *)
LEMMA ListOperators ==
  /\ \A S : Hl!Cardinality(S) = Cardinality(S) /\ (Hl!IsFiniteSet(S) <=> IsFiniteSet(S))
  /\ \A s : Hl!ToSet(s) = {s[i] : i \in DOMAIN s}
<1>1. \A S : Hl!Cardinality(S) = Cardinality(S)
  BY DEF Hl!Cardinality, Cardinality
<1>2. \A S : Hl!IsFiniteSet(S) <=> IsFiniteSet(S)
  BY DEF Hl!IsFiniteSet, IsFiniteSet
<1>3. \A s : Hl!ToSet(s) = {s[i] : i \in DOMAIN s}
  BY DEF Hl!ToSet
<1> QED
  BY <1>1, <1>2, <1>3

(* A function has finitely many values on a finite set.                    *)
LEMMA ListImage ==
  ASSUME NEW S, IsFiniteSet(S), NEW f, DOMAIN f = S
  PROVE  IsFiniteSet({f[x] : x \in S})
<1> DEFINE T == {f[x] : x \in S}
           g == [x \in S |-> f[x]]
<1>1. g \in Surjection(S, T)
  BY DEF Surjection
<1> QED
  BY <1>1, FS_Surjection

(* A finite set in a row has each element once, when its order is strict   *)
(* and total.                                                              *)
LEMMA ListInOrder ==
  ASSUME NEW S, IsFiniteSet(S), NEW before,
         \A x \in S : <<x, x>> \notin before,
         \A x, y, z \in S : <<x, y>> \in before /\ <<y, z>> \in before => <<x, z>> \in before,
         \A x, y \in S : x # y => <<x, y>> \in before \/ <<y, x>> \in before
  PROVE  /\ Cardinality(S) \in Nat
         /\ Hl!InOrder(S, before) \in [1..Cardinality(S) -> S]
         /\ \A i, j \in 1..Cardinality(S) :
              Hl!InOrder(S, before)[i] = Hl!InOrder(S, before)[j] => i = j
         /\ \A x \in S : \E i \in 1..Cardinality(S) : Hl!InOrder(S, before)[i] = x
<1> DEFINE n == Cardinality(S)
           down(x) == {y \in S : <<y, x>> \in before}
           rank == [x \in S |-> Cardinality(down(x))]
           s == Hl!InOrder(S, before)
<1>1. n \in Nat
  BY FS_CardinalityType
<1>0. n = Cardinality(S)
  OBVIOUS
<1> HIDE DEF n
<1>2. ASSUME NEW x \in S
      PROVE  rank[x] \in 0..(n - 1) /\ rank[x] = Cardinality(down(x))
  <2>1. down(x) \subseteq S \ {x}
    OBVIOUS
  <2>2. IsFiniteSet(S \ {x}) /\ Cardinality(S \ {x}) = n - 1
    BY <1>0, FS_RemoveElement
  <2> HIDE DEF down
  <2>3. IsFiniteSet(down(x)) /\ Cardinality(down(x)) <= n - 1
    BY <2>1, <2>2, FS_Subset
  <2>4. Cardinality(down(x)) \in Nat
    BY <2>3, FS_CardinalityType
  <2> QED
    BY <1>1, <2>3, <2>4
<1>3. ASSUME NEW x \in S, NEW y \in S, <<x, y>> \in before
      PROVE  rank[x] < rank[y]
  <2>1. down(x) \cup {x} \subseteq down(y) /\ x \notin down(x)
    BY <1>3
  <2>2. IsFiniteSet(down(x)) /\ IsFiniteSet(down(y))
    BY FS_Subset
  <2> HIDE DEF down
  <2>3. IsFiniteSet(down(x) \cup {x}) /\ Cardinality(down(x) \cup {x}) = Cardinality(down(x)) + 1
    BY <2>1, <2>2, FS_AddElement
  <2>4. Cardinality(down(x) \cup {x}) <= Cardinality(down(y))
    BY <2>1, <2>2, <2>3, FS_Subset
  <2>5. rank[x] + 1 <= rank[y]
    BY <1>2, <2>3, <2>4
  <2> HIDE DEF rank
  <2> QED
    BY <1>1, <1>2, <2>5
<1>4. s = [i \in 1..n |-> CHOOSE x \in S : Hl!Cardinality({y \in S : <<y, x>> \in before}) = i - 1]
  BY <1>0, ListOperators DEF Hl!InOrder
<1>5. \A x \in S : Hl!Cardinality({y \in S : <<y, x>> \in before}) = rank[x]
  BY ListOperators
<1>6. \A x, y \in S : rank[x] = rank[y] => x = y
  <2> HIDE DEF down, rank
  <2> SUFFICES ASSUME NEW x \in S, NEW y \in S, rank[x] = rank[y], x # y
               PROVE  FALSE
    OBVIOUS
  <2>1. rank[x] < rank[y] \/ rank[y] < rank[x]
    BY <1>3
  <2> QED
    BY <1>1, <1>2, <2>1
<1> HIDE DEF down, rank, s
<1>7. \A i \in 1..n : \E x \in S : rank[x] = i - 1
  <2> DEFINE f == [x \in S |-> rank[x] + 1]
  <2>1. f \in Injection(S, 1..n)
    <3>1. \A x \in S : f[x] \in 1..n
      BY <1>1, <1>2
    <3>2. ASSUME NEW x \in S, NEW y \in S, f[x] = f[y]
          PROVE  x = y
      <4>1. rank[x] = rank[y]
        BY <1>1, <1>2, <3>2
      <4> QED
        BY <1>6, <4>1
    <3> QED
      BY <3>1, <3>2 DEF Injection, IsInjective
  <2>2. IsFiniteSet(1..n) /\ Cardinality(1..n) = n
    BY <1>1, FS_Interval
  <2>3. f \in Surjection(S, 1..n)
    BY <1>0, <2>1, <2>2, FS_Injection
  <2>4. \A i \in 1..n : \E x \in S : f[x] = i
    BY <2>3 DEF Surjection
  <2> SUFFICES ASSUME NEW i \in 1..n
               PROVE  \E x \in S : rank[x] = i - 1
    OBVIOUS
  <2>5. PICK x \in S : f[x] = i
    BY <2>4
  <2> QED
    BY <1>1, <1>2, <2>5
<1>8. ASSUME NEW i \in 1..n
      PROVE  s[i] \in S /\ rank[s[i]] = i - 1
  <2>1. \E x \in S : Hl!Cardinality({y \in S : <<y, x>> \in before}) = i - 1
    BY <1>5, <1>7
  <2>2. s[i] = CHOOSE x \in S : Hl!Cardinality({y \in S : <<y, x>> \in before}) = i - 1
    BY <1>4
  <2>3. s[i] \in S /\ Hl!Cardinality({y \in S : <<y, s[i]>> \in before}) = i - 1
    BY <2>1, <2>2
  <2> QED
    BY <1>5, <2>3
<1>9. ASSUME NEW x \in S
      PROVE  rank[x] + 1 \in 1..n /\ s[rank[x] + 1] = x
  <2>1. rank[x] + 1 \in 1..n /\ rank[x] \in Nat
    BY <1>1, <1>2
  <2>2. s[rank[x] + 1] \in S /\ rank[s[rank[x] + 1]] = rank[x]
    BY <1>8, <2>1
  <2> QED
    BY <1>6, <2>1, <2>2
<1>10. \A i, j \in 1..n : s[i] = s[j] => i = j
  BY <1>1, <1>8
<1>11. s \in [1..n -> S]
  BY <1>4, <1>8
<1> QED
  BY <1>0, <1>1, <1>9, <1>10, <1>11 DEF s

(* What is assumed of the sessions, and of the paths that Herdr reports:   *)
(* the transcript of one session, and not a database of several.           *)
ReportedAlone ==
    \A reports \in Reported : \A r \in reports : \A s \in Sessions :
        r.form = "path" /\ Path[s] = Path[r.session] => s = r.session
ListAssumption ==
    Hl!SessionsAssumption /\ Hl!ReportedAssumption /\ Hl!BoundAssumption

Reports == [session : Sessions, form : {"native", "path"}]
Known == [session : Sessions, by : {"id", "path"}]

(* The rows that merging puts in order.                                    *)
DiskRows(disk, reports, same) ==
    {Hl!DiskRow(s, {r \in reports : Hl!MatchOf(disk, same, r) = {s}}) : s \in disk}
Unmatched(disk, reports, same) == {r \in reports : Hl!MatchOf(disk, same, r) = {}}
LiveRows(disk, reports, same) ==
    {Hl!LiveRow(ref, {r \in Unmatched(disk, reports, same) : Hl!Stable(r) = ref}) :
       ref \in {Hl!Stable(r) : r \in Unmatched(disk, reports, same)}}
MergedRows(disk, reports, same) == DiskRows(disk, reports, same) \cup LiveRows(disk, reports, same)

LEMMA ListBefore ==
  ASSUME NEW S, IsFiniteSet(S), Sessions \subseteq Nat,
         \A x \in S : x.reference \in Known /\ x.live \in BOOLEAN,
         \A x, y \in S : x.reference = y.reference => x = y
  PROVE  /\ Cardinality(S) \in Nat
         /\ Hl!RecentFirst(S) \in [1..Cardinality(S) -> S]
         /\ \A i, j \in 1..Cardinality(S) :
              Hl!RecentFirst(S)[i] = Hl!RecentFirst(S)[j] => i = j
         /\ \A x \in S : \E i \in 1..Cardinality(S) : Hl!RecentFirst(S)[i] = x
<1> DEFINE before == {pair \in S \X S : Hl!Before(pair[1], pair[2])}
<1>1. \A x, y \in S : <<x, y>> \in before <=> Hl!Before(x, y)
  OBVIOUS
<1>2. ASSUME NEW x \in S
      PROVE  x.reference.session \in Nat /\ x.reference.by \in {"id", "path"}
  BY DEF Known
<1>3. \A x \in S : <<x, x>> \notin before
  BY <1>1, <1>2 DEF Hl!Before
<1>4. ASSUME NEW x \in S, NEW y \in S, NEW z \in S, Hl!Before(x, y), Hl!Before(y, z)
      PROVE  Hl!Before(x, z)
  BY <1>2, <1>4 DEF Hl!Before
<1>5. ASSUME NEW x \in S, NEW y \in S, x # y
      PROVE  Hl!Before(x, y) \/ Hl!Before(y, x)
  <2>1. x.reference.session # y.reference.session \/ x.reference.by # y.reference.by
    BY <1>5 DEF Known
  <2> QED
    BY <1>2, <2>1 DEF Hl!Before
<1> HIDE DEF before
<1>6. Hl!RecentFirst(S) = Hl!InOrder(S, before)
  BY DEF Hl!RecentFirst, before
<1> QED
  BY <1>1, <1>3, <1>4, <1>5, <1>6, ListInOrder

LEMMA ListStable ==
  ASSUME NEW r \in Reports
  PROVE  /\ Hl!Stable(r) \in Known
         /\ Hl!Stable(r).session = r.session
         /\ r.form = "native" \/ r.session \in Documented => Hl!Stable(r).by = "id"
         /\ r.form # "native" /\ r.session \notin Documented => Hl!Stable(r).by = "path"
BY DEF Reports, Known, Hl!Stable, Hl!ById, Hl!ByPath

(* Whom a report is matched with: no session it is not of, if its path is  *)
(* of no other, and the session it names by its id.                        *)
LEMMA ListMatch ==
  ASSUME NEW disk, NEW same, NEW r \in Reports
  PROVE  /\ Hl!MatchOf(disk, same, r) \subseteq disk
         /\ r.session \in disk /\ Hl!Stable(r).by = "id" => Hl!MatchOf(disk, same, r) # {}
         /\ (\A s \in disk : r.form = "path" /\ Path[s] = Path[r.session] => s = r.session)
              => Hl!MatchOf(disk, same, r) \subseteq {r.session}
<1>1. r.form \in {"native", "path"}
  BY DEF Reports
<1>2. /\ Hl!ByNativeId(disk, r) \subseteq disk \cap {r.session}
      /\ Hl!ByDocument(disk, r) \subseteq disk \cap {r.session}
  BY DEF Hl!ByNativeId, Hl!ByDocument
<1>3. /\ Hl!ByTranscript(disk, same, r) \subseteq disk
      /\ (\A s \in disk : r.form = "path" /\ Path[s] = Path[r.session] => s = r.session)
           => Hl!ByTranscript(disk, same, r) \subseteq {r.session}
  <2>1. \A s \in Hl!ByTranscript(disk, same, r) : s \in disk /\ r.form = "path" /\ Path[s] = Path[r.session]
    <3> SUFFICES ASSUME NEW s \in Hl!ByTranscript(disk, same, r)
                 PROVE  s \in disk /\ r.form = "path" /\ Path[s] = Path[r.session]
      OBVIOUS
    <3>1. s \in disk /\ r.form = "path" /\ {t \in disk \cap same : Path[t] = Path[r.session]} = {s}
      BY DEF Hl!ByTranscript
    <3>2. s \in {t \in disk \cap same : Path[t] = Path[r.session]}
      BY <3>1
    <3> QED
      BY <3>1, <3>2
  <2> QED
    BY <2>1
<1>4. ASSUME r.session \in disk, Hl!Stable(r).by = "id"
      PROVE  Hl!ByNativeId(disk, r) # {} \/ Hl!ByDocument(disk, r) # {}
  BY <1>1, <1>4, ListStable DEF Hl!ByNativeId, Hl!ByDocument
<1> QED
  BY <1>2, <1>3, <1>4 DEF Hl!MatchOf

(* What a row is, of each kind.                                            *)
LEMMA ListDiskRow ==
  ASSUME NEW s \in Sessions, NEW R \in SUBSET Reports
  PROVE  LET row == Hl!DiskRow(s, R)
         IN  /\ row.reference = Hl!ById(s) /\ row.reference \in Known
             /\ row.reference.session = s /\ row.reference.by = "id"
             /\ row.tool = Tool[s]
             /\ row.live \in BOOLEAN /\ (row.live <=> R # {})
             /\ row.provenance = {Hl!Transcript(s)} \cup {Hl!Runtime(r) : r \in R}
BY DEF Hl!DiskRow, Hl!ById, Known

LEMMA ListLiveRow ==
  ASSUME NEW ref \in Known, NEW R \in SUBSET Reports
  PROVE  LET row == Hl!LiveRow(ref, R)
         IN  /\ row.reference = ref
             /\ row.tool = Tool[ref.session]
             /\ row.live = TRUE
             /\ row.provenance = {Hl!Runtime(r) : r \in R}
BY DEF Hl!LiveRow

LEMMA ListMergedRows ==
  ASSUME Sessions \subseteq Nat, IsFiniteSet(Sessions), NEW disk \in SUBSET Sessions,
         NEW reports \in SUBSET Reports, NEW same
  PROVE  LET rows == MergedRows(disk, reports, same)
         IN  /\ Hl!Merged(disk, reports, same) = Hl!RecentFirst(rows)
             /\ IsFiniteSet(rows)
             /\ \A x \in rows : x.reference \in Known /\ x.live \in BOOLEAN
             /\ \A x, y \in rows : x.reference = y.reference => x = y
<1> DEFINE of(s) == {r \in reports : Hl!MatchOf(disk, same, r) = {s}}
           unmatched == Unmatched(disk, reports, same)
           by(ref) == {r \in unmatched : Hl!Stable(r) = ref}
           refs == {Hl!Stable(r) : r \in unmatched}
           onDisk == [s \in disk |-> Hl!DiskRow(s, of(s))]
           lives == [ref \in refs |-> Hl!LiveRow(ref, by(ref))]
           rows == MergedRows(disk, reports, same)
<1>1. Hl!Merged(disk, reports, same) = Hl!RecentFirst(rows)
  BY DEF Hl!Merged, MergedRows, DiskRows, LiveRows, Unmatched
<1>2. \A s \in disk : of(s) \in SUBSET Reports
  OBVIOUS
<1>3. unmatched \subseteq reports /\ \A r \in unmatched : Hl!MatchOf(disk, same, r) = {}
  BY DEF Unmatched
<1>4. \A ref \in refs : by(ref) \in SUBSET Reports
  BY <1>3
<1>5. rows = {onDisk[s] : s \in disk} \cup {lives[ref] : ref \in refs}
  BY DEF MergedRows, DiskRows, LiveRows
<1>6. \A s \in disk : onDisk[s] = Hl!DiskRow(s, of(s))
  OBVIOUS
<1>7. \A ref \in refs : lives[ref] = Hl!LiveRow(ref, by(ref))
  OBVIOUS
<1>14. DOMAIN onDisk = disk /\ DOMAIN lives = refs
  OBVIOUS
<1> HIDE DEF of, by, onDisk, lives, rows
<1>8. \A ref \in refs : ref \in Known /\ (ref.by = "id" => ref.session \notin disk)
  <2> SUFFICES ASSUME NEW r \in unmatched
               PROVE  LET ref == Hl!Stable(r)
                      IN  ref \in Known /\ (ref.by = "id" => ref.session \notin disk)
    OBVIOUS
  <2> QED
    BY <1>3, ListStable, ListMatch
<1> HIDE DEF unmatched, refs
<1>9. \A s \in disk : /\ onDisk[s].reference = Hl!ById(s) /\ onDisk[s].reference \in Known
                       /\ onDisk[s].reference.session = s /\ onDisk[s].reference.by = "id"
                       /\ onDisk[s].live \in BOOLEAN
  BY <1>2, <1>6, ListDiskRow
<1>10. \A ref \in refs : lives[ref].reference = ref /\ lives[ref].live \in BOOLEAN
  <2> SUFFICES ASSUME NEW ref \in refs
               PROVE  lives[ref].reference = ref /\ lives[ref].live \in BOOLEAN
    OBVIOUS
  <2>1. by(ref) \in SUBSET Reports /\ ref \in Known
    BY <1>4, <1>8
  <2>2. lives[ref] = Hl!LiveRow(ref, by(ref))
    BY <1>7
  <2>3. lives[ref].live
    BY <2>2 DEF Hl!LiveRow
  <2>4. lives[ref].reference = ref
    BY <2>2 DEF Hl!LiveRow
  <2> QED
    BY <2>3, <2>4
<1>11. \A x \in rows : x.reference \in Known /\ x.live \in BOOLEAN
  BY <1>5, <1>8, <1>9, <1>10
<1>12. ASSUME NEW x \in rows, NEW y \in rows, x.reference = y.reference
       PROVE  x = y
  <2>1. CASE x \in {onDisk[s] : s \in disk} /\ y \in {onDisk[s] : s \in disk}
    BY <1>9, <1>12, <2>1
  <2>2. CASE x \in {lives[ref] : ref \in refs} /\ y \in {lives[ref] : ref \in refs}
    BY <1>10, <1>12, <2>2
  <2>3. ASSUME NEW s \in disk, NEW ref \in refs
        PROVE  onDisk[s].reference # lives[ref].reference
    BY <1>8, <1>9, <1>10
  <2> QED
    BY <1>5, <1>12, <2>1, <2>2, <2>3
<1>13. IsFiniteSet(rows)
  <2>1. IsFiniteSet(disk)
    BY FS_Subset
  <2>2. IsFiniteSet({onDisk[s] : s \in disk})
    BY <1>14, <2>1, ListImage
  <2>3. IsFiniteSet(refs)
    <3> DEFINE pairs == Sessions \X {"id", "path"}
               known == [p \in pairs |-> [session |-> p[1], by |-> p[2]]]
    <3>1. IsFiniteSet({"id"} \cup {"path"})
      BY FS_Singleton, FS_Union
    <3>4. IsFiniteSet({"id", "path"}) /\ IsFiniteSet(pairs)
      BY <3>1, FS_Product
    <3>2. Known \subseteq {known[p] : p \in pairs}
      <4> SUFFICES ASSUME NEW k \in Known
                   PROVE  \E p \in pairs : known[p] = k
        OBVIOUS
      <4>1. k = [session |-> k.session, by |-> k.by] /\ <<k.session, k.by>> \in pairs
        BY DEF Known
      <4>2. known[<<k.session, k.by>>] = [session |-> k.session, by |-> k.by]
        BY <4>1
      <4> QED
        BY <4>1, <4>2
    <3> HIDE DEF pairs
    <3>3. IsFiniteSet({known[p] : p \in pairs})
      BY <3>4, ListImage
    <3> QED
      BY <1>8, <3>2, <3>3, FS_Subset
  <2>4. IsFiniteSet({lives[ref] : ref \in refs})
    BY <1>14, <2>3, ListImage
  <2> QED
    BY <1>5, <2>2, <2>4, FS_Union
<1> QED
  BY <1>1, <1>11, <1>12, <1>13 DEF rows

(* What a row says of its session: its tool, the transcripts it knows, and *)
(* whether Herdr reports it.                                               *)
OwnPaths(reports) ==
    \A r \in reports : \A s \in Sessions : r.form = "path" /\ Path[s] = Path[r.session] => s = r.session
TellsOf(x) ==
    /\ x.reference \in Known /\ x.tool = Tool[x.reference.session]
    /\ \A p \in x.provenance : p.tool = x.tool /\ (p.path # None => p.path = Path[x.reference.session])

LEMMA ListEvidence ==
  ASSUME NEW s \in Sessions, NEW R \in SUBSET Reports, \A r \in R : r.session = s
  PROVE  \A p \in {Hl!Runtime(r) : r \in R} \cup {Hl!Transcript(s)} :
            p.tool = Tool[s] /\ (p.path # None => p.path = Path[s])
BY DEF Hl!Runtime, Hl!Transcript

LEMMA ListMergedTells ==
  ASSUME NEW disk \in SUBSET Sessions, NEW reports \in SUBSET Reports, NEW same, OwnPaths(reports)
  PROVE  LET rows == MergedRows(disk, reports, same)
         IN  /\ \A x \in rows : TellsOf(x)
             /\ {x.reference.session : x \in {y \in rows : y.live}} = {r.session : r \in reports}
             /\ \A s \in disk : \E x \in rows : x.reference.session = s
<1> DEFINE of(s) == {r \in reports : Hl!MatchOf(disk, same, r) = {s}}
           unmatched == Unmatched(disk, reports, same)
           by(ref) == {r \in unmatched : Hl!Stable(r) = ref}
           rows == MergedRows(disk, reports, same)
<1>1. \A r \in reports : /\ r \in Reports /\ r.session \in Sessions
                          /\ Hl!MatchOf(disk, same, r) \subseteq disk \cap {r.session}
  BY ListMatch DEF OwnPaths, Reports
<1>2. \A s \in disk : of(s) \in SUBSET Reports /\ \A r \in of(s) : r \in reports /\ r.session = s
  BY <1>1
<1>3. \A ref : by(ref) \in SUBSET Reports /\ \A r \in by(ref) : r \in unmatched /\ Hl!Stable(r) = ref
  BY <1>1 DEF Unmatched
<1>4. \A r \in unmatched : /\ r \in reports /\ Hl!Stable(r) \in Known
                            /\ Hl!Stable(r).session = r.session /\ r \in by(Hl!Stable(r))
  BY <1>1, ListStable DEF Unmatched
<1>5. ASSUME NEW x \in rows
      PROVE  \/ \E s \in disk : x = Hl!DiskRow(s, of(s))
             \/ \E r \in unmatched : x = Hl!LiveRow(Hl!Stable(r), by(Hl!Stable(r)))
  BY DEF MergedRows, DiskRows, LiveRows
<1>6. \A s \in disk : Hl!DiskRow(s, of(s)) \in rows
  BY DEF MergedRows, DiskRows
<1>7. \A r \in unmatched : Hl!LiveRow(Hl!Stable(r), by(Hl!Stable(r))) \in rows
  BY DEF MergedRows, LiveRows
<1>8. \A r \in reports : r \in unmatched \/ \E s \in disk : r.session = s /\ r \in of(s)
  <2> SUFFICES ASSUME NEW r \in reports, r \notin unmatched
               PROVE  \E s \in disk : r.session = s /\ r \in of(s)
    OBVIOUS
  <2>1. Hl!MatchOf(disk, same, r) # {}
    BY DEF Unmatched
  <2>2. r.session \in disk /\ Hl!MatchOf(disk, same, r) = {r.session}
    BY <1>1, <2>1
  <2> QED
    BY <2>2
<1> HIDE DEF of, by, unmatched, rows
<1>9. ASSUME NEW s \in disk
      PROVE  LET x == Hl!DiskRow(s, of(s))
             IN  /\ TellsOf(x) /\ x.reference.session = s /\ (x.live <=> of(s) # {})
  <2> DEFINE x == Hl!DiskRow(s, of(s))
  <2>1. /\ x.reference \in Known /\ x.reference.session = s /\ x.tool = Tool[s]
        /\ x.provenance = {Hl!Transcript(s)} \cup {Hl!Runtime(r) : r \in of(s)}
    BY <1>2, ListDiskRow
  <2>2. x.live <=> of(s) # {}
    BY <1>2, ListDiskRow
  <2>3. \A p \in x.provenance : p.tool = Tool[s] /\ (p.path # None => p.path = Path[s])
    BY <1>2, <2>1, ListEvidence
  <2> HIDE DEF x
  <2>4. TellsOf(x)
    BY <2>1, <2>3 DEF TellsOf
  <2> QED
    BY <2>1, <2>2, <2>4 DEF x
<1>10. ASSUME NEW r \in unmatched
       PROVE  LET x == Hl!LiveRow(Hl!Stable(r), by(Hl!Stable(r)))
              IN  TellsOf(x) /\ x.reference.session = r.session /\ x.live
  <2> DEFINE ref == Hl!Stable(r)
             x == Hl!LiveRow(ref, by(ref))
  <2>1. ref \in Known /\ ref.session = r.session /\ ref.session \in Sessions
    BY <1>1, <1>4
  <2>2. \A t \in by(ref) : t.session = ref.session
    <3> SUFFICES ASSUME NEW t \in by(ref)
                 PROVE  t.session = ref.session
      OBVIOUS
    <3>1. t \in unmatched /\ Hl!Stable(t) = ref
      BY <1>3
    <3> QED
      BY <1>4, <3>1
  <2>3. by(ref) \in SUBSET Reports
    BY <1>3
  <2> HIDE DEF ref
  <2>4. /\ x.reference = ref /\ x.tool = Tool[ref.session]
        /\ x.provenance = {Hl!Runtime(t) : t \in by(ref)}
    BY DEF Hl!LiveRow
  <2>5. x.live
    BY DEF Hl!LiveRow
  <2>6. \A p \in x.provenance : p.tool = Tool[ref.session] /\ (p.path # None => p.path = Path[ref.session])
    BY <2>1, <2>2, <2>3, <2>4, ListEvidence
  <2> HIDE DEF x
  <2>7. TellsOf(x)
    BY <2>1, <2>4, <2>6 DEF TellsOf
  <2> QED
    BY <2>1, <2>4, <2>5, <2>7 DEF x, ref
<1>11. \A x \in rows : TellsOf(x)
  BY <1>5, <1>9, <1>10
<1>12. \A s \in disk : \E x \in rows : x.reference.session = s
  BY <1>6, <1>9
<1>13. \A x \in rows : x.live => \E r \in reports : x.reference.session = r.session
  <2> SUFFICES ASSUME NEW x \in rows, x.live
               PROVE  \E r \in reports : x.reference.session = r.session
    OBVIOUS
  <2>1. CASE \E s \in disk : x = Hl!DiskRow(s, of(s))
    <3>1. PICK s \in disk : x = Hl!DiskRow(s, of(s))
      BY <2>1
    <3>2. of(s) # {} /\ x.reference.session = s
      BY <1>9, <3>1
    <3> QED
      BY <1>2, <3>2
  <2>2. CASE \E r \in unmatched : x = Hl!LiveRow(Hl!Stable(r), by(Hl!Stable(r)))
    BY <1>4, <1>10, <2>2
  <2> QED
    BY <1>5, <2>1, <2>2
<1>14. \A r \in reports : \E x \in rows : x.live /\ x.reference.session = r.session
  <2> SUFFICES ASSUME NEW r \in reports
               PROVE  \E x \in rows : x.live /\ x.reference.session = r.session
    OBVIOUS
  <2>1. CASE r \in unmatched
    BY <1>7, <1>10, <2>1
  <2>2. CASE \E s \in disk : r.session = s /\ r \in of(s)
    <3>1. PICK s \in disk : r.session = s /\ r \in of(s)
      BY <2>2
    <3>2. Hl!DiskRow(s, of(s)) \in rows
      BY <1>6
    <3>3. Hl!DiskRow(s, of(s)).live /\ Hl!DiskRow(s, of(s)).reference.session = s
      BY <1>9, <3>1
    <3> QED
      BY <3>1, <3>2, <3>3
  <2> QED
    BY <1>8, <2>1, <2>2
<1>15. {x.reference.session : x \in {y \in rows : y.live}} = {r.session : r \in reports}
  BY <1>13, <1>14
<1> QED
  BY <1>11, <1>12, <1>15 DEF rows

-----------------------------------------------------------------------------
(* The lines of the list.  What is put behind each other group by group    *)
(* has the lines of the groups, by the first group where it would not.     *)
Behind(g, G, n) == g = [i \in 0..n |-> IF i = 0 THEN <<>> ELSE g[i - 1] \o G[i]]

LEMMA ListLoop ==
  ASSUME NEW n \in Nat, NEW G
  PROVE  \E g : Behind(g, G, n)
<1> DEFINE Loops(g, m) == Behind(g, G, m)
           Stuck == {m \in 0..n : \A g : ~Loops(g, m)}
<1> HIDE DEF Loops
<1>1. Stuck = {}
  <2> SUFFICES ASSUME Stuck # {} PROVE FALSE
    OBVIOUS
  <2>0. Stuck \subseteq 0..n /\ Stuck \subseteq Nat
    OBVIOUS
  <2>1. PICK m \in Stuck : \A k \in Stuck : ~(<<k, m>> \in OpToRel(<, Nat))
    <3> HIDE DEF Stuck
    <3> QED BY <2>0, WFMin, NatLessThanWellFounded
  <2>2. m \in 0..n /\ \A k \in 0..n : k < m => k \notin Stuck
    <3> HIDE DEF Stuck
    <3> QED BY <2>0, <2>1 DEF OpToRel
  <2>3. CASE m = 0
    <3>1. Loops([i \in 0..0 |-> <<>>], 0)
      BY DEF Loops, Behind
    <3> QED
      BY <2>1, <2>3, <3>1
  <2>4. CASE m # 0
    <3>1. m - 1 \in 0..n /\ m \in Nat
      BY <2>2, <2>4
    <3>2. PICK h : Loops(h, m - 1)
      BY <2>2, <3>1
    <3> DEFINE g == [i \in 0..m |-> IF i = m THEN h[m - 1] \o G[m] ELSE h[i]]
    <3>3. ASSUME NEW i \in 0..m
          PROVE  g[i] = IF i = 0 THEN <<>> ELSE g[i - 1] \o G[i]
      <4>1. CASE i = m
        <5>1. g[i - 1] = h[m - 1] /\ g[i] = h[m - 1] \o G[m]
          BY <2>4, <3>1, <4>1
        <5> QED
          BY <2>4, <4>1, <5>1
      <4>2. CASE i # m
        <5>1. i \in 0..m - 1 /\ g[i] = h[i] /\ (i # 0 => g[i - 1] = h[i - 1])
          BY <3>1, <4>2
        <5>2. h[i] = IF i = 0 THEN <<>> ELSE h[i - 1] \o G[i]
          BY <3>2, <5>1 DEF Loops, Behind
        <5> QED
          BY <5>1, <5>2
      <4> QED
        BY <4>1, <4>2
    <3>4. Loops(g, m)
      <4> HIDE DEF g
      <4>1. g = [i \in 0..m |-> g[i]]
        BY DEF g
      <4> QED
        BY <3>3, <4>1 DEF Loops, Behind
    <3> QED
      BY <2>1, <3>4
  <2> QED
    BY <2>3, <2>4
<1>2. \E g : Loops(g, n)
  <2>1. n \notin Stuck
    BY <1>1
  <2> QED
    BY <2>1
<1> QED
  BY <1>2 DEF Loops

LEMMA ListFlatten ==
  ASSUME NEW W, NEW n \in Nat, NEW G \in [1..n -> Seq(W)], NEW u, Behind(u, G, n)
  PROVE  u[n] \in Seq(W) /\ Range(u[n]) = UNION {Range(G[i]) : i \in 1..n}
<1> DEFINE join(v, w) == v \o w
<1>3. ASSUME NEW i \in 0..n
      PROVE  u[i] = IF i = 0 THEN <<>> ELSE join(u[i - 1], G[i])
  BY DEF Behind
<1> HIDE DEF join
<1>4. u[0] = <<>> /\ \A i \in 1..n : u[i] = join(u[i - 1], G[i])
  BY <1>3
<1> DEFINE all(m) == UNION {Range(G[i]) : i \in 1..m}
           Right(m) == u[m] \in Seq(W) /\ Range(u[m]) = all(m)
           Wrong == {m \in 0..n : ~Right(m)}
<1> HIDE DEF Right
<1>5. Wrong = {}
  <2> SUFFICES ASSUME Wrong # {} PROVE FALSE
    OBVIOUS
  <2>0. Wrong \subseteq Nat /\ Wrong \subseteq 0..n
    OBVIOUS
  <2>1. PICK m \in Wrong : \A k \in Wrong : ~(<<k, m>> \in OpToRel(<, Nat))
    <3> HIDE DEF Wrong
    <3> QED BY <2>0, WFMin, NatLessThanWellFounded
  <2>2. m \in 0..n /\ \A k \in 0..n : k < m => k \notin Wrong
    <3> HIDE DEF Wrong
    <3> QED BY <2>0, <2>1 DEF OpToRel
  <2>3. m # 0
    <3>1. all(0) = {} /\ Range(<<>>) = {} /\ <<>> \in Seq(W)
      BY DEF Range
    <3>2. Right(0)
      BY <1>4, <3>1 DEF Right
    <3> QED
      BY <2>1, <3>2
  <2>4. m - 1 \in 0..n /\ m \in 1..n
    BY <2>2, <2>3
  <2>10. Right(m - 1)
    BY <2>2, <2>4
  <2>5. u[m - 1] \in Seq(W) /\ Range(u[m - 1]) = all(m - 1)
    BY <2>10 DEF Right
  <2>6. u[m] = join(u[m - 1], G[m]) /\ G[m] \in Seq(W)
    BY <1>4, <2>4
  <2>7. u[m] \in Seq(W) /\ Range(u[m]) = Range(u[m - 1]) \cup Range(G[m])
    <3> DEFINE v == u[m - 1]
               w == G[m]
    <3>1. v \in Seq(W) /\ w \in Seq(W) /\ u[m] = v \o w
      BY <2>5, <2>6 DEF join
    <3> HIDE DEF v, w
    <3>2. v \o w \in Seq(W) /\ Range(v \o w) = Range(v) \cup Range(w)
      BY <3>1, ConcatProperties, RangeConcatenation
    <3> QED
      BY <3>1, <3>2 DEF v, w
  <2>8. all(m) = all(m - 1) \cup Range(G[m])
    <3>1. 1..m = 1..m - 1 \cup {m}
      BY <2>4
    <3> QED
      BY <3>1
  <2>9. Right(m)
    BY <2>5, <2>7, <2>8 DEF Right
  <2> QED
    BY <2>1, <2>9
<1>6. Right(n)
  BY <1>5
<1> QED
  BY <1>6 DEF Right

(* The conversations of a provider, all of them.                           *)
LEMMA ListOfProvider ==
  ASSUME NEW T, NEW list \in Seq(T), NEW p
  PROVE  LET of == Hl!OfProvider(list, p)
         IN  /\ of \in Seq(T)
             /\ \A j \in DOMAIN of : of[j] \in Range(list) /\ of[j].tool = p
             /\ \A x \in Range(list) : x.tool = p => \E j \in DOMAIN of : of[j] = x
<1> DEFINE at == {i \in DOMAIN list : list[i].tool = p}
           before == {pair \in at \X at : pair[1] < pair[2]}
           order == Hl!InOrder(at, before)
           of == Hl!OfProvider(list, p)
           n == Cardinality(at)
<1>1. Len(list) \in Nat /\ DOMAIN list = 1..Len(list) /\ \A i \in 1..Len(list) : list[i] \in T
  BY LenProperties
<1>2. at \subseteq 1..Len(list) /\ IsFiniteSet(at) /\ at \subseteq Nat
  <2>1. at \subseteq 1..Len(list)
    BY <1>1
  <2>2. IsFiniteSet(1..Len(list))
    BY <1>1, FS_Interval
  <2> HIDE DEF at
  <2>3. IsFiniteSet(at)
    BY <2>1, <2>2, FS_Subset
  <2>4. 1..Len(list) \subseteq Nat
    OBVIOUS
  <2> QED
    BY <2>1, <2>3, <2>4
<1>3. \A i, j \in at : <<i, j>> \in before <=> i < j
  OBVIOUS
<1>4. of = [j \in DOMAIN order |-> list[order[j]]]
  BY DEF Hl!OfProvider
<1>5. \A i \in at : i \in DOMAIN list /\ list[i].tool = p
  OBVIOUS
<1>6. \A i \in DOMAIN list : list[i].tool = p => i \in at
  OBVIOUS
<1> HIDE DEF at, before
<1>7. /\ n \in Nat /\ order \in [1..n -> at]
      /\ \A i \in at : \E j \in 1..n : order[j] = i
  <2>1. \A i, j \in at : i \in Nat /\ j \in Nat
    BY <1>2
  <2>2. \A i \in at : <<i, i>> \notin before
    BY <1>3, <2>1
  <2>3. \A i, j, k \in at : <<i, j>> \in before /\ <<j, k>> \in before => <<i, k>> \in before
    BY <1>3, <2>1
  <2>4. \A i, j \in at : i # j => <<i, j>> \in before \/ <<j, i>> \in before
    BY <1>3, <2>1
  <2> QED
    BY ZenonT(60), <1>2, <2>2, <2>3, <2>4, ListInOrder
<1> HIDE DEF order, of, n
<1>8. of = [j \in 1..n |-> list[order[j]]]
  BY <1>4, <1>7
<1>9. of \in Seq(T)
  <2>1. \A j \in 1..n : order[j] \in 1..Len(list)
    BY <1>2, <1>7
  <2>2. of \in [1..n -> T]
    BY <1>1, <1>8, <2>1
  <2> QED
    BY <1>7, <2>2
<1>10. \A j \in DOMAIN of : of[j] \in Range(list) /\ of[j].tool = p
  BY <1>1, <1>5, <1>7, <1>8 DEF Range
<1>11. ASSUME NEW x \in Range(list), x.tool = p
       PROVE  \E j \in DOMAIN of : of[j] = x
  <2>1. PICK i \in DOMAIN list : x = list[i]
    BY DEF Range
  <2>2. PICK j \in 1..n : order[j] = i
    BY <1>6, <1>7, <1>11, <2>1
  <2> QED
    BY <1>8, <2>1, <2>2
<1> QED
  BY <1>9, <1>10, <1>11 DEF of

(* The lines of a group, and of the list.                                  *)
Line(p, r) == [provider |-> p, reference |-> r]
LinesOf(list, collapsed, p) ==
    {Line(p, None) : x \in {x \in Range(list) : x.tool = p}}
    \cup {Line(p, x.reference) : x \in {x \in Range(list) : x.tool = p /\ p \notin collapsed}}

LEMMA ListGroup ==
  ASSUME NEW T, NEW list \in Seq(T), NEW collapsed, NEW p, NEW W, LinesOf(list, collapsed, p) \subseteq W
  PROVE  LET group == Hl!Group(list, collapsed, p)
         IN  group \in Seq(W) /\ Range(group) = LinesOf(list, collapsed, p)
<1> DEFINE of == Hl!OfProvider(list, p)
           group == Hl!Group(list, collapsed, p)
           rows == [j \in DOMAIN of |-> [provider |-> p, reference |-> of[j].reference]]
<1>1. /\ of \in Seq(T)
      /\ \A j \in DOMAIN of : of[j] \in Range(list) /\ of[j].tool = p
      /\ \A x \in Range(list) : x.tool = p => \E j \in DOMAIN of : of[j] = x
  BY ListOfProvider
<1>2. group = IF of = <<>> THEN <<>>
              ELSE <<Hl!Header(p)>> \o IF p \in collapsed THEN <<>> ELSE rows
  BY DEF Hl!Group
<1> HIDE DEF of, group
<1>3. DOMAIN of = 1..Len(of) /\ Len(of) \in Nat
  BY <1>1, LenProperties
<1>4. Hl!Header(p) = Line(p, None) /\ \A j \in DOMAIN of : rows[j] = Line(p, of[j].reference)
  BY DEF Hl!Header, Line
<1>5. CASE of = <<>>
  <2>1. \A x \in Range(list) : x.tool # p
    BY <1>1, <1>3, <1>5
  <2>2. group = <<>> /\ Range(group) = {} /\ LinesOf(list, collapsed, p) = {}
    BY <1>2, <1>5, <2>1 DEF LinesOf, Range
  <2> QED
    BY <2>2 DEF group
<1>6. CASE of # <<>>
  <2> DEFINE h == <<Hl!Header(p)>>
             t == IF p \in collapsed THEN <<>> ELSE rows
  <2>1. DOMAIN of # {}
    BY <1>1, <1>3, <1>6, EmptySeq
  <2>2. \E x \in Range(list) : x.tool = p
    BY <1>1, <2>1
  <2>3. Range(h) = {Line(p, None)} /\ Line(p, None) \in W
    <3>1. Line(p, None) \in LinesOf(list, collapsed, p)
      BY <2>2 DEF LinesOf
    <3>2. DOMAIN h = {1} /\ h[1] = Line(p, None)
      BY <1>4
    <3> HIDE DEF h
    <3> QED
      BY <3>1, <3>2 DEF Range
  <2>4. h \in Seq(W)
    BY <1>4, <2>3
  <2>5. /\ Range(t) = {Line(p, x.reference) : x \in {x \in Range(list) : x.tool = p /\ p \notin collapsed}}
        /\ t \in Seq(W)
    <3>1. CASE p \in collapsed
      <4>1. t = <<>> /\ Range(t) = {} /\ t \in Seq(W)
        BY <3>1 DEF Range
      <4> QED
        BY <3>1, <4>1
    <3>2. CASE p \notin collapsed
      <4>1. t = rows
        BY <3>2
      <4>2. DOMAIN t = 1..Len(of) /\ \A j \in 1..Len(of) : t[j] = Line(p, of[j].reference)
        BY <1>3, <1>4, <4>1
      <4> HIDE DEF t
      <4>3. \A x \in Range(list) : x.tool = p => \E j \in DOMAIN t : t[j] = Line(p, x.reference)
        BY <1>1, <1>3, <4>2
      <4>4. \A j \in DOMAIN t : \E x \in Range(list) : x.tool = p /\ t[j] = Line(p, x.reference)
        BY <1>1, <1>3, <4>2
      <4>5. Range(t) = {Line(p, x.reference) : x \in {x \in Range(list) : x.tool = p /\ p \notin collapsed}}
        BY <3>2, <4>3, <4>4 DEF Range
      <4>6. \A j \in DOMAIN t : t[j] \in W
        <5>1. Range(t) \subseteq W
          BY <4>5 DEF LinesOf
        <5> QED
          BY <5>1 DEF Range
      <4>7. t = [j \in 1..Len(of) |-> t[j]]
        BY <4>1, <1>3 DEF t
      <4>8. t \in Seq(W)
        BY <1>3, <4>2, <4>6, <4>7
      <4> QED
        BY <4>5, <4>8
    <3> QED
      BY <3>1, <3>2
  <2>6. group = h \o t
    BY <1>2, <1>6
  <2> HIDE DEF h, t
  <2>7. group \in Seq(W) /\ Range(group) = Range(h) \cup Range(t)
    BY <2>4, <2>5, <2>6, ConcatProperties, RangeConcatenation
  <2>8. LinesOf(list, collapsed, p) = Range(h) \cup Range(t)
    BY <2>2, <2>3, <2>5 DEF LinesOf
  <2> QED
    BY <2>7, <2>8 DEF group
<1> QED
  BY <1>5, <1>6 DEF group

LinesOfAll(list, collapsed) ==
    {Line(x.tool, None) : x \in Range(list)}
    \cup {Line(x.tool, x.reference) : x \in {x \in Range(list) : x.tool \notin collapsed}}

LEMMA ListLines ==
  ASSUME Providers \in Seq(Range(Providers)), NEW T, NEW list \in Seq(T), NEW collapsed,
         \A x \in Range(list) : x.tool \in Range(Providers)
  PROVE  LET lines == Hl!Lines(list, collapsed)
         IN  lines \in Seq(LinesOfAll(list, collapsed)) /\ Range(lines) = LinesOfAll(list, collapsed)
<1> DEFINE n == Len(Providers)
           W == LinesOfAll(list, collapsed)
           G == [i \in 1..n |-> Hl!Group(list, collapsed, Providers[i])]
           Laid(f) == f = [i \in 0..n |-> IF i = 0 THEN <<>>
                                         ELSE f[i - 1] \o Hl!Group(list, collapsed, Providers[i])]
           u == CHOOSE f : Laid(f)
<1>1. n \in Nat /\ DOMAIN Providers = 1..n
  BY LenProperties
<1>2. Hl!Lines(list, collapsed) = u[n]
  BY DEF Hl!Lines
<1>3. ASSUME NEW f
      PROVE  Laid(f) <=> Behind(f, G, n)
  <2> DEFINE join(v, w) == v \o w
  <2>1. \A i \in 1..n : G[i] = Hl!Group(list, collapsed, Providers[i])
    OBVIOUS
  <2>2. Behind(f, G, n) <=> f = [i \in 0..n |-> IF i = 0 THEN <<>> ELSE join(f[i - 1], G[i])]
    BY DEF Behind
  <2>3. Laid(f) <=> f = [i \in 0..n |-> IF i = 0 THEN <<>>
                                        ELSE join(f[i - 1], Hl!Group(list, collapsed, Providers[i]))]
    OBVIOUS
  <2> HIDE DEF join, G, Laid
  <2>4. [i \in 0..n |-> IF i = 0 THEN <<>> ELSE join(f[i - 1], G[i])]
        = [i \in 0..n |-> IF i = 0 THEN <<>>
                          ELSE join(f[i - 1], Hl!Group(list, collapsed, Providers[i]))]
    BY <1>1, <2>1
  <2> QED
    BY <2>2, <2>3, <2>4
<1> HIDE DEF Laid
<1>4. \E f : Laid(f)
  BY <1>1, <1>3, ListLoop
<1>5. Behind(u, G, n)
  BY <1>3, <1>4
<1> HIDE DEF u
<1>6. ASSUME NEW i \in 1..n
      PROVE  G[i] \in Seq(W) /\ Range(G[i]) = LinesOf(list, collapsed, Providers[i])
  <2>1. LinesOf(list, collapsed, Providers[i]) \subseteq W
    BY DEF LinesOf, LinesOfAll
  <2>2. G[i] = Hl!Group(list, collapsed, Providers[i])
    OBVIOUS
  <2> HIDE DEF G, W
  <2> QED
    BY <2>1, <2>2, ListGroup
<1>7. G \in [1..n -> Seq(W)]
  BY <1>6
<1> HIDE DEF G
<1>8. u[n] \in Seq(W) /\ Range(u[n]) = UNION {Range(G[i]) : i \in 1..n}
  <2> HIDE DEF W
  <2> QED
    BY <1>1, <1>5, <1>7, ListFlatten
<1>9. UNION {Range(G[i]) : i \in 1..n} = W
  <2>1. \A x \in Range(list) : \E i \in 1..n : x.tool = Providers[i]
    BY <1>1 DEF Range
  <2>2. UNION {Range(G[i]) : i \in 1..n} = UNION {LinesOf(list, collapsed, Providers[i]) : i \in 1..n}
    BY <1>6
  <2>3. \A i \in 1..n : LinesOf(list, collapsed, Providers[i]) \subseteq W
    BY DEF LinesOf, LinesOfAll
  <2>4. ASSUME NEW w \in W
        PROVE  \E i \in 1..n : w \in LinesOf(list, collapsed, Providers[i])
    <3>1. PICK x \in Range(list) : \/ w = Line(x.tool, None)
                                   \/ w = Line(x.tool, x.reference) /\ x.tool \notin collapsed
      BY DEF LinesOfAll
    <3>2. PICK i \in 1..n : x.tool = Providers[i]
      BY <2>1
    <3> QED
      BY <3>1, <3>2 DEF LinesOf
  <2> HIDE DEF W
  <2> QED
    BY <2>2, <2>3, <2>4
<1> QED
  BY <1>2, <1>8, <1>9

(* Of the window that EnsureVisible moves: it holds the selected row, and  *)
(* leaves no line empty unless it is at the top.                           *)
RowOf(lines, p, r) == (CHOOSE i \in Hl!SelectedRow(lines, p, r) : TRUE) - 1
Visible(lines, top, room) == SubSeq(lines, top + 1, Hl!Least(top + room, Len(lines)))

LEMMA ListRow ==
  ASSUME NEW W, NEW lines \in Seq(W), NEW p, NEW r, Line(p, r) \in Range(lines)
  PROVE  RowOf(lines, p, r) \in Nat
<1>1. Len(lines) \in Nat /\ DOMAIN lines = 1..Len(lines)
  BY LenProperties
<1>2. Hl!SelectedRow(lines, p, r) \subseteq 1..Len(lines) /\ Hl!SelectedRow(lines, p, r) # {}
  BY <1>1 DEF Hl!SelectedRow, Line, Range
<1> QED
  BY <1>1, <1>2 DEF RowOf

LEMMA ListWindow ==
  ASSUME NEW W, NEW lines \in Seq(W), NEW p, NEW r, Line(p, r) \in Range(lines),
         NEW top \in Nat, NEW room \in Nat
  PROVE  LET s == Hl!EnsureVisible(top, lines, p, r, room)
         IN  /\ s \in Nat
             /\ room > 0 => /\ s <= RowOf(lines, p, r) /\ RowOf(lines, p, r) < s + room
                            /\ Line(p, r) \in Range(Visible(lines, s, room))
             /\ room = 0 \/ RowOf(lines, p, r) < top + room => s <= top
             /\ Len(Visible(lines, s, room)) \in 0..room
             /\ s > 0 => Len(Visible(lines, s, room)) = room
<1> DEFINE at == CHOOSE i \in Hl!SelectedRow(lines, p, r) : TRUE
           row == at - 1
           n == Len(lines)
           moved == IF row < top THEN row
                    ELSE IF room # 0 /\ row >= top + room THEN Hl!Less(row + 1, room) ELSE top
           s == Hl!EnsureVisible(top, lines, p, r, room)
           last == Hl!Least(s + room, n)
           rows == SubSeq(lines, s + 1, last)
<1>1. n \in Nat /\ DOMAIN lines = 1..n /\ \A i \in 1..n : lines[i] \in W
  BY LenProperties
<1>2. Hl!SelectedRow(lines, p, r) = {i \in 1..n : lines[i] = Line(p, r)}
  BY <1>1 DEF Hl!SelectedRow, Line
<1>3. Hl!SelectedRow(lines, p, r) # {}
  BY <1>1, <1>2 DEF Range
<1>4. at \in 1..n /\ lines[at] = Line(p, r)
  BY <1>2, <1>3
<1>5. s = Hl!Least(moved, Hl!Less(n, room))
  BY <1>3 DEF Hl!EnsureVisible
<1>13. row = RowOf(lines, p, r) /\ rows = Visible(lines, s, room)
  BY DEF RowOf, Visible
<1> HIDE DEF at, s, n
<1>6. row \in 0..(n - 1)
  BY <1>1, <1>4
<1>7. moved \in Nat /\ moved <= row + top
  BY <1>6 DEF Hl!Less
<1>8. /\ s \in Nat
      /\ room > 0 => s <= row /\ row < s + room
      /\ room = 0 \/ row < top + room => s <= top
      /\ s <= n /\ (s > 0 => s + room <= n)
  BY SMTT(30), <1>1, <1>5, <1>6 DEF Hl!Less, Hl!Least
<1>9. last \in Nat /\ last <= n /\ last <= s + room /\ s <= last /\ (s + room <= n => last = s + room)
      /\ (last = s + room \/ last = n)
  BY <1>1, <1>8 DEF Hl!Least
<1> HIDE DEF last
<1>10. /\ Len(rows) = last - s
       /\ \A i \in 1..(last - s) : rows[i] = lines[s + i]
       /\ DOMAIN rows = 1..(last - s)
  <2> DEFINE first == s + 1
  <2>1. first \in Int /\ last \in Int /\ first \in 1..(n + 1) /\ last \in (first - 1)..n /\ first - 1 = s
    BY <1>1, <1>8, <1>9
  <2>2. rows = SubSeq(lines, first, last)
    OBVIOUS
  <2>3. \A i \in 1..n : lines[i] \in W
    BY <1>1
  <2> HIDE DEF rows, first
  <2>4. \A i \in first..last : lines[i] \in W
    BY <1>1, <2>1, <2>3
  <2>5. /\ rows \in Seq(W) /\ Len(rows) = IF first <= last THEN last - first + 1 ELSE 0
        /\ \A i \in 1..(last - first + 1) : rows[i] = lines[first + i - 1]
    BY <2>1, <2>2, <2>4, SubSeqProperties
  <2>6. /\ last - first + 1 = last - s /\ \A i \in 1..(last - s) : first + i - 1 = s + i
        /\ (first > last => last - s = 0)
    BY <1>8, <1>9, <2>1 DEF first
  <2>7. Len(rows) = last - s /\ \A i \in 1..(last - s) : rows[i] = lines[s + i]
    BY <1>8, <1>9, <2>1, <2>5, <2>6
  <2> QED
    BY <2>5, <2>7, LenProperties
<1> HIDE DEF rows
<1>11. Len(rows) \in 0..room /\ (s > 0 => Len(rows) = room)
  BY <1>8, <1>9, <1>10
<1>12. ASSUME room > 0
       PROVE  Line(p, r) \in Range(rows)
  <2>1. at - s \in 1..(last - s) /\ s + (at - s) = at
    BY <1>1, <1>4, <1>6, <1>8, <1>9, <1>12
  <2> QED
    BY <1>4, <1>10, <2>1 DEF Range
<1> HIDE DEF row
<1> QED
  BY <1>8, <1>11, <1>12, <1>13 DEF s

-----------------------------------------------------------------------------
(* What merging gives is a list of rows that tell of their sessions.       *)
GoodItems(list) ==
    /\ list \in Seq(Range(list)) /\ IsFiniteSet(Range(list))
    /\ \A x \in Range(list) : TellsOf(x) /\ x.tool \in Range(Providers) /\ x.reference # None

LEMMA ListMergedGood ==
  ASSUME ListAssumption, ReportedAlone, NEW disk \in Discovered \cup {None},
         NEW reports \in Reported \cup {None}, NEW same
  PROVE  LET list == Hl!MergedConversations(disk, reports, same)
         IN  /\ GoodItems(list)
             /\ disk # None =>
                  /\ {x.reference.session : x \in {y \in Range(list) : y.live}}
                       = IF reports = None THEN {} ELSE {r.session : r \in reports}
                  /\ disk \subseteq {x.reference.session : x \in Range(list)}
                  /\ Cardinality(Hl!References(list)) = Len(list)
<1> DEFINE list == Hl!MergedConversations(disk, reports, same)
           told == IF reports = None THEN {} ELSE reports
           rows == MergedRows(disk, told, same)
<1>1. CASE disk = None
  <2>1. list = <<>> /\ Range(list) = {}
    BY <1>1 DEF Hl!MergedConversations, Range
  <2> QED
    BY <1>1, <2>1, FS_EmptySet DEF GoodItems
<1>2. CASE disk # None
  <2>1. Sessions \subseteq Nat /\ IsFiniteSet(Sessions) /\ disk \in SUBSET Sessions
    BY <1>2, ListOperators DEF ListAssumption, Hl!SessionsAssumption
  <2>2. told \in SUBSET Reports /\ OwnPaths(told)
    BY DEF ListAssumption, Hl!ReportedAssumption, Reports, ReportedAlone, OwnPaths
  <2>3. list = Hl!Merged(disk, told, same)
    BY <1>2 DEF Hl!MergedConversations
  <2>4. {r.session : r \in told} = IF reports = None THEN {} ELSE {r.session : r \in reports}
    OBVIOUS
  <2> HIDE DEF list, told, rows
  <2>5. /\ list = Hl!RecentFirst(rows) /\ IsFiniteSet(rows)
        /\ \A x \in rows : x.reference \in Known /\ x.live \in BOOLEAN
        /\ \A x, y \in rows : x.reference = y.reference => x = y
    BY <2>1, <2>2, <2>3, ListMergedRows DEF rows
  <2> DEFINE n == Cardinality(rows)
  <2>6. /\ n \in Nat /\ list \in [1..n -> rows]
        /\ \A i, j \in 1..n : list[i] = list[j] => i = j
        /\ \A x \in rows : \E i \in 1..n : list[i] = x
    BY <2>1, <2>5, ListBefore
  <2> HIDE DEF n
  <2>7. Range(list) = rows /\ list \in Seq(rows) /\ Len(list) = n
    BY <2>6 DEF Range
  <2>8. /\ \A x \in rows : TellsOf(x)
        /\ {x.reference.session : x \in {y \in rows : y.live}} = {r.session : r \in told}
        /\ \A s \in disk : \E x \in rows : x.reference.session = s
    BY <2>1, <2>2, ListMergedTells DEF rows
  <2>9. \A x \in rows : x.tool \in Range(Providers) /\ x.reference # None
    <3> SUFFICES ASSUME NEW x \in rows
                 PROVE  x.tool \in Range(Providers) /\ x.reference # None
      OBVIOUS
    <3>1. x.reference \in Known /\ x.tool = Tool[x.reference.session] /\ x.reference.session \in Sessions
      BY <2>8 DEF TellsOf, Known
    <3>2. Tool \in [Sessions -> Range(Providers)] /\ None \notin Known
      BY ListOperators DEF ListAssumption, Hl!SessionsAssumption, Known, Range
    <3> QED
      BY <3>1, <3>2
  <2>10. GoodItems(list)
    BY <2>5, <2>7, <2>8, <2>9 DEF GoodItems
  <2>11. Cardinality(Hl!References(list)) = Len(list)
    <3> DEFINE f == [i \in 1..n |-> list[i].reference]
    <3>1. Hl!References(list) = {list[i].reference : i \in 1..n}
      BY <2>6, ListOperators DEF Hl!References
    <3>2. \A i, j \in 1..n : list[i].reference = list[j].reference => i = j
      BY <2>5, <2>6
    <3>3. f \in Surjection(1..n, Hl!References(list)) /\ f \in Injection(1..n, Hl!References(list))
      BY <3>1, <3>2 DEF Surjection, Injection, IsInjective
    <3>4. IsFiniteSet(1..n) /\ Cardinality(1..n) = n
      BY <2>6, FS_Interval
    <3>5. Cardinality(Hl!References(list)) = n
      BY <3>3, <3>4, FS_Surjection
    <3> QED
      BY <2>7, <3>5
  <2> QED
    BY <1>2, <2>4, <2>7, <2>8, <2>10, <2>11 DEF list
<1> QED
  BY <1>1, <1>2

-----------------------------------------------------------------------------
(* What is selected in a list: a provider that has conversations, and, when*)
(* a row of it is, one that is there and not folded away.                  *)
Chosen(list, collapsed, p, r) ==
    /\ list # <<>> => \E x \in Range(list) : x.tool = p
    /\ r # None => (\E x \in Range(list) : x.reference = r /\ x.tool = p) /\ p \notin collapsed

LEMMA ListChosenLine ==
  ASSUME ListAssumption, NEW list, GoodItems(list), list # <<>>, NEW collapsed, NEW p, NEW r,
         Chosen(list, collapsed, p, r)
  PROVE  LET lines == Hl!Lines(list, collapsed)
         IN  /\ lines \in Seq(LinesOfAll(list, collapsed))
             /\ Line(p, r) \in Range(lines)
<1>1. Providers \in Seq(Range(Providers))
  <2>1. Hl!ToSet(Providers) = Range(Providers)
    BY ListOperators DEF Range
  <2> QED
    BY <2>1 DEF ListAssumption, Hl!SessionsAssumption
<1>2. list \in Seq(Range(list)) /\ \A x \in Range(list) : x.tool \in Range(Providers)
  BY DEF GoodItems
<1>3. /\ Hl!Lines(list, collapsed) \in Seq(LinesOfAll(list, collapsed))
      /\ Range(Hl!Lines(list, collapsed)) = LinesOfAll(list, collapsed)
  BY <1>1, <1>2, ListLines
<1>4. Line(p, r) \in LinesOfAll(list, collapsed)
  BY DEF Chosen, LinesOfAll
<1> QED
  BY <1>3, <1>4

(* The selected row leads to one of the new list, of the same file.        *)
LEMMA ListFollowed ==
  ASSUME GoodItems(items), NEW new, GoodItems(new),
         NEW old \in Range(items), old.reference = selection, selection # None,
         Hl!Followed(new) # None
  PROVE  /\ \E x \in Range(new) : x.reference = Hl!Followed(new)
         /\ \A x \in Range(new) : x.reference = Hl!Followed(new) => x.tool = old.tool
         /\ Path[Hl!Followed(new).session] = Path[selection.session]
         /\ Tool[Hl!Followed(new).session] = Tool[selection.session]
         /\ selection \in Hl!References(new) => Hl!Followed(new) = selection
<1>1. \A x \in Range(items) \cup Range(new) : TellsOf(x) /\ x.tool = Tool[x.reference.session]
                                              /\ x.reference.session \in Sessions
  BY DEF GoodItems, TellsOf, Known
<1>2. Hl!References(new) = {x.reference : x \in Range(new)}
  BY ListOperators DEF Hl!References, Range
<1>3. CASE selection \in Hl!References(new)
  <2>1. Hl!Followed(new) = selection
    BY <1>3 DEF Hl!Followed
  <2> QED
    BY <1>1, <1>2, <1>3, <2>1
<1>4. CASE selection \notin Hl!References(new)
  <2> DEFINE found == Hl!Candidates(new)
  <2>1. Hl!Cardinality(found) = 1 /\ Hl!Followed(new) = (CHOOSE x \in found : TRUE).reference
    BY <1>4 DEF Hl!Followed
  <2>2. \A x \in found : /\ x \in Range(new)
                         /\ \E o \in Range(items) : /\ o.reference = selection
                                                    /\ Hl!InFiles(o) \cap x.provenance # {}
    <3>1. Hl!ToSet(new) = Range(new) /\ Hl!ToSet(items) = Range(items)
      BY ListOperators DEF Range
    <3> QED
      BY <3>1 DEF Hl!Candidates
  <2> HIDE DEF found
  <2>3. found # {}
    <3>1. IsFiniteSet(found)
      BY <2>2, FS_Subset DEF GoodItems
    <3>2. Cardinality(found) = 1
      BY <2>1, ListOperators
    <3> QED
      BY <3>1, <3>2, FS_Singleton
  <2>4. PICK y \in found : Hl!Followed(new) = y.reference
    BY <2>1, <2>3
  <2>5. PICK o \in Range(items) : o.reference = selection /\ Hl!InFiles(o) \cap y.provenance # {}
    BY <2>2
  <2>6. PICK e \in y.provenance : e \in o.provenance /\ e.path # None
    BY <2>5 DEF Hl!InFiles
  <2>7. y \in Range(new) /\ TellsOf(y) /\ TellsOf(o)
    BY <1>1, <2>2
  <2>8. e.tool = y.tool /\ e.tool = o.tool /\ e.path = Path[y.reference.session]
        /\ e.path = Path[o.reference.session]
    BY <2>6, <2>7 DEF TellsOf
  <2>9. o.tool = old.tool
    BY <1>1, <2>5
  <2>10. /\ Path[y.reference.session] = Path[selection.session]
         /\ Tool[y.reference.session] = Tool[selection.session]
    BY <1>1, <2>2, <2>5, <2>7, <2>8
  <2>11. \A x \in Range(new) : x.reference = y.reference => x.tool = y.tool
    BY <1>1, <2>7
  <2> QED
    BY <1>4, <2>4, <2>7, <2>8, <2>9, <2>10, <2>11
<1> QED
  BY <1>3, <1>4

LEMMA ListReplaced ==
  ASSUME ListAssumption, GoodItems(items), NEW new, GoodItems(new),
         Chosen(items, collapsed_providers, selected_provider, selection), Hl!ReplaceItems(new)
  PROVE  /\ Chosen(new, collapsed_providers', selected_provider', selection')
         /\ selection # None /\ selection' # None
              => /\ Path[selection'.session] = Path[selection.session]
                 /\ Tool[selection'.session] = Tool[selection.session]
         /\ selection # None /\ selection \in Hl!References(new) => selection' = selection
<1> DEFINE tools == {x.tool : x \in Range(new)}
           selected == {x \in Range(new) : x.reference = Hl!Followed(new)}
           first == Hl!Min({i \in DOMAIN Providers : Providers[i] \in tools})
<1>1. /\ items' = new /\ selection' = Hl!Followed(new) /\ collapsed_providers' = collapsed_providers
      /\ selected_provider' = IF selected # {} THEN (CHOOSE x \in selected : TRUE).tool
                              ELSE IF selected_provider \in tools THEN selected_provider
                              ELSE IF tools = {} THEN None
                              ELSE Providers[first]
  <2>1. Hl!ToSet(new) = Range(new)
    BY ListOperators DEF Range
  <2> QED
    BY <2>1 DEF Hl!ReplaceItems
<1>2. new # <<>> => tools # {}
  <2>1. new \in Seq(Range(new))
    BY DEF GoodItems
  <2> SUFFICES ASSUME new # <<>> PROVE tools # {}
    OBVIOUS
  <2>2. Len(new) # 0 /\ DOMAIN new = 1..Len(new) /\ Len(new) \in Nat
    BY <2>1, EmptySeq, LenProperties
  <2>3. new[1] \in Range(new)
    BY <2>2 DEF Range
  <2>4. new[1].tool \in tools
    BY <2>3
  <2> QED
    BY <2>4
<1>3. tools # {} => Providers[first] \in tools
  <2> SUFFICES ASSUME tools # {}
               PROVE  Providers[first] \in tools
    OBVIOUS
  <2> DEFINE at == {i \in DOMAIN Providers : Providers[i] \in tools}
  <2>1. at # {}
    <3>1. PICK t \in tools : t \in Range(Providers)
      BY DEF GoodItems
    <3> QED
      BY <3>1 DEF Range
  <2>2. at \subseteq Nat
    BY LenProperties DEF ListAssumption, Hl!SessionsAssumption
  <2>3. \A i \in at : Providers[i] \in tools
    OBVIOUS
  <2>4. first = Hl!Min(at)
    OBVIOUS
  <2> HIDE DEF at, first, tools
  <2>5. PICK m \in at : \A k \in at : ~(<<k, m>> \in OpToRel(<, Nat))
    BY <2>1, <2>2, WFMin, NatLessThanWellFounded
  <2>6. ASSUME NEW k \in at
        PROVE  m <= k
    <3>1. k \in Nat /\ m \in Nat
      BY <2>2
    <3>2. ~(k < m)
      BY <2>5, <3>1 DEF OpToRel
    <3> QED
      BY <3>1, <3>2
  <2>7. first \in at
    BY <2>4, <2>6 DEF Hl!Min
  <2> QED
    BY <2>3, <2>7
<1> HIDE DEF first
<1>4. CASE selection' = None
  <2>1. selected = {}
    BY <1>1, <1>4 DEF GoodItems
  <2>2. tools # {} => selected_provider' \in tools
    BY <1>1, <1>3, <2>1
  <2>3. new # <<>> => \E x \in Range(new) : x.tool = selected_provider'
    BY <1>2, <2>2
  <2>4. selection # None /\ selection \in Hl!References(new) => selection' = selection
    BY <1>1 DEF Hl!Followed
  <2> QED
    BY <1>4, <2>3, <2>4 DEF Chosen
<1>5. CASE selection' # None
  <2>1. selection # None
    BY <1>1, <1>5 DEF Hl!Followed
  <2>2. PICK old \in Range(items) : old.reference = selection /\ old.tool = selected_provider
    BY <2>1 DEF Chosen
  <2>3. /\ \E x \in Range(new) : x.reference = selection'
        /\ \A x \in Range(new) : x.reference = selection' => x.tool = selected_provider
        /\ Path[selection'.session] = Path[selection.session]
        /\ Tool[selection'.session] = Tool[selection.session]
        /\ selection \in Hl!References(new) => selection' = selection
    BY <1>1, <1>5, <2>1, <2>2, ListFollowed
  <2>4. selected # {} /\ \A x \in selected : x.reference = selection' /\ x \in Range(new)
                                              /\ x.tool = selected_provider
    BY <1>1, <2>3
  <2> HIDE DEF selected
  <2>5. selected_provider' = selected_provider
    BY <1>1, <2>4
  <2>6. selected_provider \notin collapsed_providers
    BY <2>1 DEF Chosen
  <2> QED
    BY <1>1, <2>3, <2>4, <2>5, <2>6 DEF Chosen
<1> QED
  BY <1>4, <1>5

-----------------------------------------------------------------------------
(* What is on the screen: the selected row, no line empty unless the       *)
(* window is at the top, and no warning taller than the one drawn, so that *)
(* bringing the same row into the window again never moves it down.        *)
Shows(list, collapsed, p, r, top, tall, said, screen) ==
    LET room == tall - screen.warning
        lines == Hl!Lines(list, collapsed)
        row == RowOf(lines, p, r)
    IN  /\ screen.warning \in 0..tall /\ said \in 0..screen.warning
        /\ Len(screen.rows) \in 0..room
        /\ room > 0 => Line(p, r) \in Range(screen.rows) /\ row < top + (tall - said)
        /\ top > 0 => Len(screen.rows) = room

ListInv ==
    /\ filesystem \in Discovered \cup {None} /\ live \in Reported \cup {None}
    /\ items = Hl!MergedConversations(filesystem, live, aligned)
    /\ Chosen(items, collapsed_providers, selected_provider, selection)
    /\ scroll \in Nat /\ height \in Heights
    /\ shown # Hl!Blank /\ items # <<>> =>
          Shows(items, collapsed_providers, selected_provider, selection, scroll, height,
                Hl!WarningHeight, shown)

LEMMA ListScrollType ==
  ASSUME ListAssumption, NEW list, GoodItems(list), NEW collapsed, NEW p, NEW r,
         NEW top \in Nat, NEW room \in Nat
  PROVE  Hl!EnsureVisible(top, Hl!Lines(list, collapsed), p, r, room) \in Nat
<1> DEFINE lines == Hl!Lines(list, collapsed)
<1>1. Providers \in Seq(Range(Providers))
  <2>1. Hl!ToSet(Providers) = Range(Providers)
    BY ListOperators DEF Range
  <2> QED
    BY <2>1 DEF ListAssumption, Hl!SessionsAssumption
<1>2. lines \in Seq(LinesOfAll(list, collapsed))
  BY <1>1, ListLines DEF GoodItems
<1> HIDE DEF lines
<1>3. CASE Line(p, r) \in Range(lines)
  BY <1>2, <1>3, ListWindow DEF lines
<1>4. CASE Line(p, r) \notin Range(lines)
  <2>1. Hl!SelectedRow(lines, p, r) = {}
    BY <1>4 DEF Hl!SelectedRow, Line, Range
  <2> QED
    BY <2>1 DEF Hl!EnsureVisible, lines
<1> QED
  BY <1>3, <1>4

LEMMA ListWarning ==
  ASSUME NEW errors, NEW polling, NEW tall \in Nat
  PROVE  /\ Hl!Least(Hl!Warning(errors, polling), tall) \in 0..tall
         /\ tall - Hl!Least(Hl!Warning(errors, polling), tall) \in Nat
BY DEF Hl!Least, Hl!Warning

(* A drawing shows what it is to show.                                     *)
LEMMA ListSeen ==
  ASSUME ListAssumption, NEW list, GoodItems(list), list # <<>>, NEW collapsed, NEW p, NEW r,
         Chosen(list, collapsed, p, r),
         NEW tall \in Nat, NEW warning \in 0..tall, NEW top \in Nat, NEW now,
         now = Hl!EnsureVisible(top, Hl!Lines(list, collapsed), p, r, tall - warning),
         NEW screen, screen.warning = warning,
         screen.rows = Visible(Hl!Lines(list, collapsed), now, tall - warning)
  PROVE  Shows(list, collapsed, p, r, now, tall, warning, screen)
<1> DEFINE lines == Hl!Lines(list, collapsed)
           room == tall - warning
           row == RowOf(lines, p, r)
           rows == Visible(lines, now, room)
<1>1. lines \in Seq(LinesOfAll(list, collapsed)) /\ Line(p, r) \in Range(lines)
  BY ListChosenLine
<1>2. room \in Nat /\ warning \in 0..warning
  OBVIOUS
<1>3. now = Hl!EnsureVisible(top, lines, p, r, room) /\ screen.rows = rows
  OBVIOUS
<1> HIDE DEF lines
<1>4. room = tall - warning
  OBVIOUS
<1> HIDE DEF room
<1> DEFINE s == Hl!EnsureVisible(top, lines, p, r, room)
<1>6. /\ room > 0 => /\ RowOf(lines, p, r) < s + room
                     /\ Line(p, r) \in Range(Visible(lines, s, room))
      /\ Len(Visible(lines, s, room)) \in 0..room
      /\ s > 0 => Len(Visible(lines, s, room)) = room
  <2>1. room > 0 => RowOf(lines, p, r) < s + room
    BY <1>1, <1>2, ListWindow
  <2>2. room > 0 => Line(p, r) \in Range(Visible(lines, s, room))
    BY <1>1, <1>2, ListWindow
  <2>3. Len(Visible(lines, s, room)) \in 0..room
    BY <1>1, <1>2, ListWindow
  <2>4. s > 0 => Len(Visible(lines, s, room)) = room
    BY <1>1, <1>2, ListWindow
  <2> QED
    BY <2>1, <2>2, <2>3, <2>4
<1>7. now = s
  BY <1>3
<1>5. /\ room > 0 => row < now + room /\ Line(p, r) \in Range(rows)
      /\ Len(rows) \in 0..room
      /\ now > 0 => Len(rows) = room
  BY <1>6, <1>7
<1> HIDE DEF row, rows
<1> QED
  BY <1>2, <1>3, <1>4, <1>5 DEF Shows, row, lines

LEMMA ListDraws ==
  ASSUME ListAssumption, NEW top \in Nat, height' \in Nat, GoodItems(items'),
         Chosen(items', collapsed_providers', selected_provider', selection'), Hl!Draw(top)
  PROVE  /\ scroll' \in Nat
         /\ shown' # Hl!Blank /\ items' # <<>> =>
              Shows(items', collapsed_providers', selected_provider', selection', scroll', height',
                    Hl!WarningHeight', shown')
<1>1. CASE ~(active' /\ loading' = "ready")
  BY <1>1 DEF Hl!Draw
<1>2. CASE active' /\ loading' = "ready"
  <2> DEFINE warning == Hl!Least(Hl!Warning(notices', live_loading'), height')
             lines == Hl!Lines(items', collapsed_providers')
             rows == Visible(lines, scroll', height' - warning)
  <2>1. /\ scroll' = Hl!EnsureVisible(top, lines, selected_provider', selection', height' - warning)
        /\ shown' = [warning |-> warning, rows |-> rows]
    BY <1>2 DEF Hl!Draw, Visible
  <2>2. warning \in 0..height' /\ height' - warning \in Nat
    BY ListWarning
  <2>3. Hl!WarningHeight' = warning
    BY DEF Hl!WarningHeight
  <2> HIDE DEF warning
  <2>4. scroll' \in Nat
    BY <2>1, <2>2, ListScrollType
  <2>5. shown'.warning = warning /\ shown'.rows = rows
    BY <2>1
  <2>6. ASSUME items' # <<>>
        PROVE  Shows(items', collapsed_providers', selected_provider', selection', scroll', height',
                     warning, shown')
    BY <2>1, <2>2, <2>5, <2>6, ListSeen
  <2> QED
    BY <2>3, <2>4, <2>6
<1> QED
  BY <1>1, <1>2

(* A step without a drawing may bring the same row into the window again.  *)
LEMMA ListPlaces ==
  ASSUME ListAssumption, ListInv, GoodItems(items),
         UNCHANGED <<items, collapsed_providers, selected_provider, selection, shown, height,
                     notices, live_loading>>,
         scroll' = Hl!EnsureVisible(scroll, Hl!Lines(items, collapsed_providers), selected_provider,
                                    selection, Hl!Room)
  PROVE  /\ scroll' \in Nat
         /\ shown' # Hl!Blank /\ items' # <<>> =>
              Shows(items', collapsed_providers', selected_provider', selection', scroll', height',
                    Hl!WarningHeight', shown')
<1> DEFINE said == Hl!WarningHeight
           room == Hl!Room
           lines == Hl!Lines(items, collapsed_providers)
           row == RowOf(lines, selected_provider, selection)
<1>1. height \in Nat
  BY DEF ListInv, ListAssumption, Hl!BoundAssumption
<1>2. said \in 0..height /\ room \in Nat /\ room = height - said
  BY <1>1, ListWarning DEF Hl!WarningHeight, Hl!Room
<1>3. Hl!WarningHeight' = said
  BY DEF Hl!WarningHeight
<1> HIDE DEF said, room, lines
<1>4. scroll \in Nat /\ scroll' \in Nat
  BY <1>2, ListScrollType DEF ListInv, lines, room
<1>5. ASSUME shown # Hl!Blank, items # <<>>
      PROVE  Shows(items, collapsed_providers, selected_provider, selection, scroll', height, said, shown)
  <2>1. Shows(items, collapsed_providers, selected_provider, selection, scroll, height, said, shown)
    BY <1>5 DEF ListInv, said
  <2> DEFINE free == height - shown.warning
  <2>2. /\ shown.warning \in 0..height /\ said \in 0..shown.warning
        /\ Len(shown.rows) \in 0..free
        /\ free > 0 => Line(selected_provider, selection) \in Range(shown.rows) /\ row < scroll + room
        /\ scroll > 0 => Len(shown.rows) = free
    BY <1>2, <2>1 DEF Shows, lines
  <2>3. /\ lines \in Seq(LinesOfAll(items, collapsed_providers))
        /\ Line(selected_provider, selection) \in Range(lines)
    BY <1>5, ListChosenLine DEF lines, ListInv
  <2>4. /\ room > 0 => row < scroll' + room
        /\ room = 0 \/ row < scroll + room => scroll' <= scroll
    BY <1>2, <1>4, <2>3, ListWindow DEF lines, room
  <2> HIDE DEF row
  <2>5. free \in Nat /\ free <= room /\ free = height - shown.warning
    BY <1>1, <1>2, <2>2
  <2> HIDE DEF free
  <2>6. /\ free > 0 => Line(selected_provider, selection) \in Range(shown.rows) /\ row < scroll' + room
        /\ scroll' > 0 => Len(shown.rows) = free
    BY <1>2, <1>4, <2>2, <2>4, <2>5
  <2> QED
    BY <1>2, <2>2, <2>5, <2>6 DEF Shows, row, lines
<1> QED
  BY <1>3, <1>4, <1>5 DEF said

(* What is selected by a row of the list is there to be selected.          *)
LEMMA ListPicked ==
  ASSUME ListAssumption, NEW list, GoodItems(list), NEW collapsed,
         NEW i \in DOMAIN Hl!Lines(list, collapsed), NEW row, row = Hl!Lines(list, collapsed)[i]
  PROVE  Chosen(list, collapsed, row.provider, row.reference)
<1>1. Providers \in Seq(Range(Providers))
  <2>1. Hl!ToSet(Providers) = Range(Providers)
    BY ListOperators DEF Range
  <2> QED
    BY <2>1 DEF ListAssumption, Hl!SessionsAssumption
<1>2. list \in Seq(Range(list)) /\ \A x \in Range(list) : x.tool \in Range(Providers)
  BY DEF GoodItems
<1>3. Range(Hl!Lines(list, collapsed)) = LinesOfAll(list, collapsed)
  BY <1>1, <1>2, ListLines
<1>4. row \in LinesOfAll(list, collapsed)
  BY <1>3 DEF Range
<1>5. PICK x \in Range(list) : \/ row = Line(x.tool, None)
                               \/ (row = Line(x.tool, x.reference) /\ x.tool \notin collapsed)
  BY <1>4 DEF LinesOfAll
<1>6. /\ row.provider = x.tool
      /\ row.reference = None \/ (row.reference = x.reference /\ x.tool \notin collapsed)
  BY <1>5 DEF Line
<1> QED
  BY <1>6 DEF Chosen

(* A step whose rows are merged anew, or kept, and that draws.             *)
LEMMA ListDrawn ==
  ASSUME ListAssumption, ReportedAlone, NEW top \in Nat,
         filesystem' \in Discovered \cup {None}, live' \in Reported \cup {None}, height' \in Heights,
         items' = Hl!MergedConversations(filesystem', live', aligned'),
         Chosen(items', collapsed_providers', selected_provider', selection'), Hl!Draw(top)
  PROVE  ListInv'
<1>1. GoodItems(items')
  BY ListMergedGood
<1>2. height' \in Nat
  BY DEF ListAssumption, Hl!BoundAssumption
<1>3. /\ scroll' \in Nat
      /\ shown' # Hl!Blank /\ items' # <<>> =>
           Shows(items', collapsed_providers', selected_provider', selection', scroll', height',
                 Hl!WarningHeight', shown')
  BY <1>1, <1>2, ListDraws
<1>4. Hl!Blank' = Hl!Blank
  BY DEF Hl!Blank
<1> QED
  BY <1>3, <1>4 DEF ListInv

(* A step that draws nothing and leaves the rows as they are.              *)
LEMMA ListKept ==
  ASSUME ListAssumption, ReportedAlone, ListInv,
         UNCHANGED <<filesystem, live, aligned, items, collapsed_providers, selected_provider,
                     selection, scroll, shown, height>>,
         notices' = notices, live_loading' = live_loading \/ live_loading' = FALSE
  PROVE  ListInv'
<1> DEFINE said == Hl!WarningHeight
           now == Hl!WarningHeight'
           row == RowOf(Hl!Lines(items, collapsed_providers), selected_provider, selection)
<1>1. height \in Nat
  BY DEF ListInv, ListAssumption, Hl!BoundAssumption
<1>2. said \in Nat /\ now \in 0..said /\ said <= height
  BY <1>1 DEF Hl!WarningHeight, Hl!Warning, Hl!Least
<1> HIDE DEF said, now
<1>3. ASSUME shown # Hl!Blank, items # <<>>
      PROVE  Shows(items, collapsed_providers, selected_provider, selection, scroll, height, now, shown)
  <2>1. Shows(items, collapsed_providers, selected_provider, selection, scroll, height, said, shown)
    BY <1>3 DEF ListInv, said
  <2>2. row \in Nat /\ scroll \in Nat
    <3>1. GoodItems(items)
      BY ListMergedGood DEF ListInv
    <3>2. /\ Hl!Lines(items, collapsed_providers) \in Seq(LinesOfAll(items, collapsed_providers))
          /\ Line(selected_provider, selection) \in Range(Hl!Lines(items, collapsed_providers))
      BY <1>3, <3>1, ListChosenLine DEF ListInv
    <3>3. row \in Nat
      BY <3>2, ListRow
    <3> QED
      BY <3>3 DEF ListInv
  <2>3. shown.warning \in 0..height
    BY <2>1 DEF Shows
  <2>4. row < scroll + (height - said) => row < scroll + (height - now)
    BY <1>1, <1>2, <2>2
  <2>5. said \in 0..shown.warning => now \in 0..shown.warning
    BY <1>1, <1>2, <2>3
  <2> QED
    BY <2>1, <2>4, <2>5 DEF Shows
<1>4. Hl!Blank' = Hl!Blank
  BY DEF Hl!Blank
<1> QED
  BY <1>3, <1>4 DEF ListInv, now

(* An intent of the user, which brings its row into the window and draws   *)
(* unless nothing of the list has changed.                                 *)
LEMMA ListIntent ==
  ASSUME ListAssumption, ReportedAlone, ListInv, Hl!Keep,
         Chosen(items, collapsed_providers', selected_provider', selection'),
         \/ Hl!Draw(Hl!Place(scroll))
         \/ (/\ UNCHANGED <<collapsed_providers, selected_provider, selection>>
             /\ Hl!Undrawn(Hl!Place(scroll)))
  PROVE  ListInv'
<1>1. GoodItems(items) /\ height \in Nat /\ scroll \in Nat
  BY ListMergedGood DEF ListInv, ListAssumption, Hl!BoundAssumption
<1>2. UNCHANGED <<filesystem, live, aligned, items, height, notices, live_loading>>
  BY DEF Hl!Keep, Hl!snapshots, Hl!messages, Hl!place
<1>3. Hl!Room \in Nat
  BY <1>1, ListWarning DEF Hl!Room, Hl!WarningHeight
<1>4. Hl!Place(scroll) \in Nat
  BY <1>1, <1>3, ListScrollType DEF Hl!Place
<1>5. CASE Hl!Draw(Hl!Place(scroll))
  BY <1>2, <1>4, <1>5, ListDrawn DEF ListInv
<1>6. CASE /\ UNCHANGED <<collapsed_providers, selected_provider, selection>>
           /\ Hl!Undrawn(Hl!Place(scroll))
  <2>1. /\ shown' = shown
        /\ scroll' = Hl!EnsureVisible(scroll, Hl!Lines(items, collapsed_providers),
                                      selected_provider, selection, Hl!Room)
    BY <1>6 DEF Hl!Undrawn, Hl!Place
  <2>2. /\ scroll' \in Nat
        /\ shown' # Hl!Blank /\ items' # <<>> =>
             Shows(items', collapsed_providers', selected_provider', selection', scroll', height',
                   Hl!WarningHeight', shown')
    BY <1>1, <1>2, <1>6, <2>1, ListPlaces
  <2>3. Hl!Blank' = Hl!Blank
    BY DEF Hl!Blank
  <2>4. Chosen(items', collapsed_providers', selected_provider', selection')
    BY <1>2
  <2> QED
    BY <1>2, <2>2, <2>3, <2>4 DEF ListInv
<1> QED
  BY <1>5, <1>6

(* Nor do the rows: they are merged of what the last results have left.    *)
LEMMA ListMergedAnew ==
  ASSUME ListAssumption, ReportedAlone, ListInv,
         filesystem' \in Discovered \cup {None}, live' \in Reported \cup {None}, height' = height,
         Hl!ReplaceItems(Hl!MergedConversations(filesystem', live', aligned')), Hl!Draw(scroll)
  PROVE  ListInv'
<1> DEFINE new == Hl!MergedConversations(filesystem', live', aligned')
<1>1. GoodItems(items) /\ GoodItems(new)
  BY ListMergedGood DEF ListInv
<1>2. items' = new
  BY DEF Hl!ReplaceItems
<1>3. Chosen(items, collapsed_providers, selected_provider, selection) /\ scroll \in Nat
      /\ height' \in Heights
  BY DEF ListInv
<1> HIDE DEF new
<1>4. Hl!ReplaceItems(new)
  BY DEF new
<1>5. Chosen(new, collapsed_providers', selected_provider', selection')
  BY <1>1, <1>3, <1>4, ListReplaced
<1>6. items' = Hl!MergedConversations(filesystem', live', aligned')
      /\ Chosen(items', collapsed_providers', selected_provider', selection')
  BY <1>2, <1>5 DEF new
<1> QED
  BY <1>3, <1>6, ListDrawn

LEMMA ListStep ==
  ASSUME ListAssumption, ReportedAlone, ListInv, [Hl!Next]_(Hl!vars)
  PROVE  ListInv'
<1> USE DEF Hl!snapshots, Hl!rowsVars, Hl!messages, Hl!place
<1>1. CASE UNCHANGED Hl!vars
  BY <1>1, ListKept DEF Hl!vars
<1>2. ASSUME NEW disk \in Discovered, NEW same, Hl!PageReady(disk, same)
      PROVE  ListInv'
  BY <1>2, ListMergedAnew DEF Hl!PageReady, ListInv
<1>3. ASSUME NEW reports \in Reported, NEW same,
             Hl!LoudReady(reports, same) \/ Hl!QuietChanged(reports, same)
      PROVE  ListInv'
  BY <1>3, ListMergedAnew DEF Hl!LoudReady, Hl!QuietChanged, Hl!Snapshot, ListInv
<1>4. CASE Hl!LoudFails
  BY <1>4, ListMergedAnew DEF Hl!LoudFails, ListInv
<1>5. CASE Hl!PageFails
  BY <1>5, ListDrawn DEF Hl!PageFails, ListInv
<1>6. CASE Hl!Refresh
  BY <1>6, ListDrawn DEF Hl!Refresh, ListInv
<1>7. CASE Hl!Tick
  BY <1>7, ListKept DEF Hl!Tick, Hl!Undrawn
<1>8. CASE Hl!QuietSame
  BY <1>8, ListKept DEF Hl!QuietSame, Hl!Undrawn
<1>9. CASE Hl!QuietFails
  BY <1>9, ListKept DEF Hl!QuietFails, Hl!Undrawn
<1>10. CASE Hl!Move(Hl!CurrentLines)
  <2> DEFINE lines == Hl!Lines(items, collapsed_providers)
  <2>1. PICK i \in DOMAIN lines : Hl!SelectRow(lines[i])
    BY <1>10 DEF Hl!Move, Hl!CurrentLines
  <2>2. GoodItems(items)
    BY ListMergedGood DEF ListInv
  <2>3. Chosen(items, collapsed_providers, lines[i].provider, lines[i].reference)
    BY <2>2, ListPicked
  <2>4. /\ Hl!Keep /\ collapsed_providers' = collapsed_providers
        /\ \/ Hl!Draw(Hl!Place(scroll))
           \/ (/\ UNCHANGED <<selected_provider, selection>>
               /\ Hl!Undrawn(Hl!Place(scroll)))
    BY <1>10 DEF Hl!Move
  <2>5. Chosen(items, collapsed_providers', selected_provider', selection')
    BY <2>1, <2>3, <2>4 DEF Hl!SelectRow
  <2> QED
    BY <2>4, <2>5, ListIntent
<1>11. ASSUME NEW line \in 1..height, NEW toggle \in BOOLEAN, Hl!Click(Hl!CurrentLines, line, toggle)
       PROVE  ListInv'
  <2> DEFINE lines == Hl!Lines(items, collapsed_providers)
             i == scroll + line - Hl!WarningHeight
  <2>1. i \in DOMAIN lines /\ Hl!SelectRow(lines[i])
    BY <1>11 DEF Hl!Click, Hl!CurrentLines
  <2> HIDE DEF i
  <2>2. GoodItems(items)
    BY ListMergedGood DEF ListInv
  <2>3. Chosen(items, collapsed_providers, lines[i].provider, lines[i].reference)
    BY <2>1, <2>2, ListPicked
  <2>4. /\ Hl!Keep /\ (toggle => selection' = None)
        /\ (~toggle => collapsed_providers' = collapsed_providers)
        /\ \/ Hl!Draw(Hl!Place(scroll))
           \/ (/\ UNCHANGED <<collapsed_providers, selected_provider, selection>>
               /\ Hl!Undrawn(Hl!Place(scroll)))
    BY <1>11 DEF Hl!Click
  <2>5. Chosen(items, collapsed_providers', selected_provider', selection')
    BY <2>1, <2>3, <2>4 DEF Hl!SelectRow, Chosen
  <2> QED
    BY <2>4, <2>5, ListIntent
<1>12. CASE Hl!Collapse
  <2>1. /\ Hl!Keep /\ selected_provider' = selected_provider /\ selection' = None
        /\ \/ Hl!Draw(Hl!Place(scroll))
           \/ (/\ UNCHANGED <<collapsed_providers, selected_provider, selection>>
               /\ Hl!Undrawn(Hl!Place(scroll)))
    BY <1>12 DEF Hl!Collapse
  <2>2. Chosen(items, collapsed_providers', selected_provider', selection')
    BY <2>1 DEF ListInv, Chosen
  <2> QED
    BY <2>1, <2>2, ListIntent
<1>13. CASE Hl!Expand
  <2>1. /\ Hl!Keep /\ selected_provider' = selected_provider
        /\ selection = None /\ selection' = None
        /\ \/ Hl!Draw(Hl!Place(scroll))
           \/ (/\ UNCHANGED <<collapsed_providers, selected_provider, selection>>
               /\ Hl!Undrawn(Hl!Place(scroll)))
    BY <1>13 DEF Hl!Expand
  <2>2. Chosen(items, collapsed_providers', selected_provider', selection')
    BY <2>1 DEF ListInv, Chosen
  <2> QED
    BY <2>1, <2>2, ListIntent
<1>14. ASSUME NEW fails \in BOOLEAN, Hl!Launch(fails)
       PROVE  ListInv'
  BY <1>14, ListDrawn DEF Hl!Launch, ListInv
<1>15. CASE Hl!SwitchView
  BY <1>15, ListDrawn DEF Hl!SwitchView, ListInv
<1>16. ASSUME NEW h \in Heights, Hl!Resize(h)
       PROVE  ListInv'
  BY <1>16, ListDrawn DEF Hl!Resize, ListInv
<1> QED
  BY <1>1, <1>2, <1>3, <1>4, <1>5, <1>6, <1>7, <1>8, <1>9, <1>10, <1>11, <1>12, <1>13, <1>14,
     <1>15, <1>16 DEF Hl!Next

LEMMA ListBegins ==
  ASSUME ListAssumption, Hl!Init
  PROVE  ListInv
<1>1. items = Hl!MergedConversations(filesystem, live, aligned) /\ Range(items) = {}
  BY DEF Hl!Init, Hl!MergedConversations, Range
<1>2. Chosen(items, collapsed_providers, selected_provider, selection)
  BY <1>1 DEF Hl!Init, Chosen
<1> QED
  BY <1>1, <1>2 DEF Hl!Init, ListInv

LEMMA ListAlways ==
  ListAssumption /\ ReportedAlone => (Hl!Spec => []ListInv)
<1> SUFFICES ASSUME ListAssumption, ReportedAlone
             PROVE  Hl!Spec => []ListInv
  OBVIOUS
<1>1. Hl!Init => ListInv
  BY ListBegins
<1>2. ListInv /\ [Hl!Next]_(Hl!vars) => ListInv'
  BY ListStep
<1> QED
  BY <1>1, <1>2, PTL DEF Hl!Spec

-----------------------------------------------------------------------------
(* Every session Herdr reports has a row that says it lives and no other   *)
(* row says so; each session on disk and each reference has one row        *)
(* (merge_prepared_live_sessions(), active.rs).                            *)
THEOREM ListRowsTrue ==
  ListAssumption /\ ReportedAlone => (Hl!Spec => []Hl!RowsTrue)
<1> SUFFICES ASSUME ListAssumption, ReportedAlone
             PROVE  Hl!Spec => []Hl!RowsTrue
  OBVIOUS
<1>1. ListInv => Hl!RowsTrue
  <2> SUFFICES ASSUME ListInv
               PROVE  Hl!RowsTrue
    OBVIOUS
  <2>1. filesystem # None =>
           /\ {x.reference.session : x \in {y \in Range(items) : y.live}}
                = IF live = None THEN {} ELSE {r.session : r \in live}
           /\ filesystem \subseteq {x.reference.session : x \in Range(items)}
           /\ Cardinality(Hl!References(items)) = Len(items)
    <3> DEFINE merged == Hl!MergedConversations(filesystem, live, aligned)
    <3>1. filesystem \in Discovered \cup {None} /\ live \in Reported \cup {None}
      BY DEF ListInv
    <3>2. filesystem # None =>
           /\ {x.reference.session : x \in {y \in Range(merged) : y.live}}
                = IF live = None THEN {} ELSE {r.session : r \in live}
           /\ filesystem \subseteq {x.reference.session : x \in Range(merged)}
           /\ Cardinality(Hl!References(merged)) = Len(merged)
      <4> SUFFICES ASSUME filesystem # None
                   PROVE  /\ {x.reference.session : x \in {y \in Range(merged) : y.live}}
                               = IF live = None THEN {} ELSE {r.session : r \in live}
                          /\ filesystem \subseteq {x.reference.session : x \in Range(merged)}
                          /\ Cardinality(Hl!References(merged)) = Len(merged)
        OBVIOUS
      <4>1. {x.reference.session : x \in {y \in Range(merged) : y.live}}
              = IF live = None THEN {} ELSE {r.session : r \in live}
        BY <3>1, ListMergedGood
      <4>2. filesystem \subseteq {x.reference.session : x \in Range(merged)}
        BY <3>1, ListMergedGood
      <4>3. Cardinality(Hl!References(merged)) = Len(merged)
        BY <3>1, ListMergedGood
      <4> QED
        BY <4>1, <4>2, <4>3
    <3>3. items = merged
      BY DEF ListInv
    <3> HIDE DEF merged
    <3> QED
      BY <3>2, <3>3
  <2>2. /\ Hl!ToSet(items) = Range(items)
        /\ Hl!Cardinality(Hl!References(items)) = Cardinality(Hl!References(items))
    BY ListOperators DEF Range
  <2> QED
    BY <2>1, <2>2 DEF Hl!RowsTrue
<1>2. Hl!Spec => []ListInv
  BY ListAlways
<1> QED
  BY <1>1, <1>2, PTL

(* A drawn list shows the selected row, and leaves no line empty while     *)
(* rows are scrolled away above it (ensure_selected_row_visible()).        *)
THEOREM ListShowsSelected ==
  ListAssumption /\ ReportedAlone => (Hl!Spec => []Hl!SelectionShown)
<1> SUFFICES ASSUME ListAssumption, ReportedAlone
             PROVE  Hl!Spec => []Hl!SelectionShown
  OBVIOUS
<1>1. ListInv => Hl!SelectionShown
  <2> SUFFICES ASSUME ListInv, shown # Hl!Blank, items # <<>>
               PROVE  /\ height > shown.warning =>
                            Line(selected_provider, selection) \in Hl!ToSet(shown.rows)
                      /\ scroll > 0 => Len(shown.rows) = height - shown.warning
    BY DEF Hl!SelectionShown, Line
  <2>1. Shows(items, collapsed_providers, selected_provider, selection, scroll, height,
              Hl!WarningHeight, shown)
    BY DEF ListInv
  <2>2. height \in Nat
    BY DEF ListInv, ListAssumption, Hl!BoundAssumption
  <2>3. Hl!ToSet(shown.rows) = Range(shown.rows)
    BY ListOperators DEF Range
  <2>4. shown.warning \in 0..height
    BY <2>1 DEF Shows
  <2>5. height > shown.warning => height - shown.warning > 0
    BY <2>2, <2>4
  <2> QED
    BY <2>1, <2>3, <2>5 DEF Shows
<1>2. Hl!Spec => []ListInv
  BY ListAlways
<1> QED
  BY <1>1, <1>2, PTL

(* No result of a job moves the selection away from a row that is still    *)
(* listed, nor to a session of another tool or another file, so to no other*)
(* session where each has a file of its own (replace_visible_items()).     *)
THEOREM ListFollowsSelection ==
  ListAssumption /\ ReportedAlone => (Hl!Spec => Hl!SelectionFollows)
<1> SUFFICES ASSUME ListAssumption, ReportedAlone
             PROVE  Hl!Spec => Hl!SelectionFollows
  OBVIOUS
<1>2. ListInv /\ ListInv' /\ [Hl!Next]_(Hl!vars) => [Hl!Follows]_(Hl!vars)
  <2> SUFFICES ASSUME ListInv, ListInv', Hl!Next, items' # items, selection # None
               PROVE  /\ selection' # None =>
                            /\ Tool[selection'.session] = Tool[selection.session]
                            /\ Path[selection'.session] = Path[selection.session]
                      /\ selection \in Hl!References(items') => selection' = selection
    BY DEF Hl!Follows
  <2>1. Hl!ReplaceItems(items')
    BY DEF Hl!Next, Hl!PageReady, Hl!LoudReady, Hl!QuietChanged, Hl!Snapshot, Hl!LoudFails,
           Hl!ReplaceItems, Hl!PageFails, Hl!Refresh, Hl!Tick, Hl!QuietSame, Hl!QuietFails,
           Hl!Move, Hl!Click, Hl!Collapse, Hl!Expand, Hl!Launch, Hl!SwitchView, Hl!Resize,
           Hl!Keep, Hl!rowsVars
  <2>2. GoodItems(items) /\ GoodItems(items')
    BY ListMergedGood DEF ListInv
  <2>3. Chosen(items, collapsed_providers, selected_provider, selection)
    BY DEF ListInv
  <2> QED
    BY <2>1, <2>2, <2>3, ListReplaced
<1>3. Hl!Spec => []ListInv
  BY ListAlways
<1> QED
  BY <1>2, <1>3, PTL DEF Hl!Spec, Hl!SelectionFollows
=============================================================================
