-------------------------- MODULE FilesViewProofs ---------------------------
(***************************************************************************)
(* What holds of the Files view on screen: of FilesSearch for all          *)
(* projects, rules and limits, and of ChangesPane for all workspaces,      *)
(* heights and ways the user takes.                                        *)
(***************************************************************************)
EXTENDS Integers, FiniteSets, Sequences, Functions, TLAPS, SequenceTheorems, FiniteSetTheorems,
        WellFoundedInduction

(***************************************************************************)
(* The search of the Files view: FilesSearch.  To the properties belongs   *)
(* what keeps them (SearchInv): directories that are to be listed are in   *)
(* the index, none twice and none below another, and what the disk has had *)
(* since the scan began is in the index or below one of them.  A listing   *)
(* keeps that of the page's own index, and the end of the page makes it    *)
(* the search's.                                                           *)
(***************************************************************************)
CONSTANTS Folders, Files, Nothing, Excluded, Tracked, Letters, Limits, SearchIgnored, PageSize,
          MaxQuery, MostEdits, MostKeys, MostFaults
VARIABLES paths, limit, showing, virtual, reloading, active, begun, editing, query,
          loader_ignored, index, selection, searchable, matches, pending_directories, page,
          scanned_entries, examined_entries, skipped_directories, complete, truncated,
          projection_requested, projection_applied, projection, queue_full, steady, absent,
          panicked, edits, keys, failures

Fs == INSTANCE FilesSearch
        WITH Dirs <- Folders, None <- Nothing, Ignored <- Excluded, MaxEdits <- MostEdits,
             MaxIntents <- MostKeys, MaxFaults <- MostFaults, present <- paths,
             show_ignored <- showing, background_active <- active, full <- queue_full,
             intents <- keys, faults <- failures

(* The instance has the operators of the library.                          *)
LEMMA SearchOperators ==
  /\ \A S : Fs!Cardinality(S) = Cardinality(S) /\ (Fs!IsFiniteSet(S) <=> IsFiniteSet(S))
  /\ \A s : Fs!Range(s) = Range(s)
<1>1. \A S : Fs!Cardinality(S) = Cardinality(S)
  BY DEF Fs!Cardinality, Cardinality
<1>2. \A S : Fs!IsFiniteSet(S) <=> IsFiniteSet(S)
  BY DEF Fs!IsFiniteSet, IsFiniteSet
<1>3. \A s : Fs!Range(s) = Range(s)
  BY DEF Fs!Range, Range
<1> QED
  BY <1>1, <1>2, <1>3

(* What it is to be above a path, name by name.                            *)
LEMMA SearchPrefixes ==
  ASSUME NEW p \in Seq(Nat), NEW d \in Seq(Nat)
  PROVE  /\ Fs!IsPrefix(d, p) <=> Len(d) <= Len(p) /\ \A i \in 1..Len(d) : p[i] = d[i]
         /\ Fs!Below(p, d) <=> Len(d) < Len(p) /\ \A i \in 1..Len(d) : p[i] = d[i]
<1>1. ASSUME Len(d) <= Len(p)
      PROVE  SubSeq(d, 1, Len(d)) = SubSeq(p, 1, Len(d)) <=> \A i \in 1..Len(d) : p[i] = d[i]
  <2>1. SubSeq(d, 1, Len(d)) = [i \in 1..Len(d) |-> d[i]]
    OBVIOUS
  <2>2. SubSeq(p, 1, Len(d)) = [i \in 1..Len(d) |-> p[i]]
    BY <1>1
  <2> QED
    BY <2>1, <2>2
<1>2. Fs!IsPrefix(d, p) <=> Len(d) <= Len(p) /\ \A i \in 1..Len(d) : p[i] = d[i]
  BY <1>1 DEF Fs!IsPrefix
<1>3. Len(d) = Len(p) /\ (\A i \in 1..Len(d) : p[i] = d[i]) => d = p
  BY SeqEqual
<1>4. Len(d) \in Nat /\ Len(p) \in Nat
  BY LenProperties
<1> QED
  BY <1>2, <1>3, <1>4 DEF Fs!Below, Fs!IsStrictPrefix

LEMMA SearchPathTypes ==
  ASSUME Fs!PathsAssumption
  PROVE  /\ Fs!Places \subseteq Seq(Nat) /\ Fs!Paths \subseteq Seq(Nat)
         /\ Fs!Paths \subseteq Fs!Places \cup Files /\ Fs!Root \in Fs!Places
         /\ Folders \subseteq Fs!Paths /\ Files \subseteq Fs!Paths
         /\ IsFiniteSet(Fs!Paths) /\ IsFiniteSet(Folders) /\ IsFiniteSet(Files)
         /\ \A p \in Fs!Places \cup Fs!Paths : Len(p) \in Nat
         /\ \A p \in Fs!Paths : Len(p) \in Nat \ {0}
<1>1. Fs!Paths \subseteq Seq(Nat) /\ Fs!Root \in Seq(Nat) /\ Folders \subseteq Fs!Paths
      /\ Files \subseteq Fs!Paths
  BY EmptySeq DEF Fs!PathsAssumption, Fs!Paths, Fs!Root
<1>2. IsFiniteSet(Fs!Paths)
  BY SearchOperators DEF Fs!PathsAssumption
<1>3. IsFiniteSet(Folders) /\ IsFiniteSet(Files)
  BY <1>1, <1>2, FS_Subset
<1>4. Fs!Places \subseteq Seq(Nat) /\ Fs!Paths \subseteq Fs!Places \cup Files
      /\ Fs!Root \in Fs!Places
  BY <1>1 DEF Fs!Places, Fs!Paths
<1>5. ASSUME NEW p \in Fs!Paths
      PROVE  Len(p) \in Nat \ {0}
  BY <1>1, EmptySeq DEF Fs!PathsAssumption, Fs!Root
<1> QED
  BY <1>1, <1>2, <1>3, <1>4, <1>5, LenProperties

LEMMA SearchBelowRoot ==
  ASSUME Fs!PathsAssumption, NEW p \in Fs!Paths
  PROVE  Fs!Below(p, Fs!Root)
<1>1. p \in Seq(Nat) /\ Len(p) \in Nat \ {0} /\ Fs!Root \in Seq(Nat) /\ Len(Fs!Root) = 0
  BY SearchPathTypes, EmptySeq DEF Fs!Root
<1>2. Len(Fs!Root) < Len(p) /\ \A i \in 1..Len(Fs!Root) : p[i] = Fs!Root[i]
  BY <1>1
<1> QED
  BY <1>1, <1>2, SearchPrefixes

LEMMA SearchBelowIs ==
  ASSUME NEW p \in Seq(Nat), NEW d \in Seq(Nat), NEW e \in Seq(Nat)
  PROVE  /\ Fs!Below(p, d) /\ Fs!Below(d, e) => Fs!Below(p, e)
         /\ ~Fs!Below(p, p)
         /\ Fs!IsPrefix(d, p) <=> d = p \/ Fs!Below(p, d)
<1>1. Len(p) \in Nat /\ Len(d) \in Nat /\ Len(e) \in Nat
  BY LenProperties
<1>2. ASSUME Fs!Below(p, d), Fs!Below(d, e)
      PROVE  Fs!Below(p, e)
  <2>1. Len(d) < Len(p) /\ \A i \in 1..Len(d) : p[i] = d[i]
    BY <1>2, SearchPrefixes
  <2>2. Len(e) < Len(d) /\ \A i \in 1..Len(e) : d[i] = e[i]
    BY <1>2, SearchPrefixes
  <2>3. Len(e) < Len(p) /\ \A i \in 1..Len(e) : i \in 1..Len(d)
    BY <1>1, <2>1, <2>2
  <2>4. \A i \in 1..Len(e) : p[i] = e[i]
    BY <2>1, <2>2, <2>3
  <2> QED
    BY <2>3, <2>4, SearchPrefixes
<1>3. ~Fs!Below(p, p)
  BY <1>1, SearchPrefixes
<1>4. Fs!IsPrefix(d, p) <=> d = p \/ Fs!Below(p, d)
  <2>1. Len(d) = Len(p) /\ (\A i \in 1..Len(d) : p[i] = d[i]) => d = p
    BY SeqEqual
  <2> QED
    BY <1>1, <2>1, SearchPrefixes
<1> QED
  BY <1>2, <1>3, <1>4

(* The parts of a path are places, and the first of them below a place is  *)
(* its child.                                                              *)
LEMMA SearchParts ==
  ASSUME Fs!PathsAssumption, NEW p \in Fs!Paths, NEW k \in 0..Len(p)
  PROVE  /\ SubSeq(p, 1, k) \in Seq(Nat) /\ Len(SubSeq(p, 1, k)) = k
         /\ \A i \in 1..k : SubSeq(p, 1, k)[i] = p[i]
         /\ k < Len(p) => SubSeq(p, 1, k) \in Fs!Places
         /\ k = Len(p) => SubSeq(p, 1, k) = p
         /\ k # 0 => SubSeq(p, 1, k) \in Fs!Paths
<1>1. p \in Seq(Nat) /\ Len(p) \in Nat \ {0}
  BY SearchPathTypes
<1>2. \A i \in 1..k : p[i] \in Nat
  BY <1>1, ElementOfSeq
<1>3. SubSeq(p, 1, k) \in Seq(Nat) /\ Len(SubSeq(p, 1, k)) = k
      /\ \A i \in 1..k : SubSeq(p, 1, k)[i] = p[i]
  BY <1>1, <1>2
<1>4. k < Len(p) => SubSeq(p, 1, k) \in Fs!Places
  BY <1>1 DEF Fs!PathsAssumption
<1>5. k = Len(p) => SubSeq(p, 1, k) = p
  BY <1>1, SubSeqFull
<1>6. k # 0 => SubSeq(p, 1, k) # Fs!Root
  BY <1>3, EmptySeq DEF Fs!Root
<1>7. k # 0 => SubSeq(p, 1, k) \in Fs!Paths
  <2>1. CASE k < Len(p)
    BY <1>4, <1>6, <2>1 DEF Fs!Places, Fs!Paths
  <2>2. CASE k = Len(p)
    BY <1>5, <2>2
  <2> QED
    BY <1>1, <2>1, <2>2
<1> QED
  BY <1>3, <1>4, <1>5, <1>7

LEMMA SearchParents ==
  ASSUME Fs!PathsAssumption, NEW p \in Fs!Paths
  PROVE  /\ Fs!Parent(p) \in Fs!Places /\ Fs!Below(p, Fs!Parent(p))
         /\ \A d \in Fs!Places : Fs!Below(p, d) => d = Fs!Parent(p) \/ Fs!Below(Fs!Parent(p), d)
<1>1. p \in Seq(Nat) /\ Len(p) \in Nat \ {0} /\ Len(p) - 1 \in 0..Len(p)
  BY SearchPathTypes
<1>2. Fs!Parent(p) = SubSeq(p, 1, Len(p) - 1)
  BY DEF Fs!Parent, Fs!Front
<1>3. /\ Fs!Parent(p) \in Seq(Nat) /\ Len(Fs!Parent(p)) = Len(p) - 1
      /\ \A i \in 1..(Len(p) - 1) : Fs!Parent(p)[i] = p[i]
      /\ Fs!Parent(p) \in Fs!Places
  <2> DEFINE k == Len(p) - 1
  <2>1. k \in 0..Len(p) /\ k < Len(p)
    BY <1>1
  <2> HIDE DEF k
  <2>2. /\ SubSeq(p, 1, k) \in Seq(Nat) /\ Len(SubSeq(p, 1, k)) = k
        /\ \A i \in 1..k : SubSeq(p, 1, k)[i] = p[i]
        /\ SubSeq(p, 1, k) \in Fs!Places
    BY <2>1, SearchParts
  <2> QED
    BY <1>2, <2>2 DEF k
<1>4. Fs!Below(p, Fs!Parent(p))
  <2>1. Len(Fs!Parent(p)) < Len(p)
    BY <1>1, <1>3
  <2>2. \A i \in 1..Len(Fs!Parent(p)) : p[i] = Fs!Parent(p)[i]
    BY <1>3
  <2> QED
    BY <1>1, <1>3, <2>1, <2>2, SearchPrefixes
<1>5. ASSUME NEW d \in Fs!Places, Fs!Below(p, d)
      PROVE  d = Fs!Parent(p) \/ Fs!Below(Fs!Parent(p), d)
  <2>1. d \in Seq(Nat) /\ Len(d) \in Nat
    BY SearchPathTypes
  <2>2. Len(d) < Len(p) /\ \A i \in 1..Len(d) : p[i] = d[i]
    BY <1>1, <1>5, <2>1, SearchPrefixes
  <2>3. Len(d) <= Len(Fs!Parent(p)) /\ \A i \in 1..Len(d) : Fs!Parent(p)[i] = d[i]
    BY <1>1, <1>3, <2>1, <2>2
  <2>4. Fs!IsPrefix(d, Fs!Parent(p))
    BY <1>3, <2>1, <2>3, SearchPrefixes
  <2> QED
    BY <1>3, <2>1, <2>4, SearchBelowIs
<1> QED
  BY <1>3, <1>4, <1>5

LEMMA SearchAbove ==
  ASSUME Fs!PathsAssumption, NEW p \in Fs!Paths, NEW d \in Fs!Paths, Fs!Below(p, d)
  PROVE  d \in Folders
<1>1. d \in Seq(Nat) /\ p \in Seq(Nat) /\ Len(d) \in Nat \ {0} /\ Len(p) \in Nat
  BY SearchPathTypes
<1>2. Len(d) < Len(p) /\ \A i \in 1..Len(d) : p[i] = d[i]
  BY <1>1, SearchPrefixes
<1>3. /\ SubSeq(p, 1, Len(d)) \in Seq(Nat) /\ Len(SubSeq(p, 1, Len(d))) = Len(d)
      /\ \A i \in 1..Len(d) : SubSeq(p, 1, Len(d))[i] = p[i]
      /\ SubSeq(p, 1, Len(d)) \in Fs!Places
  BY <1>1, <1>2, SearchParts
<1>4. SubSeq(p, 1, Len(d)) = d
  <2>1. \A i \in 1..Len(d) : SubSeq(p, 1, Len(d))[i] = d[i]
    BY <1>2, <1>3
  <2> QED
    BY <1>1, <1>3, <2>1, SeqEqual
<1> QED
  BY <1>3, <1>4 DEF Fs!Places, Fs!PathsAssumption

LEMMA SearchChild ==
  ASSUME Fs!PathsAssumption, NEW p \in Fs!Paths, NEW d \in Fs!Places, Fs!Below(p, d)
  PROVE  \E c \in Fs!Paths : /\ Fs!Parent(c) = d
                             /\ c = p \/ (c \in Folders /\ Fs!Below(p, c))
<1>1. /\ p \in Seq(Nat) /\ d \in Seq(Nat) /\ Len(p) \in Nat /\ Len(d) \in Nat
      /\ Len(d) < Len(p) /\ \A i \in 1..Len(d) : p[i] = d[i]
  BY SearchPathTypes, SearchPrefixes
<1> DEFINE c == SubSeq(p, 1, Len(d) + 1)
<1>2. /\ c \in Seq(Nat) /\ Len(c) = Len(d) + 1 /\ c \in Fs!Paths
      /\ \A i \in 1..Len(d) + 1 : c[i] = p[i]
      /\ Len(d) + 1 < Len(p) => c \in Fs!Places
      /\ Len(d) + 1 = Len(p) => c = p
  BY <1>1, SearchParts
<1> HIDE DEF c
<1>3. Fs!Parent(c) = d
  <2>1. Fs!Parent(c) = SubSeq(c, 1, Len(d))
    BY <1>1, <1>2 DEF Fs!Parent, Fs!Front
  <2>2. Len(d) \in 0..Len(c)
    BY <1>1, <1>2
  <2>3. /\ SubSeq(c, 1, Len(d)) \in Seq(Nat) /\ Len(SubSeq(c, 1, Len(d))) = Len(d)
        /\ \A i \in 1..Len(d) : SubSeq(c, 1, Len(d))[i] = c[i]
    BY <1>2, <2>2, SearchParts
  <2>4. \A i \in 1..Len(d) : c[i] = d[i]
    BY SMTT(30), <1>1, <1>2
  <2>5. \A i \in 1..Len(d) : SubSeq(c, 1, Len(d))[i] = d[i]
    BY <2>3, <2>4
  <2> QED
    BY <1>1, <2>1, <2>3, <2>5, SeqEqual
<1>4. CASE Len(d) + 1 = Len(p)
  BY <1>2, <1>3, <1>4
<1>5. CASE Len(d) + 1 < Len(p)
  <2>1. c \in Folders
    BY <1>2, <1>5 DEF Fs!Places, Fs!PathsAssumption
  <2>2. Fs!Below(p, c)
    BY <1>1, <1>2, <1>5, SearchPrefixes
  <2> QED
    BY <1>2, <1>3, <2>1, <2>2
<1> QED
  BY <1>1, <1>4, <1>5

(* Whatever hides a directory hides what is below it.                      *)
LEMMA SearchHides ==
  ASSUME Fs!PathsAssumption, Fs!RulesAssumption, NEW p \in Fs!Paths, NEW c \in Fs!Paths,
         Fs!Below(p, c), Fs!VisibleTo(loader_ignored, p)
  PROVE  Fs!VisibleTo(loader_ignored, c)
<1>1. ASSUME NEW q \in Excluded, Fs!IsPrefix(q, c)
      PROVE  Fs!IsPrefix(q, p)
  <2>1. q \in Seq(Nat) /\ p \in Seq(Nat) /\ c \in Seq(Nat)
    BY SearchPathTypes DEF Fs!RulesAssumption
  <2> QED
    BY <1>1, <2>1, SearchBelowIs
<1> QED
  BY <1>1 DEF Fs!VisibleTo, Fs!Hidden

(* The order of paths, name by name.                                       *)
Precedes(p, q, i) == /\ i \in 1..Len(q)
                     /\ \A j \in 1..(i - 1) : j <= Len(p) /\ p[j] = q[j]
                     /\ i = Len(p) + 1 \/ (i <= Len(p) /\ p[i] < q[i])

LEMMA SearchPrecedes ==
  ASSUME NEW p \in Seq(Nat), NEW q \in Seq(Nat)
  PROVE  Fs!PathLess(p, q) <=> \E i \in Nat : Precedes(p, q, i)
<1>1. Len(p) \in Nat /\ Len(q) \in Nat /\ DOMAIN p = 1..Len(p) /\ DOMAIN q = 1..Len(q)
  BY LenProperties
<1>2. Fs!Below(q, p) <=> Precedes(p, q, Len(p) + 1)
  <2>1. Fs!Below(q, p) <=> Len(p) < Len(q) /\ \A i \in 1..Len(p) : q[i] = p[i]
    BY SearchPrefixes
  <2>2. Precedes(p, q, Len(p) + 1) <=> Len(p) < Len(q) /\ \A i \in 1..Len(p) : p[i] = q[i]
    BY <1>1 DEF Precedes
  <2> QED
    BY <2>1, <2>2
<1>3. ASSUME NEW i \in DOMAIN p \cap DOMAIN q
      PROVE  SubSeq(p, 1, i - 1) = SubSeq(q, 1, i - 1) /\ p[i] < q[i] <=> Precedes(p, q, i)
  <2>1. SubSeq(p, 1, i - 1) = [j \in 1..(i - 1) |-> p[j]]
    BY <1>1
  <2>2. SubSeq(q, 1, i - 1) = [j \in 1..(i - 1) |-> q[j]]
    BY <1>1
  <2>3. SubSeq(p, 1, i - 1) = SubSeq(q, 1, i - 1) <=> \A j \in 1..(i - 1) : p[j] = q[j]
    BY <2>1, <2>2
  <2>4. i \in Nat /\ i \in 1..Len(q) /\ i <= Len(p) /\ i # Len(p) + 1
        /\ \A j \in 1..(i - 1) : j <= Len(p)
    BY <1>1
  <2> QED
    BY <2>3, <2>4 DEF Precedes
<1>4. ASSUME NEW i \in Nat, Precedes(p, q, i)
      PROVE  i = Len(p) + 1 \/ i \in DOMAIN p \cap DOMAIN q
  BY <1>1, <1>4 DEF Precedes
<1>5. Fs!PathLess(p, q) <=> \/ Fs!Below(q, p)
                            \/ \E i \in DOMAIN p \cap DOMAIN q :
                                 SubSeq(p, 1, i - 1) = SubSeq(q, 1, i - 1) /\ p[i] < q[i]
  BY DEF Fs!PathLess, Fs!Below
<1>6. Len(p) + 1 \in Nat /\ DOMAIN p \subseteq Nat
  BY <1>1
<1> QED
  BY <1>2, <1>3, <1>4, <1>5, <1>6

LEMMA SearchOrder ==
  /\ \A p \in Seq(Nat) : ~Fs!PathLess(p, p)
  /\ \A p, q, r \in Seq(Nat) : Fs!PathLess(p, q) /\ Fs!PathLess(q, r) => Fs!PathLess(p, r)
  /\ \A p, q \in Seq(Nat) : p = q \/ Fs!PathLess(p, q) \/ Fs!PathLess(q, p)
<1>1. ASSUME NEW p \in Seq(Nat)
      PROVE  ~Fs!PathLess(p, p)
  <2>1. ASSUME NEW i \in Nat
        PROVE  ~Precedes(p, p, i)
    <3>1. Len(p) \in Nat /\ \A j \in 1..Len(p) : p[j] \in Nat
      BY LenProperties, ElementOfSeq
    <3> QED
      BY <3>1 DEF Precedes
  <2> QED
    BY <2>1, SearchPrecedes
<1>2. ASSUME NEW p \in Seq(Nat), NEW q \in Seq(Nat), NEW r \in Seq(Nat),
             Fs!PathLess(p, q), Fs!PathLess(q, r)
      PROVE  Fs!PathLess(p, r)
  <2>1. PICK i \in Nat : Precedes(p, q, i)
    BY <1>2, SearchPrecedes
  <2>2. PICK j \in Nat : Precedes(q, r, j)
    BY <1>2, SearchPrecedes
  <2>3. Len(p) \in Nat /\ Len(q) \in Nat /\ Len(r) \in Nat
    BY LenProperties
  <2>4. /\ \A m \in 1..Len(p) : p[m] \in Nat
        /\ \A m \in 1..Len(q) : q[m] \in Nat
        /\ \A m \in 1..Len(r) : r[m] \in Nat
    BY ElementOfSeq
  <2>5. CASE i < j
    <3>1. i \in 1..Len(r) /\ \A m \in 1..(i - 1) : m <= Len(p) /\ p[m] = r[m]
      <4>1. i \in 1..Len(q) /\ \A m \in 1..(i - 1) : m <= Len(p) /\ p[m] = q[m]
        BY <2>1 DEF Precedes
      <4>2. j \in 1..Len(r) /\ \A m \in 1..(j - 1) : m <= Len(q) /\ q[m] = r[m]
        BY <2>2 DEF Precedes
      <4>3. i \in 1..Len(r)
        BY ONLY <2>3, <4>1, <4>2, <2>5
      <4>4. ASSUME NEW m \in 1..(i - 1)
            PROVE  m <= Len(p) /\ p[m] = r[m]
        <5>1. m \in 1..(i - 1) /\ m \in 1..(j - 1)
          BY ONLY i \in Nat, j \in Nat, m \in 1..(i - 1), <2>5
        <5> QED
          BY ONLY <4>1, <4>2, <5>1
      <4> QED
        BY <4>3, <4>4
    <3>2. i = Len(p) + 1 \/ (i <= Len(p) /\ p[i] < r[i])
      BY <2>1, <2>2, <2>3, <2>4, <2>5 DEF Precedes
    <3> QED
      BY <3>1, <3>2, SearchPrecedes DEF Precedes
  <2>6. CASE i = j
    <3>1. i \in 1..Len(r) /\ \A m \in 1..(i - 1) : m <= Len(p) /\ p[m] = r[m]
      <4>1. i \in 1..Len(q) /\ \A m \in 1..(i - 1) : m <= Len(p) /\ p[m] = q[m]
        BY <2>1 DEF Precedes
      <4>2. j \in 1..Len(r) /\ \A m \in 1..(j - 1) : m <= Len(q) /\ q[m] = r[m]
        BY <2>2 DEF Precedes
      <4>3. i \in 1..Len(r)
        BY ONLY <2>3, <4>1, <4>2, <2>6
      <4>4. ASSUME NEW m \in 1..(i - 1)
            PROVE  m <= Len(p) /\ p[m] = r[m]
        <5>1. m \in 1..(i - 1) /\ m \in 1..(j - 1)
          BY ONLY i \in Nat, j \in Nat, m \in 1..(i - 1), <2>6
        <5> QED
          BY ONLY <4>1, <4>2, <5>1
      <4> QED
        BY <4>3, <4>4
    <3>2. i = Len(p) + 1 \/ (i <= Len(p) /\ p[i] < r[i])
      BY SMTT(30), <2>1, <2>2, <2>3, <2>4, <2>6 DEF Precedes
    <3> QED
      BY <3>1, <3>2, SearchPrecedes DEF Precedes
  <2>7. CASE j < i
    <3>1. j \in 1..Len(r) /\ \A m \in 1..(j - 1) : m <= Len(p) /\ p[m] = r[m]
      <4>1. i \in 1..Len(q) /\ \A m \in 1..(i - 1) : m <= Len(p) /\ p[m] = q[m]
        BY <2>1 DEF Precedes
      <4>2. j \in 1..Len(r) /\ \A m \in 1..(j - 1) : m <= Len(q) /\ q[m] = r[m]
        BY <2>2 DEF Precedes
      <4>3. j \in 1..Len(r)
        BY ONLY <2>3, <4>1, <4>2, <2>7
      <4>4. ASSUME NEW m \in 1..(j - 1)
            PROVE  m <= Len(p) /\ p[m] = r[m]
        <5>1. m \in 1..(i - 1) /\ m \in 1..(j - 1)
          BY ONLY i \in Nat, j \in Nat, m \in 1..(j - 1), <2>7
        <5> QED
          BY ONLY <4>1, <4>2, <5>1
      <4> QED
        BY <4>3, <4>4
    <3>2. j = Len(p) + 1 \/ (j <= Len(p) /\ p[j] < r[j])
      BY <2>1, <2>2, <2>3, <2>4, <2>7 DEF Precedes
    <3> QED
      BY <3>1, <3>2, SearchPrecedes DEF Precedes
  <2> QED
    BY <2>5, <2>6, <2>7
<1>3. ASSUME NEW p \in Seq(Nat), NEW q \in Seq(Nat), p # q
      PROVE  Fs!PathLess(p, q) \/ Fs!PathLess(q, p)
  <2> DEFINE D == {i \in Nat \ {0} : i > Len(p) \/ i > Len(q) \/ p[i] # q[i]}
  <2>1. Len(p) \in Nat /\ Len(q) \in Nat
        /\ (\A m \in 1..Len(p) : p[m] \in Nat) /\ (\A m \in 1..Len(q) : q[m] \in Nat)
    BY LenProperties, ElementOfSeq
  <2>2. PICK i \in D : \A j \in D : ~(j < i)
    <3>1. Len(p) + 1 \in D /\ D \subseteq Nat
      BY <2>1
    <3>2. PICK i \in D : \A j \in D : ~(<<j, i>> \in OpToRel(<, Nat))
      <4> HIDE DEF D
      <4> QED
        BY <3>1, NatLessThanWellFounded, WFMin
    <3> QED
      BY <3>1, <3>2 DEF OpToRel
  <2>3. \A j \in 1..(i - 1) : j <= Len(p) /\ j <= Len(q) /\ p[j] = q[j]
    BY <2>1, <2>2
  <2>4. i \in Nat \ {0} /\ (i > Len(p) \/ i > Len(q) \/ p[i] # q[i])
    BY <2>2
  <2> HIDE DEF D
  <2>5. i > Len(p) => i = Len(p) + 1
    BY <2>1, <2>3, <2>4
  <2>6. i > Len(q) => i = Len(q) + 1
    BY <2>1, <2>3, <2>4
  <2>7. ~(i > Len(p) /\ i > Len(q))
    <3> SUFFICES ASSUME i > Len(p), i > Len(q) PROVE FALSE
      OBVIOUS
    <3>1. Len(p) = Len(q)
      BY <2>1, <2>5, <2>6
    <3>2. \A j \in 1..Len(p) : p[j] = q[j]
      BY <2>1, <2>3, <2>5
    <3> QED
      BY <1>3, <3>1, <3>2, SeqEqual
  <2>8. Precedes(p, q, i) \/ Precedes(q, p, i)
    BY <2>1, <2>3, <2>4, <2>5, <2>6, <2>7 DEF Precedes
  <2> QED
    BY <2>4, <2>8, SearchPrecedes
<1> QED
  BY <1>1, <1>2, <1>3

(* A path is selected, or none.                                            *)
LEMMA SearchFirst ==
  ASSUME NEW S, IsFiniteSet(S), S # {}, S \subseteq Seq(Nat)
  PROVE  \E p \in S : \A q \in S \ {p} : Fs!PathLess(p, q)
<1> DEFINE Before(p) == {q \in S : Fs!PathLess(q, p)}
           Counts == {Cardinality(Before(p)) : p \in S}
<1>1. \A p \in S : IsFiniteSet(Before(p)) /\ Cardinality(Before(p)) \in Nat
  BY FS_Subset, FS_CardinalityType
<1>2. PICK n \in Counts : \A m \in Counts : ~(m < n)
  <2>1. Counts \subseteq Nat /\ Counts # {}
    BY <1>1
  <2> HIDE DEF Counts
  <2>2. PICK n \in Counts : \A m \in Counts : ~(<<m, n>> \in OpToRel(<, Nat))
    BY <2>1, NatLessThanWellFounded, WFMin
  <2> QED
    BY <2>1, <2>2 DEF OpToRel
<1>3. PICK p \in S : n = Cardinality(Before(p))
  OBVIOUS
<1>4. ASSUME NEW q \in S, Fs!PathLess(q, p)
      PROVE  FALSE
  <2>1. Before(q) \subseteq Before(p)
    BY <1>4, SearchOrder
  <2>2. q \in Before(p) /\ q \notin Before(q)
    BY <1>4, SearchOrder
  <2>3. Before(q) # Before(p)
    BY <2>2
  <2>4. Cardinality(Before(q)) < Cardinality(Before(p))
    <3> DEFINE A == Before(q)
               B == Before(p)
    <3>1. IsFiniteSet(B) /\ A \in SUBSET B /\ A # B
          /\ Cardinality(A) \in Nat /\ Cardinality(B) \in Nat
      BY <1>1, <2>1, <2>3
    <3> HIDE DEF A, B
    <3>2. Cardinality(A) <= Cardinality(B) /\ Cardinality(A) # Cardinality(B)
      BY <3>1, FS_Subset
    <3>3. Cardinality(A) < Cardinality(B)
      BY <3>1, <3>2
    <3> QED
      BY <3>3 DEF A, B
  <2>5. Cardinality(Before(q)) \in Counts
    OBVIOUS
  <2> QED
    BY <1>2, <1>3, <2>4, <2>5
<1>5. \A q \in S \ {p} : Fs!PathLess(p, q)
  BY <1>4, SearchOrder
<1> QED
  BY <1>5

LEMMA SearchNearest ==
  ASSUME Fs!PathsAssumption, NEW s \in Fs!Paths,
         NEW S \in SUBSET Folders, S # {}, \A d \in S : Fs!Below(s, d)
  PROVE  \E d \in S : \A e \in S : Fs!IsPrefix(e, d)
<1>1. /\ s \in Seq(Nat) /\ Len(s) \in Nat
      /\ \A d \in S : /\ d \in Seq(Nat) /\ Len(d) \in Nat /\ Len(d) < Len(s)
                      /\ \A i \in 1..Len(d) : s[i] = d[i]
  BY SearchPathTypes, SearchPrefixes
<1> DEFINE Gaps == {Len(s) - Len(d) : d \in S}
<1>2. PICK n \in Gaps : \A m \in Gaps : ~(m < n)
  <2>1. Gaps \subseteq Nat /\ Gaps # {}
    BY <1>1
  <2> HIDE DEF Gaps
  <2>2. PICK n \in Gaps : \A m \in Gaps : ~(<<m, n>> \in OpToRel(<, Nat))
    BY <2>1, NatLessThanWellFounded, WFMin
  <2> QED
    BY <2>1, <2>2 DEF OpToRel
<1>3. PICK d \in S : n = Len(s) - Len(d)
  OBVIOUS
<1>4. ASSUME NEW e \in S
      PROVE  Fs!IsPrefix(e, d)
  <2>1. Len(s) - Len(e) \in Gaps
    OBVIOUS
  <2>2. Len(e) <= Len(d)
    <3>1. ~(Len(s) - Len(e) < Len(s) - Len(d))
      BY <1>2, <1>3, <2>1
    <3> QED
      BY <1>1, <3>1
  <2>3. \A i \in 1..Len(e) : d[i] = e[i]
    BY <1>1, <2>2
  <2> QED
    BY <1>1, <2>2, <2>3, SearchPrefixes
<1> QED
  BY <1>4

LEMMA SearchSelects ==
  ASSUME Fs!PathsAssumption, NEW nodes, NEW s \in Fs!Paths \cup {Nothing}
  PROVE  Fs!RestoreSelection(nodes, s) \in Fs!Paths \cup {Nothing}
<1>1. Fs!OrderedFirst(nodes) \in Fs!Paths \cup {Nothing}
  <2> DEFINE top == {p \in Fs!Paths : nodes[p] # Nothing /\ Fs!DisplayParent(nodes, p) = Fs!Root}
             dirs == {p \in top : nodes[p] = "directory"}
             rows == IF dirs # {} THEN dirs ELSE top
  <2>1. CASE top = {}
    BY <2>1 DEF Fs!OrderedFirst
  <2>2. CASE top # {}
    <3>1. rows \subseteq Fs!Paths /\ rows # {}
      BY <2>2
    <3>2. Fs!OrderedFirst(nodes) = CHOOSE p \in rows : \A q \in rows \ {p} : Fs!PathLess(p, q)
      BY <2>2 DEF Fs!OrderedFirst
    <3> HIDE DEF rows
    <3>3. IsFiniteSet(rows) /\ rows \subseteq Seq(Nat)
      BY <3>1, SearchPathTypes, FS_Subset
    <3>4. \E p \in rows : \A q \in rows \ {p} : Fs!PathLess(p, q)
      BY <3>1, <3>3, SearchFirst
    <3> QED
      BY <3>1, <3>2, <3>4
  <2> QED
    BY <2>1, <2>2
<1> DEFINE above == {d \in Folders : Fs!Below(s, d) /\ nodes[d] # Nothing}
<1>2. ASSUME s # Nothing, above # {}
      PROVE  (CHOOSE d \in above : \A e \in above : Fs!IsPrefix(e, d)) \in Fs!Paths
  <2>1. above \in SUBSET Folders /\ \A d \in above : Fs!Below(s, d)
    OBVIOUS
  <2> HIDE DEF above
  <2>2. \E d \in above : \A e \in above : Fs!IsPrefix(e, d)
    BY <1>2, <2>1, SearchNearest
  <2> QED
    BY <2>1, <2>2 DEF Fs!Paths
<1> QED
  BY <1>1, <1>2 DEF Fs!RestoreSelection

(* Directories in a row.                                                   *)
LEMMA SearchInRow ==
  ASSUME NEW S, IsFiniteSet(S)
  PROVE  /\ Fs!SetToSeq(S) \in Seq(S) /\ Range(Fs!SetToSeq(S)) = S
         /\ \A i, j \in DOMAIN Fs!SetToSeq(S) :
              Fs!SetToSeq(S)[i] = Fs!SetToSeq(S)[j] => i = j
<1> DEFINE n == Cardinality(S)
           s == Fs!SetToSeq(S)
<1>1. n \in Nat /\ \E f \in [1..n -> S] : IsInjective(f)
  BY FS_CardinalityType DEF ExistsBijection, Bijection, Injection
<1>2. s \in [1..n -> S] /\ IsInjective(s)
  <2>1. s = CHOOSE f \in [1..n -> S] : IsInjective(f)
    BY SearchOperators DEF Fs!SetToSeq, Fs!IsInjective, IsInjective
  <2> HIDE DEF s
  <2> QED
    BY <1>1, <2>1
<1> HIDE DEF s
<1>3. s \in Seq(S)
  BY <1>1, <1>2
<1>4. Range(s) = S
  <2>1. IsFiniteSet(1..n) /\ Cardinality(1..n) = n
    BY <1>1, FS_Interval
  <2>2. s \in Injection(1..n, S)
    BY <1>2 DEF Injection
  <2>3. s \in Surjection(1..n, S)
    BY <2>1, <2>2, FS_Injection
  <2> QED
    BY <1>2, <2>3 DEF Surjection, Range
<1> QED
  BY <1>2, <1>3, <1>4 DEF s, IsInjective

LEMMA SearchConcat ==
  ASSUME NEW S, NEW s \in Seq(S), NEW t \in Seq(S)
  PROVE  /\ s \o t \in Seq(S) /\ Range(s \o t) = Range(s) \cup Range(t)
         /\ Fs!Apart(s \o t) <=> /\ Fs!Apart(s) /\ Fs!Apart(t)
                                 /\ \A a \in Range(s), b \in Range(t) :
                                      ~Fs!IsPrefix(a, b) /\ ~Fs!IsPrefix(b, a)
<1> DEFINE u == s \o t
<1>1. /\ Len(s) \in Nat /\ Len(t) \in Nat /\ DOMAIN s = 1..Len(s) /\ DOMAIN t = 1..Len(t)
      /\ u \in Seq(S) /\ DOMAIN u = 1..(Len(s) + Len(t))
      /\ \A i \in 1..Len(s) : u[i] = s[i]
      /\ \A i \in 1..Len(t) : u[Len(s) + i] = t[i]
  BY LenProperties, ConcatProperties
<1>2. Range(u) = Range(s) \cup Range(t)
  BY RangeConcatenation
<1> HIDE DEF u
<1>3. ASSUME Fs!Apart(u)
      PROVE  /\ Fs!Apart(s) /\ Fs!Apart(t)
             /\ \A a \in Range(s), b \in Range(t) : ~Fs!IsPrefix(a, b) /\ ~Fs!IsPrefix(b, a)
  <2>1. Fs!Apart(s)
    BY <1>1, <1>3 DEF Fs!Apart
  <2>2. ASSUME NEW i \in DOMAIN t, NEW j \in DOMAIN t, i # j
        PROVE  ~Fs!IsPrefix(t[i], t[j])
    <3>1. Len(s) + i \in DOMAIN u /\ Len(s) + j \in DOMAIN u /\ Len(s) + i # Len(s) + j
      BY <1>1, <2>2
    <3> QED
      BY <1>1, <1>3, <3>1 DEF Fs!Apart
  <2>3. ASSUME NEW i \in DOMAIN s, NEW j \in DOMAIN t
        PROVE  ~Fs!IsPrefix(s[i], t[j]) /\ ~Fs!IsPrefix(t[j], s[i])
    <3>1. i \in DOMAIN u /\ Len(s) + j \in DOMAIN u /\ i # Len(s) + j
      BY <1>1
    <3> QED
      BY <1>1, <1>3, <3>1 DEF Fs!Apart
  <2> QED
    BY <2>1, <2>2, <2>3 DEF Fs!Apart, Range
<1>4. ASSUME Fs!Apart(s), Fs!Apart(t), NEW i \in DOMAIN u, NEW j \in DOMAIN u, i # j,
             \A a \in Range(s), b \in Range(t) : ~Fs!IsPrefix(a, b) /\ ~Fs!IsPrefix(b, a)
      PROVE  ~Fs!IsPrefix(u[i], u[j])
  <2>1. ASSUME NEW k \in DOMAIN u
        PROVE  \/ k \in DOMAIN s /\ u[k] = s[k] /\ u[k] \in Range(s)
               \/ k - Len(s) \in DOMAIN t /\ u[k] = t[k - Len(s)] /\ u[k] \in Range(t)
    <3>1. CASE k <= Len(s)
      BY <1>1, <3>1 DEF Range
    <3>2. CASE k > Len(s)
      <4>1. k - Len(s) \in 1..Len(t) /\ Len(s) + (k - Len(s)) = k
        BY <1>1, <3>2
      <4> QED
        BY <1>1, <4>1 DEF Range
    <3> QED
      BY <1>1, <3>1, <3>2
  <2>2. i - Len(s) # j - Len(s)
    BY <1>1, <1>4
  <2>3. CASE u[i] \in Range(s) /\ i \in DOMAIN s /\ u[i] = s[i]
    BY <1>4, <2>1, <2>3 DEF Fs!Apart
  <2>4. CASE u[i] \in Range(t) /\ i - Len(s) \in DOMAIN t /\ u[i] = t[i - Len(s)]
    BY <1>4, <2>1, <2>2, <2>4 DEF Fs!Apart
  <2> QED
    BY <2>1, <2>3, <2>4
<1>5. Fs!Apart(s) /\ Fs!Apart(t)
      /\ (\A a \in Range(s), b \in Range(t) : ~Fs!IsPrefix(a, b) /\ ~Fs!IsPrefix(b, a))
      => Fs!Apart(u)
  BY <1>4 DEF Fs!Apart
<1> QED
  BY <1>1, <1>2, <1>3, <1>5 DEF u

LEMMA SearchSplit ==
  ASSUME NEW S, NEW s \in Seq(S), NEW n \in 0..Len(s)
  PROVE  /\ SubSeq(s, 1, n) \in Seq(S) /\ SubSeq(s, n + 1, Len(s)) \in Seq(S)
         /\ s = SubSeq(s, 1, n) \o SubSeq(s, n + 1, Len(s))
<1>1. Len(s) \in Nat
  BY LenProperties
<1>2. SubSeq(s, 1, n) \in Seq(S) /\ SubSeq(s, n + 1, Len(s)) \in Seq(S)
  BY <1>1
<1>3. SubSeq(s, 1, n) \o SubSeq(s, n + 1, Len(s)) = SubSeq(s, 1, Len(s))
  <2>1. 1 \in 1..Len(s) + 1 /\ n \in (1 - 1)..Len(s) /\ Len(s) \in n..Len(s)
    BY <1>1
  <2> QED
    BY <2>1, ConcatAdjacentSubSeq
<1> QED
  BY <1>2, <1>3, SubSeqFull

LEMMA SearchHeadTail ==
  ASSUME NEW S, NEW s \in Seq(S), s # <<>>
  PROVE  /\ Head(s) \in S /\ Tail(s) \in Seq(S) /\ Range(s) = {Head(s)} \cup Range(Tail(s))
         /\ Fs!Apart(s) => /\ Fs!Apart(Tail(s))
                           /\ \A a \in Range(Tail(s)) : /\ ~Fs!IsPrefix(a, Head(s))
                                                        /\ ~Fs!IsPrefix(Head(s), a)
<1>1. Head(s) \in S /\ Tail(s) \in Seq(S) /\ <<Head(s)>> \in Seq(S) /\ s = <<Head(s)>> \o Tail(s)
  BY HeadTailProperties
<1>2. Range(<<Head(s)>>) = {Head(s)}
  BY DEF Range
<1> DEFINE h == <<Head(s)>>
           t == Tail(s)
<1> HIDE DEF h, t
<1>3. /\ Range(h \o t) = Range(h) \cup Range(t)
      /\ Fs!Apart(h \o t) => /\ Fs!Apart(t)
                              /\ \A a \in Range(h), b \in Range(t) :
                                   ~Fs!IsPrefix(a, b) /\ ~Fs!IsPrefix(b, a)
  BY ZenonT(60), <1>1, SearchConcat DEF h, t
<1> QED
  BY <1>1, <1>2, <1>3 DEF h, t

LEMMA SearchNone == Range(<<>>) = {} /\ Fs!Apart(<<>>)
BY DEF Range, Fs!Apart

LEMMA SearchOne == ASSUME NEW d PROVE Range(<<d>>) = {d} /\ Fs!Apart(<<d>>)
BY DEF Range, Fs!Apart

(* The index, as a directory is listed.                                    *)
Real(nodes, p) == nodes[p] \notin {Nothing, "virtual"}
GoneWith(nodes, d, entries, p) ==
  \E r \in Fs!Paths \ entries : /\ Fs!Parent(r) = d /\ Real(nodes, r)
                                /\ p = r \/ Fs!Below(p, r)

LEMMA SearchLists ==
  ASSUME Fs!SearchAssumption, NEW nodes \in Fs!Index, NEW d, NEW entries, NEW p \in Fs!Paths
  PROVE  Fs!ListedNodes(nodes, d, entries)[p] =
           IF p \in entries THEN Fs!Kind(p)
           ELSE IF Real(nodes, p) /\ GoneWith(nodes, d, entries, p) THEN Nothing ELSE nodes[p]
<1> DEFINE removed == {q \in Fs!Paths : /\ Fs!Parent(q) = d /\ q \notin entries
                                        /\ nodes[q] \notin {Nothing, "virtual"}}
<1>1. Fs!ListedNodes(nodes, d, entries)[p] =
        IF p \in entries THEN Fs!Kind(p)
        ELSE IF nodes[p] = "virtual" THEN "virtual"
        ELSE IF p \in removed \/ \E r \in removed : Fs!Below(p, r) THEN Nothing
        ELSE nodes[p]
  BY DEF Fs!ListedNodes
<1>2. p \in removed \/ (\E r \in removed : Fs!Below(p, r)) <=> GoneWith(nodes, d, entries, p)
  BY DEF GoneWith, Real
<1> HIDE DEF removed
<1> QED
  BY <1>1, <1>2 DEF Real

LEMMA SearchListing ==
  ASSUME Fs!SearchAssumption, NEW nodes \in Fs!Index, Fs!RootedIndex(nodes),
         NEW d \in Fs!Places, d = Fs!Root \/ nodes[d] = "directory",
         NEW entries \in SUBSET {p \in Fs!Paths : Fs!Parent(p) = d}
  PROVE  /\ Fs!ListedNodes(nodes, d, entries) \in Fs!Index
         /\ Fs!RootedIndex(Fs!ListedNodes(nodes, d, entries))
         /\ \A e \in Folders : nodes[e] = "directory" /\ ~Fs!Below(e, d) =>
              Fs!ListedNodes(nodes, d, entries)[e] = "directory"
<1> DEFINE new == Fs!ListedNodes(nodes, d, entries)
<1>1. \A p \in Fs!Paths :
        new[p] = IF p \in entries THEN Fs!Kind(p)
                 ELSE IF Real(nodes, p) /\ GoneWith(nodes, d, entries, p) THEN Nothing
                 ELSE nodes[p]
  BY SearchLists
<1>2. DOMAIN new = Fs!Paths /\ new = [p \in Fs!Paths |-> new[p]]
  BY DEF Fs!ListedNodes
<1> HIDE DEF new
<1>3. Nothing \notin {"directory", "file", "virtual"} /\ Folders \cap Files = {}
      /\ Fs!PathsAssumption
  BY DEF Fs!SearchAssumption, Fs!NoneAssumption, Fs!PathsAssumption
<1>4. Folders \subseteq Fs!Paths /\ Files \subseteq Fs!Paths
      /\ Fs!Paths \subseteq Seq(Nat) /\ Fs!Places \subseteq Seq(Nat)
  BY <1>3, SearchPathTypes
<1>5. new \in Fs!Index
  <2>1. /\ \A p \in Fs!Paths : nodes[p] \in {Nothing, "directory", "file", "virtual"}
        /\ \A f \in Files : nodes[f] # "directory"
    BY DEF Fs!Index
  <2>2. ASSUME NEW p \in Fs!Paths
        PROVE  new[p] \in {Nothing, "directory", "file", "virtual"}
    BY <1>1, <2>1 DEF Fs!Kind
  <2>3. ASSUME NEW f \in Files
        PROVE  new[f] # "directory"
    <3>1. Fs!Kind(f) = "file" /\ f \in Fs!Paths
      BY <1>3, <1>4 DEF Fs!Kind
    <3> QED
      BY <1>1, <1>3, <2>1, <3>1
  <2> QED
    BY <1>2, <2>2, <2>3 DEF Fs!Index
<1>6. ASSUME NEW e \in Folders, nodes[e] = "directory", ~Fs!Below(e, d)
      PROVE  new[e] = "directory"
  <2>1. e \notin entries
    BY <1>3, <1>4, <1>6, SearchParents
  <2>2. ~GoneWith(nodes, d, entries, e)
    <3> SUFFICES ASSUME NEW r \in Fs!Paths \ entries, Fs!Parent(r) = d,
                        e = r \/ Fs!Below(e, r)
                 PROVE  FALSE
      BY DEF GoneWith
    <3>1. Fs!Below(r, d)
      BY <1>3, SearchParents
    <3> QED
      BY <1>4, <1>6, <3>1, SearchBelowIs
  <2> QED
    BY <1>1, <1>4, <1>6, <2>1, <2>2
<1>7. ASSUME NEW p \in Fs!Paths, NEW e \in Folders, Real(new, p), Fs!Below(p, e)
      PROVE  new[e] = "directory"
  <2>1. CASE p \in entries
    <3>1. Fs!Parent(p) = d
      BY <2>1
    <3>2. e = d \/ Fs!Below(d, e)
      BY <1>3, <1>4, <1>7, <3>1, SearchParents DEF Fs!Places
    <3>3. nodes[e] = "directory"
      <4>1. CASE e = d
        BY <1>3, <4>1 DEF Fs!PathsAssumption, Fs!Paths
      <4>2. CASE Fs!Below(d, e)
        <5>1. d # Fs!Root
          BY <1>3, <1>4, <4>2, SearchBelowRoot, SearchBelowIs, EmptySeq
        <5>2. d \in Fs!Paths /\ nodes[d] = "directory"
          BY <5>1 DEF Fs!Places, Fs!Paths
        <5> QED
          BY <1>3, <4>2, <5>2 DEF Fs!RootedIndex
      <4> QED
        BY <3>2, <4>1, <4>2
    <3>4. ~Fs!Below(e, d)
      BY <1>4, <3>2, SearchBelowIs
    <3> QED
      BY <1>6, <3>3, <3>4
  <2>2. CASE p \notin entries
    <3>1. Real(nodes, p) /\ ~GoneWith(nodes, d, entries, p)
      BY <1>1, <1>7, <2>2 DEF Real
    <3>2. nodes[e] = "directory"
      BY <1>7, <3>1 DEF Fs!RootedIndex, Real
    <3>3. CASE e \in entries
      BY <1>1, <1>4, <3>3 DEF Fs!Kind
    <3>4. CASE e \notin entries
      <4>1. ~GoneWith(nodes, d, entries, e)
        <5> SUFFICES ASSUME NEW r \in Fs!Paths \ entries, Fs!Parent(r) = d, Real(nodes, r),
                            e = r \/ Fs!Below(e, r)
                     PROVE  FALSE
          BY DEF GoneWith
        <5>1. Fs!Below(p, r)
          BY <1>4, <1>7, SearchBelowIs
        <5> QED
          BY <3>1, <5>1 DEF GoneWith
      <4> QED
        BY <1>1, <1>4, <3>2, <3>4, <4>1
    <3> QED
      BY <3>3, <3>4
  <2> QED
    BY <2>1, <2>2
<1>8. Fs!RootedIndex(new)
  BY <1>7 DEF Fs!RootedIndex, Real
<1> QED
  BY <1>5, <1>6, <1>8 DEF new

(* What has been there is found, but for what is below a directory in s.   *)
Sought(nodes, s, there, gone, ignored) ==
  /\ \A f \in there : Fs!VisibleTo(ignored, f) =>
       nodes[f] = "file" \/ \E d \in Range(s) : Fs!Below(f, d)
  /\ \A f \in gone : nodes[f] = "file" => \E d \in Range(s) : Fs!Below(f, d)

LEMMA SearchFinds ==
  ASSUME NEW nodes, NEW s
  PROVE  Fs!Finds(nodes, s) <=> Sought(nodes, s, steady, absent, loader_ignored)
BY SearchOperators DEF Fs!Finds, Sought

ScanState == /\ page \in Fs!Page \cup {Nothing} /\ pending_directories \in Seq(Fs!Places)
             /\ complete \in BOOLEAN /\ truncated \in BOOLEAN
             /\ Fs!Frontier /\ Fs!ScanInv /\ Fs!PageMatches
             /\ page # Nothing => Fs!RootedIndex(page.index)

(* A page may start, and none runs: whoever starts it has said what is to  *)
(* be listed.                                                              *)
LEMMA SearchIdle ==
  ASSUME Fs!SearchAssumption, NEW s \in Seq(Fs!Places), NEW done \in BOOLEAN, NEW cut \in BOOLEAN, cut => done,
         Fs!StartNextSearchPage(s, done, cut, TRUE),
         index' \in Fs!Index, Fs!RootedIndex(index'), selection' \in Fs!Paths \cup {Nothing},
         searchable' = [f \in Files |-> index'[f]],
         Fs!Apart(s), \A d \in Range(s) \ {Fs!Root} : index'[d] = "directory",
         ~cut /\ skipped_directories' = 0 /\ "page" \notin panicked' =>
           Sought(index', s, steady', absent', loader_ignored') /\ (done => s = <<>>)
  PROVE  ScanState'
<1> DEFINE tries == active' /\ begun' /\ TRUE /\ ~done /\ (editing' \/ query' # <<>>)
           over == \/ scanned_entries' >= limit.entries
                   \/ examined_entries' >= limit.examined
           starts == tries /\ ~over /\ s # <<>> /\ ~queue_full'
           n == Fs!Min({PageSize, Len(s)})
           new == [index |-> index', selection |-> selection', searchable |-> searchable',
                   directories |-> SubSeq(s, 1, n), todo |-> SubSeq(s, 1, n),
                   discovered |-> <<>>, listed |-> {}, found |-> {},
                   scanned |-> 0, examined |-> 0, skipped |-> 0, truncated |-> FALSE]
<1>1. /\ complete' = (done \/ (tries /\ (over \/ s = <<>>)))
      /\ truncated' = (cut \/ (tries /\ over))
      /\ pending_directories' = IF tries /\ over THEN <<>>
                                ELSE IF starts THEN SubSeq(s, n + 1, Len(s)) ELSE s
      /\ page' = IF starts THEN new ELSE Nothing
  BY DEF Fs!StartNextSearchPage
<1>2. tries \in BOOLEAN /\ over \in BOOLEAN /\ starts \in BOOLEAN /\ (starts => tries /\ ~over)
      /\ (starts => s # <<>>) /\ (tries => ~done)
  OBVIOUS
<1> HIDE DEF tries, over, starts
<1>3. complete' \in BOOLEAN /\ truncated' \in BOOLEAN /\ (cut => truncated')
  BY <1>1
<1>4. CASE ~starts
  <2>1. page' = Nothing /\ pending_directories' \in Seq(Fs!Places)
        /\ (pending_directories' = s \/ (truncated' /\ pending_directories' = <<>>))
        /\ (complete' /\ ~truncated' => done \/ s = <<>>) /\ (truncated' => complete')
    BY <1>1, <1>2, <1>4, EmptySeq
  <2>2. Fs!Frontier'
    BY <2>1, SearchNone, SearchOperators DEF Fs!Frontier, Fs!Waiting, Fs!InIndex
  <2>3. Fs!ScanInv'
    <3>1. ASSUME Fs!Undisturbed'
          PROVE  /\ pending_directories' = s /\ Fs!Finds(index, Fs!Waiting)'
                 /\ complete' => s = <<>>
      <4>1. ~truncated' /\ skipped_directories' = 0 /\ "page" \notin panicked'
        BY <3>1 DEF Fs!Undisturbed
      <4>2. ~cut
        BY <1>3, <4>1
      <4>3. Sought(index', s, steady', absent', loader_ignored') /\ (done => s = <<>>)
        BY <4>1, <4>2
      <4>4. pending_directories' = s
        BY <2>1, <4>1
      <4>5. Fs!Finds(index, Fs!Waiting)' <=> Sought(index', s, steady', absent', loader_ignored')
        BY <2>1, <4>4, SearchOperators DEF Fs!Finds, Fs!Waiting, Sought
      <4> QED
        BY <2>1, <4>1, <4>3, <4>4, <4>5
    <3> QED
      BY <2>1, <3>1 DEF Fs!ScanInv
  <2> QED
    BY <1>3, <2>1, <2>2, <2>3 DEF ScanState, Fs!PageMatches
<1>5. CASE starts
  <2>1. /\ page' = new /\ pending_directories' = SubSeq(s, n + 1, Len(s))
        /\ truncated' = FALSE /\ cut = FALSE /\ complete' = FALSE
    BY <1>1, <1>2, <1>5
  <2>2. n \in 0..Len(s)
    <3>1. Len(s) \in Nat /\ PageSize \in Nat
      BY LenProperties DEF Fs!SearchAssumption, Fs!BoundAssumption
    <3>2. \E m \in {PageSize, Len(s)} : \A k \in {PageSize, Len(s)} : m <= k
      BY <3>1
    <3>3. n \in {PageSize, Len(s)} /\ \A k \in {PageSize, Len(s)} : n <= k
      BY <3>2 DEF Fs!Min
    <3> QED
      BY <3>1, <3>3
  <2> DEFINE first == SubSeq(s, 1, n)
             rest == SubSeq(s, n + 1, Len(s))
  <2>3. first \in Seq(Fs!Places) /\ rest \in Seq(Fs!Places) /\ s = first \o rest
    BY <2>2, SearchSplit
  <2> HIDE DEF n
  <2>4. page' \in Fs!Page
    <3>1. searchable' \in Fs!Searchable
      <4>1. Files \subseteq Fs!Paths
        BY SearchPathTypes DEF Fs!SearchAssumption
      <4> QED
        BY <4>1 DEF Fs!Index, Fs!Searchable
    <3>2. <<>> \in Seq(Folders)
      BY EmptySeq
    <3> QED
      BY <2>1, <2>3, <3>1, <3>2 DEF Fs!Page
  <2>5. page' # Nothing
    BY <2>4 DEF Fs!SearchAssumption, Fs!NoneAssumption
  <2>6. /\ page'.index = index' /\ page'.directories = first /\ page'.todo = first
        /\ page'.discovered = <<>> /\ page'.skipped = 0 /\ page'.truncated = FALSE
        /\ page'.searchable = searchable' /\ page'.listed = {} /\ page'.found = {}
    BY <2>1
  <2> HIDE DEF first, rest, new
  <2>7. Fs!Waiting' = s /\ Fs!PageWaiting' = s
    <3>1. rest \o <<>> = rest
      BY <2>3, ConcatEmptySeq
    <3> QED
      BY <2>1, <2>3, <2>5, <2>6, <3>1 DEF Fs!Waiting, Fs!PageWaiting, rest
  <2>8. Fs!Frontier'
    BY <2>6, <2>7, SearchOperators DEF Fs!Frontier, Fs!InIndex
  <2>9. Fs!ScanInv'
    <3>1. ASSUME Fs!Undisturbed'
          PROVE  Fs!Finds(index, Fs!Waiting)' /\ Fs!Finds(page.index, Fs!PageWaiting)'
      <4>1. Sought(index', s, steady', absent', loader_ignored')
        BY <2>1, <3>1 DEF Fs!Undisturbed
      <4> QED
        BY <2>6, <2>7, <4>1, SearchOperators DEF Fs!Finds, Sought
    <3> QED
      BY <2>1, <2>6, <3>1 DEF Fs!ScanInv
  <2>10. Fs!PageMatches'
    BY <2>6 DEF Fs!PageMatches
  <2> QED
    BY <1>3, <2>1, <2>3, <2>4, <2>6, <2>8, <2>9, <2>10 DEF ScanState, rest
<1> QED
  BY <1>2, <1>4, <1>5

(* The same when a page may run: it goes on.                               *)
LEMMA SearchRetries ==
  ASSUME Fs!SearchAssumption, ScanState, Fs!RetryPage, steady \subseteq Files, absent \subseteq Files,
         index' \in Fs!Index, Fs!RootedIndex(index'), selection' \in Fs!Paths \cup {Nothing},
         searchable' = [f \in Files |-> index'[f]],
         \A d \in Folders : index[d] = "directory" => index'[d] = "directory",
         \A f \in steady : index[f] = "file" => index'[f] = "file",
         \A f \in absent : index'[f] = "file" => index[f] = "file",
         UNCHANGED <<steady, absent, loader_ignored, skipped_directories>>,
         "page" \in panicked' <=> "page" \in panicked
  PROVE  ScanState'
<1>1. Fs!Waiting \in Seq(Fs!Places)
  <2>1. page # Nothing => page.directories \in Seq(Fs!Places)
    BY DEF ScanState, Fs!Page
  <2> QED
    BY <2>1, SearchConcat DEF ScanState, Fs!Waiting
<1>2. \A d \in Range(Fs!Waiting) \ {Fs!Root} : index'[d] = "directory"
  <2>1. Range(Fs!Waiting) \subseteq Fs!Places
    BY <1>1, RangeOfSeq
  <2> QED
    BY <2>1, SearchOperators DEF ScanState, Fs!Frontier, Fs!InIndex, Fs!Places
<1>3. Fs!Apart(Fs!Waiting)
  BY DEF ScanState, Fs!Frontier
<1>4. Fs!Undisturbed => Sought(index', Fs!Waiting, steady', absent', loader_ignored')
  <2>1. Fs!Undisturbed => Sought(index, Fs!Waiting, steady, absent, loader_ignored)
    BY SearchFinds DEF ScanState, Fs!ScanInv
  <2> QED
    BY <2>1 DEF Sought
<1>5. CASE page = Nothing
  <2>1. Fs!StartNextSearchPage(pending_directories, complete, truncated, TRUE)
    BY <1>5 DEF Fs!RetryPage, Fs!StartNextSearchPage
  <2>2. Fs!Waiting = pending_directories
    BY <1>5 DEF Fs!Waiting
  <2>3. ~truncated /\ skipped_directories' = 0 /\ "page" \notin panicked' =>
          /\ Sought(index', pending_directories, steady', absent', loader_ignored')
          /\ complete => pending_directories = <<>>
    BY <1>4, <2>2 DEF Fs!Undisturbed, ScanState, Fs!ScanInv
  <2> QED
    BY <1>2, <1>3, <2>1, <2>2, <2>3, SearchIdle DEF ScanState, Fs!ScanInv
<1>6. CASE page # Nothing
  <2>1. UNCHANGED <<page, pending_directories, complete, truncated>>
    BY <1>6 DEF Fs!RetryPage, Fs!StartNextSearchPage, ScanState
  <2>2. Fs!Waiting' = Fs!Waiting /\ Fs!PageWaiting' = Fs!PageWaiting
        /\ Fs!Undisturbed' = Fs!Undisturbed
    BY <2>1 DEF Fs!Waiting, Fs!PageWaiting, Fs!Undisturbed
  <2>3. Fs!Frontier'
    BY <1>2, <1>3, <2>1, <2>2, SearchOperators DEF ScanState, Fs!Frontier, Fs!InIndex
  <2>4. Fs!ScanInv'
    <3>1. Fs!Undisturbed => Fs!Finds(index, Fs!Waiting)'
      BY <1>4, <2>2, SearchOperators DEF Fs!Finds, Sought
    <3>2. Fs!Finds(page.index, Fs!PageWaiting)' = Fs!Finds(page.index, Fs!PageWaiting)
      BY <2>1, <2>2 DEF Fs!Finds, Fs!VisibleTo
    <3> QED
      BY <2>1, <2>2, <3>1, <3>2 DEF ScanState, Fs!ScanInv
  <2>5. Fs!PageMatches'
    BY <2>1 DEF ScanState, Fs!PageMatches
  <2> QED
    BY <2>1, <2>3, <2>4, <2>5 DEF ScanState, Fs!RootedIndex
<1> QED
  BY <1>5, <1>6

(* The directories that a listing adds are apart from what is to be listed *)
(* already.                                                                *)
LEMMA SearchApart ==
  ASSUME Fs!PathsAssumption, NEW c \in Fs!Paths, NEW w \in Fs!Places,
         ~Fs!IsPrefix(w, Fs!Parent(c)), ~Fs!IsPrefix(Fs!Parent(c), w)
  PROVE  ~Fs!IsPrefix(c, w) /\ ~Fs!IsPrefix(w, c)
<1> DEFINE d == Fs!Parent(c)
<1>1. d \in Fs!Places /\ Fs!Below(c, d)
      /\ (Fs!Below(c, w) => w = d \/ Fs!Below(d, w))
  BY SearchParents
<1>2. c \in Seq(Nat) /\ w \in Seq(Nat) /\ d \in Seq(Nat)
  BY <1>1, SearchPathTypes
<1>3. ~Fs!Below(w, d) /\ ~Fs!Below(d, w) /\ w # d
  BY <1>2, SearchBelowIs
<1> HIDE DEF d
<1>4. ~Fs!IsPrefix(c, w)
  BY <1>1, <1>2, <1>3, SearchBelowIs
<1>5. ~Fs!IsPrefix(w, c)
  BY <1>1, <1>2, <1>3, SearchBelowIs
<1> QED
  BY <1>4, <1>5

LEMMA SearchSiblings ==
  ASSUME Fs!PathsAssumption, NEW b \in Folders, NEW c \in Folders, b # c,
         Fs!Parent(b) = Fs!Parent(c)
  PROVE  ~Fs!IsPrefix(b, c)
<1>1. b \in Fs!Places /\ b \in Fs!Paths /\ c \in Fs!Paths
  BY DEF Fs!Places, Fs!Paths
<1> SUFFICES ASSUME Fs!Below(c, b) PROVE FALSE
  BY <1>1, SearchPathTypes, SearchBelowIs
<1>2. b = Fs!Parent(c) \/ Fs!Below(Fs!Parent(c), b)
  BY <1>1, SearchParents
<1>3. Fs!Below(b, Fs!Parent(c)) /\ b \in Seq(Nat) /\ Fs!Parent(c) \in Seq(Nat)
  BY <1>1, SearchParents, SearchPathTypes
<1> QED
  BY <1>2, <1>3, SearchBelowIs

(* A listing of all that is in a directory and visible.                    *)
LEMMA SearchSoughtStays ==
  ASSUME Fs!SearchAssumption, NEW nodes \in Fs!Index, Fs!RootedIndex(nodes), Fs!RootedDisk,
         paths \subseteq Fs!Paths, steady \subseteq Files \cap paths, absent \subseteq Files \ paths,
         NEW d \in Fs!Places,
         NEW entries, entries = {p \in paths : Fs!Parent(p) = d /\ Fs!VisibleTo(loader_ignored, p)},
         NEW s, NEW w, Range(s) \subseteq {d} \cup Range(w), entries \cap Folders \subseteq Range(w),
         Sought(nodes, s, steady, absent, loader_ignored)
  PROVE  Sought(Fs!ListedNodes(nodes, d, entries), w, steady, absent, loader_ignored)
<1> DEFINE new == Fs!ListedNodes(nodes, d, entries)
<1>1. \A p \in Fs!Paths :
        new[p] = IF p \in entries THEN Fs!Kind(p)
                 ELSE IF Real(nodes, p) /\ GoneWith(nodes, d, entries, p) THEN Nothing
                 ELSE nodes[p]
  BY SearchLists
<1> HIDE DEF new
<1>2. /\ Fs!PathsAssumption /\ Fs!RulesAssumption /\ Folders \cap Files = {}
      /\ Nothing \notin {"directory", "file", "virtual"}
      /\ Folders \subseteq Fs!Paths /\ Files \subseteq Fs!Paths
      /\ Fs!Paths \subseteq Seq(Nat) /\ Fs!Places \subseteq Seq(Nat)
  BY SearchPathTypes DEF Fs!SearchAssumption, Fs!NoneAssumption, Fs!PathsAssumption
<1>3. ASSUME NEW f \in steady, Fs!VisibleTo(loader_ignored, f)
      PROVE  new[f] = "file" \/ \E e \in Range(w) : Fs!Below(f, e)
  <2>1. ASSUME NEW c \in Fs!Paths, Fs!Parent(c) = d, c = f \/ (c \in Folders /\ Fs!Below(f, c))
        PROVE  c \in entries
    <3>1. c \in paths
      BY <1>2, <2>1 DEF Fs!RootedDisk
    <3>2. Fs!VisibleTo(loader_ignored, c)
      BY <1>2, <1>3, <2>1, SearchHides
    <3> QED
      BY <2>1, <3>1, <3>2
  <2>2. f \in Files /\ f \in Fs!Paths /\ Fs!Kind(f) = "file"
    BY <1>2 DEF Fs!Kind
  <2>3. CASE nodes[f] = "file"
    <3>1. CASE f \in entries
      BY <1>1, <2>2, <3>1
    <3>2. CASE f \notin entries
      <4>1. ~GoneWith(nodes, d, entries, f)
        <5> SUFFICES ASSUME NEW r \in Fs!Paths \ entries, Fs!Parent(r) = d,
                            f = r \/ Fs!Below(f, r)
                     PROVE  FALSE
          BY DEF GoneWith
        <5>1. r # f => r \in Folders
          BY <1>2, <2>2, SearchAbove
        <5> QED
          BY <2>1, <5>1
      <4> QED
        BY <1>1, <2>2, <2>3, <3>2, <4>1
    <3> QED
      BY <3>1, <3>2
  <2>4. CASE nodes[f] # "file"
    <3>1. PICK e \in Range(s) : Fs!Below(f, e)
      BY <1>3, <2>4 DEF Sought
    <3>2. CASE e = d
      <4>1. PICK c \in Fs!Paths : /\ Fs!Parent(c) = d
                                  /\ c = f \/ (c \in Folders /\ Fs!Below(f, c))
        BY <1>2, <2>2, <3>1, <3>2, SearchChild
      <4>2. c \in entries
        BY <2>1, <4>1
      <4> QED
        BY <1>1, <2>2, <4>1, <4>2
    <3> QED
      BY <3>1, <3>2
  <2> QED
    BY <2>3, <2>4
<1>4. ASSUME NEW f \in absent, new[f] = "file"
      PROVE  \E e \in Range(w) : Fs!Below(f, e)
  <2>1. f \in Fs!Paths /\ f \notin entries /\ f \notin paths
    BY <1>2
  <2>2. nodes[f] = "file" /\ ~GoneWith(nodes, d, entries, f) /\ Real(nodes, f)
    BY <1>1, <1>2, <1>4, <2>1 DEF Real
  <2>3. PICK e \in Range(s) : Fs!Below(f, e)
    BY <2>2 DEF Sought
  <2>4. CASE e = d
    <3>1. PICK c \in Fs!Paths : /\ Fs!Parent(c) = d
                                /\ c = f \/ (c \in Folders /\ Fs!Below(f, c))
      BY <1>2, <2>1, <2>3, <2>4, SearchChild
    <3>2. c # f
      BY <2>1, <2>2, <3>1 DEF GoneWith
    <3>3. nodes[c] = "directory"
      BY <2>1, <2>2, <3>1, <3>2 DEF Fs!RootedIndex, Real
    <3>4. c \in entries
      BY <1>2, <2>2, <3>1, <3>2, <3>3 DEF GoneWith, Real
    <3> QED
      BY <3>1, <3>2, <3>4
  <2> QED
    BY <2>3, <2>4
<1> QED
  BY <1>3, <1>4 DEF Sought, new

(* What is read of a directory.                                            *)
LEMMA SearchReads ==
  ASSUME Fs!SearchAssumption, paths \subseteq Fs!Paths, NEW d, NEW room, NEW budget \in Nat,
         NEW r \in Fs!Readings(d, room, budget)
  PROVE  /\ r.entries \subseteq {p \in paths : /\ Fs!Parent(p) = d
                                               /\ Fs!VisibleTo(loader_ignored, p)}
         /\ r.examined \in Nat /\ r.truncated \in BOOLEAN
         /\ ~r.truncated => r.entries = {p \in paths : /\ Fs!Parent(p) = d
                                                       /\ Fs!VisibleTo(loader_ignored, p)}
<1> DEFINE all == {p \in paths : Fs!Parent(p) = d}
           Seen(read) == {p \in read : Fs!VisibleTo(loader_ignored, p)}
<1>1. PICK read \in SUBSET all, n \in Nat :
        r = [entries |-> Seen(read), examined |-> n, truncated |-> read # all]
  <2>1. \A read \in SUBSET all : Fs!Cardinality(read) \in Nat
    <3>1. IsFiniteSet(Fs!Paths)
      BY SearchPathTypes DEF Fs!SearchAssumption
    <3> QED
      BY <3>1, SearchOperators, FS_Subset, FS_CardinalityType
  <2>2. CASE r = [entries |-> Seen(all), examined |-> Fs!Cardinality(all), truncated |-> all # all]
    BY <2>1, <2>2
  <2>3. ASSUME NEW read \in SUBSET all,
               \/ r = [entries |-> Seen(read), examined |-> budget, truncated |-> read # all]
               \/ r = [entries |-> Seen(read), examined |-> Fs!Cardinality(read) + 1,
                       truncated |-> read # all]
        PROVE  \E q \in SUBSET all, n \in Nat :
                  r = [entries |-> Seen(q), examined |-> n, truncated |-> q # all]
    <3>1. Fs!Cardinality(read) + 1 \in Nat
      BY <2>1
    <3> QED
      BY <2>3, <3>1
  <2>4. \/ r = [entries |-> Seen(all), examined |-> Fs!Cardinality(all), truncated |-> all # all]
        \/ \E read \in SUBSET all :
             \/ r = [entries |-> Seen(read), examined |-> budget, truncated |-> read # all]
             \/ r = [entries |-> Seen(read), examined |-> Fs!Cardinality(read) + 1,
                     truncated |-> read # all]
    BY DEF Fs!Readings
  <2> QED
    BY <2>2, <2>3, <2>4
<1> QED
  BY <1>1

(* A listing keeps what is to be listed apart.                             *)
LEMMA SearchApartStays ==
  ASSUME Fs!PathsAssumption, NEW d \in Fs!Places, NEW w \in Seq(Fs!Places), Fs!Apart(w),
         \A a \in Range(w) : ~Fs!IsPrefix(a, d) /\ ~Fs!IsPrefix(d, a),
         NEW entries, \A c \in entries : c \in Fs!Paths /\ Fs!Parent(c) = d,
         NEW new, new = Fs!SetToSeq(entries \cap Folders)
  PROVE  /\ new \in Seq(Folders) /\ Range(new) = entries \cap Folders
         /\ Fs!Apart(w \o new)
<1> DEFINE S == entries \cap Folders
<1>1. IsFiniteSet(S)
  BY SearchPathTypes, FS_Subset
<1>2. new \in Seq(S) /\ Range(new) = S /\ \A i, j \in DOMAIN new : new[i] = new[j] => i = j
  <2>1. new = Fs!SetToSeq(S)
    OBVIOUS
  <2> HIDE DEF S
  <2> QED
    BY <1>1, <2>1, SearchInRow
<1>3. Folders \subseteq Fs!Places /\ Folders \subseteq Fs!Paths
  BY DEF Fs!Places, Fs!Paths
<1>4. new \in Seq(Folders) /\ new \in Seq(Fs!Places) /\ \A i \in DOMAIN new : new[i] \in S
  <2>1. S \subseteq Folders /\ S \subseteq Fs!Places
    BY <1>3
  <2> HIDE DEF S
  <2> QED
    BY ZenonT(60), <1>2, <2>1, SeqMonotonic, LenProperties
<1>5. Fs!Apart(new)
  <2> SUFFICES ASSUME NEW i \in DOMAIN new, NEW j \in DOMAIN new, i # j
               PROVE  ~Fs!IsPrefix(new[i], new[j])
    BY DEF Fs!Apart
  <2>1. new[i] # new[j] /\ new[i] \in S /\ new[j] \in S
    BY <1>2, <1>4
  <2> QED
    BY <2>1, SearchSiblings
<1>6. ASSUME NEW a \in Range(w), NEW b \in Range(new)
      PROVE  ~Fs!IsPrefix(a, b) /\ ~Fs!IsPrefix(b, a)
  <2>1. a \in Fs!Places
    BY RangeOfSeq
  <2>2. b \in Fs!Paths /\ Fs!Parent(b) = d
    BY <1>2
  <2> QED
    BY <2>1, <2>2, SearchApart
<1>7. Fs!Apart(w \o new)
  <2>1. new \in Seq(Fs!Places) /\ w \in Seq(Fs!Places) /\ Fs!Apart(w) /\ Fs!Apart(new)
    BY <1>4, <1>5
  <2> QED
    BY <1>6, <2>1, SearchConcat
<1> QED
  BY <1>2, <1>4, <1>7

(* What is to be listed while the page runs.                               *)
LEMMA SearchWaits ==
  ASSUME NEW S, NEW t \in Seq(S), NEW p \in Seq(S), NEW n \in Seq(S),
         NEW m \in Seq(S), t # <<>>, Fs!Apart(t \o (p \o n))
  PROVE  /\ Head(t) \in S /\ Tail(t) \in Seq(S)
         /\ p \o n \in Seq(S) /\ Tail(t) \o (p \o n) \in Seq(S)
         /\ Fs!Apart(p \o n) /\ Fs!Apart(Tail(t) \o (p \o n))
         /\ \A a \in Range(Tail(t) \o (p \o n)) : /\ ~Fs!IsPrefix(a, Head(t))
                                                  /\ ~Fs!IsPrefix(Head(t), a)
         /\ Range(t \o (p \o n)) = {Head(t)} \cup Range(Tail(t) \o (p \o n))
         /\ Range(p \o n) \subseteq Range(Tail(t) \o (p \o n))
         /\ Tail(t) \o (p \o (n \o m)) = (Tail(t) \o (p \o n)) \o m
         /\ <<>> \o (p \o n) = p \o n /\ <<>> \o (p \o (n \o m)) = (p \o n) \o m
<1> DEFINE r == p \o n
           h == Head(t)
           q == Tail(t)
<1>1. r \in Seq(S)
  BY SearchConcat
<1>2. /\ h \in S /\ q \in Seq(S) /\ Range(t) = {h} \cup Range(q)
      /\ Fs!Apart(t) => /\ Fs!Apart(q)
                        /\ \A a \in Range(q) : ~Fs!IsPrefix(a, h) /\ ~Fs!IsPrefix(h, a)
  BY SearchHeadTail
<1>3. p \o (n \o m) = r \o m /\ n \o m \in Seq(S) /\ r \o m \in Seq(S)
  BY <1>1, ConcatAssociative, ConcatProperties
<1>0. Fs!Apart(t \o r)
  OBVIOUS
<1> HIDE DEF r, h, q
<1>4. /\ Fs!Apart(t) /\ Fs!Apart(r) /\ Range(t \o r) = Range(t) \cup Range(r)
      /\ \A a \in Range(t), b \in Range(r) : ~Fs!IsPrefix(a, b) /\ ~Fs!IsPrefix(b, a)
  BY <1>0, <1>1, SearchConcat
<1>5. q \o r \in Seq(S) /\ Fs!Apart(q \o r) /\ Range(q \o r) = Range(q) \cup Range(r)
  BY <1>1, <1>2, <1>4, SearchConcat
<1>6. q \o (r \o m) = (q \o r) \o m
  BY <1>1, <1>2
<1>7. <<>> \o r = r /\ <<>> \o (r \o m) = r \o m
  BY <1>1, <1>3, ConcatEmptySeq
<1>8. \A a \in Range(q \o r) : ~Fs!IsPrefix(a, h) /\ ~Fs!IsPrefix(h, a)
  BY <1>2, <1>4, <1>5
<1>9. Range(t \o r) = {h} \cup Range(q \o r) /\ Range(r) \subseteq Range(q \o r)
  BY <1>2, <1>4, <1>5
<1> QED
  BY <1>1, <1>2, <1>3, <1>4, <1>5, <1>6, <1>7, <1>8, <1>9 DEF r, h, q

(* A page that goes on as long as its index is what it was.                *)
PageGoesOn(new, work) ==
  /\ page' = new /\ new \in Fs!Page /\ new.directories = page.directories
  /\ Fs!PageWaiting' = work /\ Fs!Apart(work)
  /\ \A d \in Range(work) \ {Fs!Root} : new.index[d] = "directory"
  /\ Fs!RootedIndex(new.index)
  /\ new.truncated => new.todo = <<>>
  /\ ~new.truncated /\ new.skipped = 0 =>
       /\ ~page.truncated /\ page.skipped = 0
       /\ Sought(page.index, Fs!PageWaiting, steady, absent, loader_ignored) =>
            Sought(new.index, work, steady, absent, loader_ignored)

LEMMA SearchGoesOn ==
  ASSUME Fs!SearchAssumption, ScanState, page # Nothing, NEW new, NEW work,
         PageGoesOn(new, work), Fs!PageMatches',
         UNCHANGED <<index, pending_directories, complete, truncated, skipped_directories,
                     panicked, steady, absent, loader_ignored>>
  PROVE  ScanState'
<1>1. page' # Nothing /\ page' \in Fs!Page /\ page'.directories = page.directories
  BY DEF PageGoesOn, Fs!SearchAssumption, Fs!NoneAssumption
<1>2. Fs!Waiting' = Fs!Waiting /\ Fs!Undisturbed' = Fs!Undisturbed /\ Fs!PageWaiting' = work
      /\ page' = new
  BY <1>1 DEF Fs!Waiting, Fs!Undisturbed, PageGoesOn
<1>3. Fs!Frontier'
  BY <1>2, SearchOperators DEF ScanState, Fs!Frontier, Fs!InIndex, PageGoesOn
<1>4. Fs!Finds(index, Fs!Waiting)' = Fs!Finds(index, Fs!Waiting)
  BY <1>2 DEF Fs!Finds, Fs!VisibleTo
<1>5. Fs!Undisturbed /\ ~new.truncated /\ new.skipped = 0 => Fs!Finds(page.index, Fs!PageWaiting)'
  <2> SUFFICES ASSUME Fs!Undisturbed, ~new.truncated, new.skipped = 0
               PROVE  Fs!Finds(page.index, Fs!PageWaiting)'
    OBVIOUS
  <2>1. ~page.truncated /\ page.skipped = 0
    BY DEF PageGoesOn
  <2>2. Sought(page.index, Fs!PageWaiting, steady, absent, loader_ignored)
    BY <2>1, SearchFinds DEF ScanState, Fs!ScanInv
  <2>3. Sought(new.index, work, steady, absent, loader_ignored)
    BY <2>2 DEF PageGoesOn
  <2> QED
    BY <1>2, <2>3, SearchOperators DEF Fs!Finds, Sought
<1>6. Fs!ScanInv'
  BY <1>1, <1>2, <1>4, <1>5 DEF ScanState, Fs!ScanInv, PageGoesOn
<1> QED
  BY <1>1, <1>2, <1>3, <1>6 DEF ScanState, PageGoesOn

(* What the job of a page knows of itself.                                 *)
LEMMA SearchPage ==
  ASSUME Fs!SearchAssumption, Fs!SearchInv, page # Nothing, page.todo # <<>>
  PROVE  /\ page \in Fs!Page /\ page.todo \in Seq(Fs!Places)
         /\ page.discovered \in Seq(Fs!Places) /\ Head(page.todo) \in Fs!Places
         /\ page.index \in Fs!Index /\ Fs!RootedIndex(page.index)
         /\ Fs!Apart(Fs!PageWaiting)
         /\ \A d \in Range(Fs!PageWaiting) \ {Fs!Root} : page.index[d] = "directory"
         /\ ScanState
<1>1. page \in Fs!Page
  BY DEF Fs!SearchInv, Fs!TypeOK
<1>2. Folders \subseteq Fs!Places
  BY DEF Fs!Places
<1>3. Seq(Folders) \subseteq Seq(Fs!Places)
  BY <1>2, SeqMonotonic
<1>4. /\ page.todo \in Seq(Fs!Places) /\ page.discovered \in Seq(Folders)
      /\ page.index \in Fs!Index
  BY <1>1 DEF Fs!Page
<1>5. Head(page.todo) \in Fs!Places
  BY <1>4, SearchHeadTail
<1>6. ScanState
  BY DEF ScanState, Fs!SearchInv, Fs!TypeOK
<1> QED
  BY <1>1, <1>3, <1>4, <1>5, <1>6, SearchOperators
  DEF Fs!SearchInv, Fs!Frontier, Fs!InIndex

(* The entries searched by the page follow what it lists.                  *)
LEMMA SearchPageMatches ==
  ASSUME Fs!SearchAssumption, Fs!PageMatches, page # Nothing, page \in Fs!Page,
         NEW d \in Fs!Places, NEW entries \in SUBSET {p \in Fs!Paths : Fs!Parent(p) = d},
         page'.index = Fs!ListedNodes(page.index, d, entries),
         page'.searchable = page.searchable,
         page'.found = page.found \cup entries, page'.listed = page.listed \cup {d}
  PROVE  Fs!PageMatches'
<1> DEFINE nodes == Fs!ListedNodes(page.index, d, entries)
<1>1. page.index \in Fs!Index /\ Files \subseteq Fs!Paths
  BY DEF Fs!Page, Fs!Paths
<1>2. \A f \in Files : Fs!Kind(f) = "file"
  BY DEF Fs!Kind, Fs!SearchAssumption, Fs!PathsAssumption
<1>3. ASSUME NEW f \in Files
      PROVE  /\ f \in page'.found => nodes[f] \in {Nothing, "file"}
             /\ f \notin page'.found =>
                   /\ nodes[f] \in {Nothing, page.searchable[f]}
                   /\ page.searchable[f] # "virtual" /\ Fs!Parent(f) \in page'.listed =>
                         nodes[f] = Nothing
  <2>1. nodes[f] = IF f \in entries THEN Fs!Kind(f)
                   ELSE IF Real(page.index, f) /\ GoneWith(page.index, d, entries, f) THEN Nothing
                   ELSE page.index[f]
    BY <1>1, SearchLists
  <2>2. /\ f \in page.found => page.index[f] \in {Nothing, "file"}
        /\ f \notin page.found =>
              /\ page.index[f] \in {Nothing, page.searchable[f]}
              /\ page.searchable[f] # "virtual" /\ Fs!Parent(f) \in page.listed =>
                    page.index[f] = Nothing
    BY DEF Fs!PageMatches
  <2>3. Fs!Parent(f) = d /\ f \notin entries => GoneWith(page.index, d, entries, f) \/ ~Real(page.index, f)
    BY <1>1 DEF GoneWith
  <2> HIDE DEF nodes
  <2> QED
    BY <1>2, <2>1, <2>2, <2>3 DEF Real
<1> HIDE DEF nodes
<1>4. nodes = page'.index
  BY DEF nodes
<1> QED
  BY <1>3, <1>4 DEF Fs!PageMatches

(* A page that gives up the rest, and one that passes over a directory.    *)
LEMMA SearchCutsShort ==
  ASSUME Fs!SearchAssumption, Fs!SearchInv, page # Nothing, page.todo # <<>>,
         page' = [page EXCEPT !.todo = <<>>, !.truncated = TRUE],
         UNCHANGED <<index, pending_directories, complete, truncated, skipped_directories,
                     panicked, steady, absent, loader_ignored>>
  PROVE  ScanState'
<1> DEFINE work == pending_directories \o page.discovered
           new == [page EXCEPT !.todo = <<>>, !.truncated = TRUE]
<1>1. /\ page \in Fs!Page /\ Fs!RootedIndex(page.index) /\ ScanState /\ Fs!Apart(Fs!PageWaiting)
      /\ page.todo \in Seq(Fs!Places) /\ page.discovered \in Seq(Fs!Places)
      /\ \A d \in Range(Fs!PageWaiting) \ {Fs!Root} : page.index[d] = "directory"
  BY SearchPage
<1>2. pending_directories \in Seq(Fs!Places)
  BY <1>1 DEF ScanState
<1>3. /\ Fs!Apart(work) /\ Range(work) \subseteq Range(Fs!PageWaiting) /\ <<>> \o work = work
  BY SMTT(30), <1>1, <1>2, SearchWaits DEF Fs!PageWaiting
<1>4. /\ new \in Fs!Page /\ new.index = page.index /\ new.directories = page.directories
      /\ new.todo = <<>> /\ new.discovered = page.discovered /\ new.truncated = TRUE
      /\ new.found = page.found /\ new.listed = page.listed /\ new.searchable = page.searchable
  <2>1. new \in Fs!Page
    BY <1>1, EmptySeq DEF Fs!Page
  <2> QED
    BY <1>1, <2>1 DEF Fs!Page
<1>5. page' = new
  OBVIOUS
<1> HIDE DEF new
<1>6. Fs!PageWaiting' = work
  BY <1>3, <1>4, <1>5 DEF Fs!PageWaiting
<1> HIDE DEF work
<1>7. PageGoesOn(new, work)
  BY <1>1, <1>3, <1>4, <1>5, <1>6 DEF PageGoesOn
<1>8. Fs!PageMatches'
  BY <1>1, <1>4, <1>5 DEF ScanState, Fs!PageMatches
<1> QED
  BY <1>1, <1>7, <1>8, SearchGoesOn

LEMMA SearchPassesOver ==
  ASSUME Fs!SearchAssumption, Fs!SearchInv, page # Nothing, page.todo # <<>>,
         page' = [page EXCEPT !.todo = Tail(@), !.skipped = @ + 1],
         UNCHANGED <<index, pending_directories, complete, truncated, skipped_directories,
                     panicked, steady, absent, loader_ignored>>
  PROVE  ScanState'
<1> DEFINE rest == Tail(page.todo)
           work == rest \o (pending_directories \o page.discovered)
           new == [page EXCEPT !.todo = rest, !.skipped = @ + 1]
<1>1. /\ page \in Fs!Page /\ Fs!RootedIndex(page.index) /\ ScanState /\ Fs!Apart(Fs!PageWaiting)
      /\ page.todo \in Seq(Fs!Places) /\ page.discovered \in Seq(Fs!Places)
      /\ \A d \in Range(Fs!PageWaiting) \ {Fs!Root} : page.index[d] = "directory"
  BY SearchPage
<1>2. pending_directories \in Seq(Fs!Places)
  BY <1>1 DEF ScanState
<1>3. /\ Fs!Apart(work) /\ Range(work) \subseteq Range(Fs!PageWaiting)
      /\ rest \in Seq(Fs!Places)
  BY <1>1, <1>2, SearchWaits DEF Fs!PageWaiting
<1>5. page' = new
  OBVIOUS
<1> HIDE DEF rest
<1>4. /\ new \in Fs!Page /\ new.index = page.index /\ new.directories = page.directories
      /\ new.todo = rest /\ new.discovered = page.discovered /\ new.skipped # 0
      /\ new.truncated = page.truncated
      /\ new.found = page.found /\ new.listed = page.listed /\ new.searchable = page.searchable
  <2>1. page.skipped \in Nat
    BY <1>1 DEF Fs!Page
  <2>2. page.skipped + 1 \in Nat /\ page.skipped + 1 # 0
    BY <2>1
  <2>3. new \in Fs!Page
    BY <1>1, <1>3, <2>2 DEF Fs!Page
  <2>4. new.skipped = page.skipped + 1
    BY <1>1 DEF Fs!Page
  <2> QED
    BY <1>1, <2>2, <2>3, <2>4 DEF Fs!Page
<1> HIDE DEF new
<1>6. Fs!PageWaiting' = work
  BY <1>4, <1>5 DEF Fs!PageWaiting
<1> HIDE DEF work
<1>7. PageGoesOn(new, work)
  <2>1. ~page.truncated
    BY <1>1 DEF ScanState, Fs!ScanInv
  <2> QED
    BY <1>1, <1>3, <1>4, <1>5, <1>6, <2>1 DEF PageGoesOn
<1>8. Fs!PageMatches'
  BY <1>1, <1>4, <1>5 DEF ScanState, Fs!PageMatches
<1> QED
  BY <1>1, <1>7, <1>8, SearchGoesOn

(* A page that lists a directory.                                          *)
LEMMA SearchListsOne ==
  ASSUME Fs!SearchAssumption, Fs!SearchInv, page # Nothing, page.todo # <<>>,
         NEW room, NEW budget \in Nat, NEW r \in Fs!Readings(Head(page.todo), room, budget),
         page' = [Fs!Add(Head(page.todo), r.entries) EXCEPT
                    !.todo = IF r.truncated THEN <<>> ELSE Tail(page.todo),
                    !.examined = @ + r.examined, !.truncated = r.truncated],
         UNCHANGED <<index, pending_directories, complete, truncated, skipped_directories,
                     panicked, steady, absent, loader_ignored>>
  PROVE  ScanState'
<1> DEFINE d == Head(page.todo)
           rest == Tail(page.todo)
           todo == IF r.truncated THEN <<>> ELSE rest
           more == Fs!SetToSeq(r.entries \cap Folders)
           nodes == Fs!ListedNodes(page.index, d, r.entries)
           w == todo \o (pending_directories \o page.discovered)
           work == w \o more
           new == page'
<1>1. /\ page \in Fs!Page /\ Fs!RootedIndex(page.index) /\ ScanState /\ Fs!Apart(Fs!PageWaiting)
      /\ page.todo \in Seq(Fs!Places) /\ page.discovered \in Seq(Fs!Places) /\ d \in Fs!Places
      /\ page.index \in Fs!Index
      /\ \A e \in Range(Fs!PageWaiting) \ {Fs!Root} : page.index[e] = "directory"
  BY SearchPage
<1>2. /\ pending_directories \in Seq(Fs!Places) /\ Fs!PathsAssumption
      /\ paths \subseteq Fs!Paths /\ Fs!RootedDisk
      /\ steady \subseteq Files \cap paths /\ absent \subseteq Files \ paths
  BY <1>1 DEF ScanState, Fs!SearchInv, Fs!TypeOK, Fs!SearchAssumption
<1>3. /\ r.entries \in SUBSET {p \in Fs!Paths : Fs!Parent(p) = d}
      /\ r.examined \in Nat /\ r.truncated \in BOOLEAN
      /\ ~r.truncated => r.entries = {p \in paths : /\ Fs!Parent(p) = d
                                                    /\ Fs!VisibleTo(loader_ignored, p)}
  BY <1>2, SearchReads
<1>4. /\ w \in Seq(Fs!Places) /\ Fs!Apart(w) /\ Range(w) \subseteq Range(Fs!PageWaiting)
      /\ \A a \in Range(w) : ~Fs!IsPrefix(a, d) /\ ~Fs!IsPrefix(d, a)
      /\ ~r.truncated => Range(Fs!PageWaiting) = {d} \cup Range(w)
      /\ todo \in Seq(Fs!Places) /\ d \in Range(Fs!PageWaiting)
  <2>1. /\ d \in Fs!Places /\ rest \in Seq(Fs!Places)
        /\ pending_directories \o page.discovered \in Seq(Fs!Places)
        /\ rest \o (pending_directories \o page.discovered) \in Seq(Fs!Places)
        /\ Fs!Apart(pending_directories \o page.discovered)
        /\ Fs!Apart(rest \o (pending_directories \o page.discovered))
        /\ \A a \in Range(rest \o (pending_directories \o page.discovered)) :
             ~Fs!IsPrefix(a, d) /\ ~Fs!IsPrefix(d, a)
        /\ Range(Fs!PageWaiting)
             = {d} \cup Range(rest \o (pending_directories \o page.discovered))
        /\ Range(pending_directories \o page.discovered)
             \subseteq Range(rest \o (pending_directories \o page.discovered))
        /\ <<>> \o (pending_directories \o page.discovered)
             = pending_directories \o page.discovered
    <3>1. Fs!Apart(page.todo \o (pending_directories \o page.discovered))
      BY <1>1 DEF Fs!PageWaiting
    <3> QED
      BY <1>1, <1>2, <3>1, SearchWaits DEF Fs!PageWaiting
  <2>2. CASE r.truncated
    <3>1. w = pending_directories \o page.discovered
      BY <2>1, <2>2
    <3>2. todo = <<>>
      BY <2>2
    <3> HIDE DEF w, todo, d, rest
    <3> QED
      BY <2>1, <2>2, <3>1, <3>2, EmptySeq
  <2>3. CASE ~r.truncated
    <3>1. w = rest \o (pending_directories \o page.discovered) /\ todo = rest
      BY <2>3
    <3> HIDE DEF w, todo, d, rest
    <3> QED
      BY <2>1, <2>3, <3>1
  <2> QED
    BY <2>2, <2>3
<1> HIDE DEF d, rest
<1>5. /\ more \in Seq(Folders) /\ Range(more) = r.entries \cap Folders
      /\ Fs!Apart(work) /\ Range(work) = Range(w) \cup (r.entries \cap Folders)
  <2> DEFINE e == r.entries
  <2>1. \A c \in e : c \in Fs!Paths /\ Fs!Parent(c) = d
    BY <1>3
  <2>2. more = Fs!SetToSeq(e \cap Folders)
    OBVIOUS
  <2> HIDE DEF w, e, more
  <2>3. /\ more \in Seq(Folders) /\ Range(more) = e \cap Folders
        /\ Fs!Apart(w \o more) /\ Range(w \o more) = Range(w) \cup (e \cap Folders)
    <3>1. Fs!PathsAssumption /\ d \in Fs!Places /\ w \in Seq(Fs!Places) /\ Fs!Apart(w)
      BY <1>1, <1>2, <1>4
    <3>2. \A a \in Range(w) : ~Fs!IsPrefix(a, d) /\ ~Fs!IsPrefix(d, a)
      BY <1>4
    <3>3. more \in Seq(Folders)
      BY <2>1, <2>2, <3>1, <3>2, SearchApartStays
    <3>4. Range(more) = e \cap Folders
      BY <2>1, <2>2, <3>1, <3>2, SearchApartStays
    <3>5. Fs!Apart(w \o more)
      BY <2>1, <2>2, <3>1, <3>2, SearchApartStays
    <3>6. Range(w \o more) = Range(w) \cup (e \cap Folders)
      <4>1. more \in Seq(Fs!Places) /\ w \in Seq(Fs!Places)
        BY <3>1, <3>3, SeqMonotonic DEF Fs!Places
      <4>2. Range(w \o more) = Range(w) \cup Range(more)
        BY <4>1, SearchConcat
      <4> QED
        BY <3>4, <4>2
    <3> QED
      BY <3>3, <3>4, <3>5, <3>6
  <2> QED
    BY <2>3 DEF e
<1>6. /\ nodes \in Fs!Index /\ Fs!RootedIndex(nodes)
      /\ \A e \in Folders : page.index[e] = "directory" /\ ~Fs!Below(e, d) =>
           nodes[e] = "directory"
  BY <1>1, <1>3, <1>4, SearchListing
<1> HIDE DEF nodes
<1>7. \A e \in Range(work) \ {Fs!Root} : nodes[e] = "directory"
  <2> SUFFICES ASSUME NEW e \in Range(work) \ {Fs!Root}
               PROVE  nodes[e] = "directory"
    OBVIOUS
  <2>1. CASE e \in Range(w)
    <3>1. e \in Folders
      <4> HIDE DEF w
      <4>1. e \in Fs!Places
        BY <1>4, <2>1, RangeOfSeq
      <4> QED
        BY <4>1 DEF Fs!Places
    <3>2. page.index[e] = "directory"
      BY <1>1, <1>4, <2>1
    <3>3. ~Fs!Below(e, d)
      BY <1>4, <2>1 DEF Fs!Below, Fs!IsStrictPrefix
    <3> QED
      BY <1>6, <3>1, <3>2, <3>3
  <2>2. CASE e \in r.entries \cap Folders
    BY <1>1, <1>3, <2>2, SearchLists DEF nodes, Fs!Kind, Fs!Paths
  <2> QED
    BY <1>5, <2>1, <2>2
<1>8. /\ new \in Fs!Page /\ new # Nothing /\ new.index = nodes /\ new.todo = todo
      /\ new.directories = page.directories /\ new.discovered = page.discovered \o more
      /\ new.found = page.found \cup r.entries /\ new.listed = page.listed \cup {d}
      /\ new.searchable = page.searchable /\ new.truncated = r.truncated
      /\ new.skipped = page.skipped
  <2> DEFINE one == Fs!Add(d, r.entries)
             at == Fs!RestoreSelection(nodes, page.selection)
  <2>1. one = [page EXCEPT !.index = nodes, !.selection = at,
                           !.discovered = page.discovered \o more,
                           !.listed = page.listed \cup {d},
                           !.found = page.found \cup r.entries,
                           !.scanned = page.scanned + Fs!Cardinality(r.entries)]
    BY <1>1 DEF Fs!Add, Fs!Page, nodes
  <2>2. at \in Fs!Paths \cup {Nothing}
    BY <1>1, <1>2, SearchSelects DEF Fs!Page
  <2>3. page.scanned + Fs!Cardinality(r.entries) \in Nat
    <3>1. IsFiniteSet(r.entries)
      BY <1>2, <1>3, SearchPathTypes, FS_Subset
    <3> QED
      BY <1>1, <3>1, SearchOperators, FS_CardinalityType DEF Fs!Page
  <2>4. page.discovered \o more \in Seq(Folders)
    BY <1>1, <1>5, ConcatProperties DEF Fs!Page
  <2>5. page.examined + r.examined \in Nat
    BY <1>1, <1>3 DEF Fs!Page
  <2>6. page.listed \cup {d} \in SUBSET Fs!Places /\ page.found \cup r.entries \in SUBSET Fs!Paths
    BY <1>1, <1>3 DEF Fs!Page
  <2>7. page' = [one EXCEPT !.todo = todo, !.examined = one.examined + r.examined,
                            !.truncated = r.truncated]
    BY DEF d, rest
  <2> DEFINE n == page.scanned + Fs!Cardinality(r.entries)
             x == page.examined + r.examined
             found == page.found \cup r.entries
             listed == page.listed \cup {d}
             discovered == page.discovered \o more
  <2> HIDE DEF one, at, n, x, found, listed, discovered, todo, more
  <2>8. one = [page EXCEPT !.index = nodes, !.selection = at, !.discovered = discovered,
                           !.listed = listed, !.found = found, !.scanned = n]
    BY <2>1 DEF n, found, listed, discovered
  <2>9. /\ at \in Fs!Paths \cup {Nothing} /\ n \in Nat /\ discovered \in Seq(Folders)
        /\ x \in Nat /\ listed \in SUBSET Fs!Places /\ found \in SUBSET Fs!Paths
    BY <2>2, <2>3, <2>4, <2>5, <2>6 DEF n, x, found, listed, discovered
  <2>10. one \in Fs!Page /\ one.examined = page.examined
    BY <1>1, <1>6, <2>8, <2>9 DEF Fs!Page
  <2>11. one.examined + r.examined = x
    BY <2>10 DEF x
  <2>12. page' = [one EXCEPT !.todo = todo, !.examined = x, !.truncated = r.truncated]
    BY <2>7, <2>11
  <2>13. new \in Fs!Page
    BY <1>3, <1>4, <2>9, <2>10, <2>12 DEF Fs!Page
  <2>14. /\ one.index = nodes /\ one.directories = page.directories
         /\ one.discovered = discovered /\ one.found = found /\ one.listed = listed
         /\ one.searchable = page.searchable /\ one.skipped = page.skipped
    BY <1>1, <2>8 DEF Fs!Page
  <2>15. /\ new.index = nodes /\ new.todo = todo /\ new.directories = page.directories
         /\ new.discovered = discovered /\ new.found = found /\ new.listed = listed
         /\ new.searchable = page.searchable /\ new.truncated = r.truncated
         /\ new.skipped = page.skipped
    BY <2>10, <2>12, <2>14 DEF Fs!Page
  <2> QED
    BY <2>13, <2>15 DEF discovered, found, listed, Fs!SearchAssumption, Fs!NoneAssumption
<1> HIDE DEF more, todo
<1>9. Fs!PageWaiting' = work
  <2>1. more \in Seq(Fs!Places)
    BY <1>5, SeqMonotonic DEF Fs!Places
  <2>2. todo \o (pending_directories \o (page.discovered \o more))
          = (todo \o (pending_directories \o page.discovered)) \o more
    <3>1. /\ todo \in Seq(Fs!Places) /\ pending_directories \in Seq(Fs!Places)
          /\ page.discovered \in Seq(Fs!Places)
      BY <1>1, <1>2, <1>4
    <3> DEFINE P == Fs!Places
               p == pending_directories
               n == page.discovered
    <3>2. todo \in Seq(P) /\ p \in Seq(P) /\ n \in Seq(P) /\ more \in Seq(P)
      BY <2>1, <3>1
    <3> HIDE DEF P, p, n
    <3>3. todo \o (p \o (n \o more)) = (todo \o (p \o n)) \o more
      <4> DEFINE all == p \o n
      <4>1. p \o (n \o more) = all \o more /\ all \in Seq(P)
        BY <3>2
      <4> HIDE DEF all
      <4>2. todo \o (all \o more) = (todo \o all) \o more
        <5>1. todo \in Seq(P) /\ all \in Seq(P) /\ more \in Seq(P)
          BY <3>2, <4>1
        <5> QED
          BY <5>1
      <4> QED
        BY <4>1, <4>2 DEF all
    <3> QED
      BY <3>3 DEF p, n
  <2> QED
    BY <1>8, <2>2 DEF Fs!PageWaiting
<1> HIDE DEF work
<1>10. ~r.truncated /\ Sought(page.index, Fs!PageWaiting, steady, absent, loader_ignored) =>
         Sought(nodes, work, steady, absent, loader_ignored)
  <2> SUFFICES ASSUME ~r.truncated,
                      Sought(page.index, Fs!PageWaiting, steady, absent, loader_ignored)
               PROVE  Sought(nodes, work, steady, absent, loader_ignored)
    OBVIOUS
  <2> DEFINE e == r.entries
             s == Fs!PageWaiting
  <2>1. Range(s) \subseteq {d} \cup Range(work) /\ e \cap Folders \subseteq Range(work)
    BY <1>4, <1>5
  <2>2. e = {p \in paths : Fs!Parent(p) = d /\ Fs!VisibleTo(loader_ignored, p)}
    BY <1>3
  <2>3. Sought(page.index, s, steady, absent, loader_ignored)
    OBVIOUS
  <2>4. nodes = Fs!ListedNodes(page.index, d, e)
    BY DEF nodes
  <2> HIDE DEF e, s
  <2> QED
    BY <1>1, <1>2, <2>1, <2>2, <2>3, <2>4, SearchSoughtStays
<1>11. PageGoesOn(new, work)
  <2>1. ~page.truncated
    BY <1>1 DEF ScanState, Fs!ScanInv
  <2>2. r.truncated => todo = <<>>
    BY DEF todo
  <2> QED
    BY <1>1, <1>5, <1>6, <1>7, <1>8, <1>9, <1>10, <2>1, <2>2 DEF PageGoesOn
<1>12. Fs!PageMatches'
  BY <1>1, <1>3, <1>8, SearchPageMatches DEF ScanState, nodes
<1> QED
  BY <1>1, <1>11, <1>12, SearchGoesOn

(* One directory of the page that runs.                                    *)
LEMMA SearchLoads ==
  ASSUME Fs!SearchAssumption, Fs!SearchInv, Fs!LoadOne
  PROVE  Fs!SearchInv'
<1> DEFINE d == Head(page.todo)
           room == limit.entries - scanned_entries - page.scanned
           budget == limit.examined - examined_entries - page.examined
<1>1. /\ page # Nothing /\ page.todo # <<>>
      /\ UNCHANGED <<index, pending_directories, complete, truncated, skipped_directories,
                     panicked, steady, absent, loader_ignored>>
      /\ UNCHANGED <<paths, edits, showing, virtual, reloading, active, begun, editing, query,
                     selection, searchable, matches, scanned_entries, examined_entries,
                     projection_requested, projection_applied, projection, limit, queue_full,
                     keys>>
  BY DEF Fs!LoadOne, Fs!disk, Fs!tree, Fs!typed, Fs!indexed, Fs!counts, Fs!shown, Fs!ghosts
<1>2. failures' \in Nat
  <2>1. UNCHANGED failures \/ Fs!Fault
    BY DEF Fs!LoadOne
  <2> QED
    BY <2>1 DEF Fs!Fault, Fs!SearchInv, Fs!TypeOK
<1>3. budget > 0 => budget \in Nat
  <2>1. page \in Fs!Page /\ examined_entries \in Nat /\ limit.examined \in Nat
    BY <1>1 DEF Fs!SearchInv, Fs!TypeOK, Fs!SearchAssumption, Fs!LimitsAssumption
  <2>2. page.examined \in Nat
    BY <2>1 DEF Fs!Page
  <2> QED
    BY <2>1, <2>2
<1>4. \/ page' = [page EXCEPT !.todo = <<>>, !.truncated = TRUE]
      \/ page' = [page EXCEPT !.todo = Tail(@), !.skipped = @ + 1]
      \/ /\ budget > 0
         /\ \E r \in Fs!Readings(d, room, budget) :
              page' = [Fs!Add(d, r.entries) EXCEPT
                         !.todo = IF r.truncated THEN <<>> ELSE Tail(@),
                         !.examined = @ + r.examined, !.truncated = r.truncated]
  BY DEF Fs!LoadOne
<1>5. ScanState'
  <2>1. CASE page' = [page EXCEPT !.todo = <<>>, !.truncated = TRUE]
    BY <1>1, <2>1, SearchCutsShort
  <2>2. CASE page' = [page EXCEPT !.todo = Tail(@), !.skipped = @ + 1]
    BY <1>1, <2>2, SearchPassesOver
  <2>3. ASSUME budget > 0, NEW r \in Fs!Readings(d, room, budget),
               page' = [Fs!Add(d, r.entries) EXCEPT
                          !.todo = IF r.truncated THEN <<>> ELSE Tail(@),
                          !.examined = @ + r.examined, !.truncated = r.truncated]
        PROVE  ScanState'
    <3>1. page' = [Fs!Add(d, r.entries) EXCEPT
                     !.todo = IF r.truncated THEN <<>> ELSE Tail(page.todo),
                     !.examined = @ + r.examined, !.truncated = r.truncated]
      <4>1. Fs!Add(d, r.entries).todo = page.todo
        BY <1>1 DEF Fs!Add, Fs!Page, Fs!SearchInv, Fs!TypeOK
      <4> QED
        BY <2>3, <4>1
    <3>2. budget \in Nat
      BY <1>3, <2>3
    <3> HIDE DEF room, budget
    <3> QED
      BY <1>1, <2>3, <3>1, <3>2, SearchListsOne
  <2> QED
    BY <1>4, <2>1, <2>2, <2>3
<1>6. Fs!TypeOK' /\ (page' # Nothing => Fs!RootedIndex(page.index)')
  BY <1>1, <1>2, <1>5 DEF ScanState, Fs!SearchInv, Fs!TypeOK, Fs!RootedIndex
<1>7. /\ Fs!RootedDisk' /\ Fs!RootedIndex(index)' /\ steady' \subseteq paths'
      /\ absent' \cap paths' = {} /\ Fs!Awaits' /\ Fs!ResultsMatch' /\ (editing' => begun')
  BY <1>1 DEF Fs!SearchInv, Fs!RootedDisk, Fs!RootedIndex, Fs!Awaits, Fs!ResultsMatch, Fs!Active
<1> QED
  BY <1>5, <1>6, <1>7 DEF ScanState, Fs!SearchInv

(* What is searched, and what is projected of it.                          *)
ViewState ==
  /\ Fs!Awaits /\ Fs!ResultsMatch /\ projection \in Fs!Projection \cup {Nothing}
  /\ projection_requested \in BOOLEAN /\ projection_applied \in BOOLEAN /\ matches \subseteq Files

LEMMA SearchQueues ==
  ASSUME Fs!SearchAssumption, ViewState, Fs!QueueProjection,
         searchable' = [f \in Files |-> index'[f]], index' \in Fs!Index,
         query' \in Seq(Letters), query' # <<>> => begun',
         query' = <<>> => query = <<>>, matches' \subseteq Files
  PROVE  ViewState'
<1>1. searchable' \in Fs!Searchable
  BY SearchPathTypes DEF Fs!Index, Fs!Searchable, Fs!SearchAssumption
<1>2. CASE query' # <<>>
  <2> DEFINE now == [searchable |-> searchable', query |-> query']
  <2>1. /\ projection_applied' = FALSE /\ projection_requested' \in BOOLEAN
        /\ \/ projection' = now /\ projection_requested' = FALSE
           \/ projection' = Nothing
    BY <1>2 DEF Fs!QueueProjection, Fs!StartNextProjection
  <2>2. now \in Fs!Projection
    BY <1>1 DEF Fs!Projection
  <2> QED
    BY <1>2, <2>1, <2>2 DEF ViewState, Fs!Awaits, Fs!ResultsMatch, Fs!Active
<1>3. CASE query' = <<>>
  <2>1. projection = Nothing /\ projection_requested = FALSE
    BY <1>3 DEF ViewState, Fs!Awaits, Fs!Active
  <2>2. UNCHANGED <<projection, projection_requested, projection_applied>>
    BY <1>3, <2>1 DEF Fs!QueueProjection, Fs!RetryProjection, Fs!StartNextProjection
  <2> QED
    BY <1>3, <2>1, <2>2 DEF ViewState, Fs!Awaits, Fs!ResultsMatch, Fs!Active
<1> QED
  BY <1>2, <1>3

LEMMA SearchProjects ==
  ASSUME Fs!SearchAssumption, ViewState, Fs!RetryProjection,
         searchable = [f \in Files |-> index[f]], index \in Fs!Index, query \in Seq(Letters),
         UNCHANGED <<begun, query, index, selection, searchable, matches, projection_applied>>,
         "projection" \in panicked' <=> "projection" \in panicked
  PROVE  ViewState'
<1>1. searchable \in Fs!Searchable
  BY SearchPathTypes DEF Fs!Index, Fs!Searchable, Fs!SearchAssumption
<1>2. Fs!ResultsMatch'
  BY DEF ViewState, Fs!ResultsMatch, Fs!Active, Fs!Matching
<1> DEFINE now == [searchable |-> searchable', query |-> query']
<1>3. now \in Fs!Projection
  BY <1>1 DEF Fs!Projection
<1>4. \/ /\ projection' = now /\ projection_requested' = FALSE /\ query # <<>>
         /\ projection_requested
      \/ UNCHANGED <<projection, projection_requested>>
  BY DEF Fs!RetryProjection, Fs!StartNextProjection, ViewState
<1>5. CASE projection' = now /\ projection_requested' = FALSE /\ query # <<>>
  BY <1>2, <1>3, <1>5 DEF ViewState, Fs!Awaits, Fs!Active
<1>6. CASE UNCHANGED <<projection, projection_requested>>
  BY <1>2, <1>6 DEF ViewState, Fs!Awaits, Fs!Active
<1> QED
  BY <1>4, <1>5, <1>6

(* Nothing of what is projected changes.                                   *)
LEMMA SearchRests ==
  ASSUME ViewState, "projection" \in panicked' <=> "projection" \in panicked,
         UNCHANGED <<begun, query, index, searchable, selection, matches, projection_requested,
                     projection_applied, projection>>
  PROVE  ViewState'
<1>1. Fs!ResultsMatch'
  BY DEF ViewState, Fs!ResultsMatch, Fs!Active, Fs!Matching
<1> QED
  BY <1>1 DEF ViewState, Fs!Awaits, Fs!Active

(* The invariant is what is said of the scan, of what is projected, and of *)
(* the rest.                                                               *)
Elsewhere ==
  /\ paths \subseteq Fs!Paths /\ limit \in Limits
  /\ showing \in BOOLEAN /\ virtual \subseteq Tracked /\ reloading \in BOOLEAN
  /\ active \in BOOLEAN /\ begun \in BOOLEAN
  /\ editing \in BOOLEAN /\ query \in Seq(Letters) /\ loader_ignored \in BOOLEAN
  /\ index \in Fs!Index /\ selection \in Fs!Paths \cup {Nothing}
  /\ searchable = [f \in Files |-> index[f]]
  /\ scanned_entries \in Nat /\ examined_entries \in Nat /\ skipped_directories \in Nat
  /\ queue_full \in BOOLEAN /\ steady \subseteq Files /\ absent \subseteq Files
  /\ panicked \subseteq {"page", "projection"}
  /\ edits \in Nat /\ keys \in Nat /\ failures \in Nat
  /\ Fs!RootedDisk /\ Fs!RootedIndex(index)
  /\ steady \subseteq paths /\ absent \cap paths = {} /\ (editing => begun)

LEMMA SearchInvIs == Fs!SearchInv <=> Elsewhere /\ ScanState /\ ViewState
BY DEF Fs!SearchInv, Fs!TypeOK, Elsewhere, ScanState, ViewState

LEMMA SearchPageEnds ==
  ASSUME Fs!SearchAssumption, Fs!SearchInv, Fs!CompletePage
  PROVE  Fs!SearchInv'
<1> DEFINE pending == pending_directories \o page.discovered
           s == IF page.truncated THEN <<>> ELSE pending
           done == page.truncated \/ pending = <<>>
           now == Fs!PageSearchable(page.index)
<1>1. Elsewhere /\ ScanState /\ ViewState
  BY SearchInvIs
<1>2. /\ page # Nothing /\ page.todo = <<>> /\ index' = page.index /\ selection' = page.selection
      /\ searchable' = now
      /\ scanned_entries' = scanned_entries + page.scanned
      /\ examined_entries' = examined_entries + page.examined
      /\ skipped_directories' = skipped_directories + page.skipped
      /\ UNCHANGED <<paths, edits, showing, virtual, reloading, active, begun, editing, query,
                     loader_ignored, matches, steady, absent, panicked, limit, queue_full, keys,
                     failures>>
      /\ Fs!QueueProjection
      /\ Fs!StartNextSearchPage(s, done, page.truncated, TRUE)
  BY DEF Fs!CompletePage, Fs!disk, Fs!tree, Fs!typed, Fs!ghosts, Fs!environment
<1>3. page \in Fs!Page
  BY <1>1, <1>2 DEF ScanState
<1>4. /\ page.index \in Fs!Index /\ page.selection \in Fs!Paths \cup {Nothing}
      /\ page.searchable \in Fs!Searchable /\ page.discovered \in Seq(Folders)
      /\ page.scanned \in Nat /\ page.examined \in Nat /\ page.skipped \in Nat
      /\ page.truncated \in BOOLEAN
  BY <1>3 DEF Fs!Page
<1>5. searchable' = [f \in Files |-> index'[f]]
  <2>1. ASSUME NEW f \in Files
        PROVE  now[f] = page.index[f]
    <3>1. now[f] = IF page.index[f] = Nothing THEN Nothing
                   ELSE IF f \in page.found THEN "file"
                   ELSE IF page.searchable[f] # "virtual" /\ Fs!Parent(f) \in page.listed
                   THEN Nothing ELSE page.searchable[f]
      BY DEF Fs!PageSearchable
    <3>2. /\ f \in page.found => page.index[f] \in {Nothing, "file"}
          /\ f \notin page.found =>
                /\ page.index[f] \in {Nothing, page.searchable[f]}
                /\ page.searchable[f] # "virtual" /\ Fs!Parent(f) \in page.listed =>
                      page.index[f] = Nothing
      BY <1>1, <1>2 DEF ScanState, Fs!PageMatches
    <3> HIDE DEF now
    <3> QED
      BY <3>1, <3>2
  <2>2. now = [f \in Files |-> now[f]]
    BY DEF Fs!PageSearchable
  <2> HIDE DEF now
  <2> QED
    BY <1>2, <2>1, <2>2
<1> HIDE DEF now
<1>6. /\ pending \in Seq(Fs!Places) /\ Fs!PageWaiting = pending /\ Fs!Apart(pending)
      /\ \A d \in Range(pending) \ {Fs!Root} : page.index[d] = "directory"
      /\ Fs!RootedIndex(page.index)
  <2>1. Seq(Folders) \subseteq Seq(Fs!Places)
    BY SeqMonotonic DEF Fs!Places
  <2>2. pending \in Seq(Fs!Places)
    BY <1>1, <1>4, <2>1, ConcatProperties DEF ScanState
  <2>3. <<>> \o pending = pending
    <3> HIDE DEF pending
    <3> QED
      BY <2>2, ConcatEmptySeq
  <2>4. Fs!PageWaiting = pending
    BY <1>2, <2>3 DEF Fs!PageWaiting
  <2> QED
    BY <1>1, <1>2, <2>2, <2>4, SearchOperators DEF ScanState, Fs!Frontier, Fs!InIndex
<1>7. ~page.truncated /\ skipped_directories' = 0 /\ "page" \notin panicked' =>
        Sought(page.index, pending, steady, absent, loader_ignored)
  <2> SUFFICES ASSUME ~page.truncated, skipped_directories' = 0, "page" \notin panicked'
               PROVE  Sought(page.index, pending, steady, absent, loader_ignored)
    OBVIOUS
  <2>1. skipped_directories = 0 /\ page.skipped = 0
    <3>1. skipped_directories \in Nat /\ skipped_directories + page.skipped = 0
      BY <1>1, <1>2 DEF Elsewhere
    <3> QED
      BY <1>4, <3>1
  <2>2. ~truncated /\ "page" \notin panicked
    BY <1>1, <1>2 DEF ScanState, Fs!ScanInv
  <2>3. Fs!Finds(page.index, Fs!PageWaiting)
    BY <1>1, <1>2, <2>1, <2>2 DEF ScanState, Fs!ScanInv, Fs!Undisturbed
  <2> QED
    BY <1>6, <2>3, SearchFinds
<1> HIDE DEF pending
<1>8. /\ s \in Seq(Fs!Places) /\ done \in BOOLEAN /\ Fs!Apart(s)
      /\ \A d \in Range(s) \ {Fs!Root} : page.index[d] = "directory"
      /\ ~page.truncated /\ skipped_directories' = 0 /\ "page" \notin panicked' =>
           Sought(page.index, s, steady, absent, loader_ignored) /\ (done => s = <<>>)
  <2>1. CASE page.truncated
    BY <2>1, SearchNone, EmptySeq
  <2>2. CASE ~page.truncated
    BY <1>6, <1>7, <2>2
  <2> QED
    BY <1>4, <2>1, <2>2
<1>9. page.truncated => done
  OBVIOUS
<1> HIDE DEF s, done
<1>10. Fs!RootedIndex(index')
  BY <1>2, <1>6 DEF Fs!RootedIndex
<1>11. ScanState'
  BY <1>2, <1>4, <1>5, <1>8, <1>9, <1>10, SearchIdle
<1>12. ViewState'
  <2>1. query \in Seq(Letters) /\ (query # <<>> => begun) /\ matches \subseteq Files
    BY <1>1 DEF Elsewhere, ViewState, Fs!Awaits, Fs!Active
  <2> QED
    BY <1>1, <1>2, <1>4, <1>5, <2>1, SearchQueues
<1>13. Elsewhere'
  <2>1. /\ scanned_entries' \in Nat /\ examined_entries' \in Nat /\ skipped_directories' \in Nat
    <3>1. scanned_entries \in Nat /\ examined_entries \in Nat /\ skipped_directories \in Nat
      BY <1>1 DEF Elsewhere
    <3> QED
      BY <1>2, <1>4, <3>1
  <2> QED
    BY <1>1, <1>2, <1>4, <1>5, <1>10, <2>1 DEF Elsewhere, Fs!RootedDisk, Fs!RootedIndex
<1> QED
  BY <1>11, <1>12, <1>13, SearchInvIs DEF Elsewhere, ScanState, ViewState, Fs!SearchInv, Fs!TypeOK

LEMMA SearchPagePanics ==
  ASSUME Fs!SearchAssumption, Fs!SearchInv, Fs!PagePanics
  PROVE  Fs!SearchInv'
<1>1. Elsewhere /\ ScanState /\ ViewState
  BY SearchInvIs
<1>2. /\ page # Nothing /\ panicked' = panicked \cup {"page"} /\ failures' = failures + 1
      /\ UNCHANGED <<paths, edits, showing, virtual, reloading, active, begun, editing, query,
                     loader_ignored, index, selection, searchable, matches, projection_applied,
                     scanned_entries, examined_entries, skipped_directories, steady, absent,
                     limit, queue_full, keys>>
      /\ Fs!StartNextSearchPage(pending_directories, TRUE, truncated, TRUE)
      /\ Fs!RetryProjection
  BY DEF Fs!PagePanics, Fs!Fault, Fs!disk, Fs!tree, Fs!typed, Fs!indexed
<1>3. /\ Fs!Apart(pending_directories)
      /\ \A d \in Range(pending_directories) \ {Fs!Root} : index[d] = "directory"
  <2>1. /\ page.directories \in Seq(Fs!Places) /\ pending_directories \in Seq(Fs!Places)
    BY <1>1, <1>2 DEF ScanState, Fs!Page
  <2>2. /\ Fs!Apart(page.directories \o pending_directories)
        /\ \A d \in Range(page.directories \o pending_directories) \ {Fs!Root} :
             index[d] = "directory"
    BY <1>1, <1>2, SearchOperators DEF ScanState, Fs!Frontier, Fs!Waiting, Fs!InIndex
  <2>3. /\ Fs!Apart(pending_directories)
        /\ Range(pending_directories) \subseteq Range(page.directories \o pending_directories)
    BY <2>1, <2>2, SearchConcat
  <2> QED
    BY <2>2, <2>3
<1>4. Fs!RootedIndex(index') /\ searchable' = [f \in Files |-> index'[f]]
  BY <1>1, <1>2 DEF Elsewhere, Fs!RootedIndex
<1>5. ScanState'
  BY <1>1, <1>2, <1>3, <1>4, SearchIdle DEF Elsewhere, ScanState
<1>6. ViewState'
  BY <1>1, <1>2, SearchProjects DEF Elsewhere
<1>7. Elsewhere'
  BY <1>1, <1>2, <1>4 DEF Elsewhere, Fs!RootedDisk, Fs!RootedIndex
<1> QED
  BY <1>5, <1>6, <1>7 DEF Elsewhere, ScanState, ViewState, Fs!SearchInv, Fs!TypeOK

(* Nothing of the scan changes.                                            *)
LEMMA SearchScanRests ==
  ASSUME ScanState,
         UNCHANGED <<index, pending_directories, page, complete, truncated, skipped_directories,
                     panicked, loader_ignored>>,
         steady' \subseteq steady, absent' \subseteq absent
  PROVE  ScanState'
<1>1. /\ Fs!Waiting' = Fs!Waiting /\ Fs!PageWaiting' = Fs!PageWaiting
      /\ Fs!Undisturbed' = Fs!Undisturbed
  BY DEF Fs!Waiting, Fs!PageWaiting, Fs!Undisturbed
<1>2. Fs!Frontier'
  BY <1>1, SearchOperators DEF ScanState, Fs!Frontier, Fs!InIndex
<1>3. /\ Fs!Finds(index, Fs!Waiting) => Fs!Finds(index, Fs!Waiting)'
      /\ Fs!Finds(page.index, Fs!PageWaiting) => Fs!Finds(page.index, Fs!PageWaiting)'
  BY <1>1 DEF Fs!Finds, Fs!VisibleTo
<1>4. Fs!ScanInv'
  BY <1>1, <1>3 DEF ScanState, Fs!ScanInv
<1>5. Fs!PageMatches'
  BY DEF ScanState, Fs!PageMatches
<1> QED
  BY <1>2, <1>4, <1>5 DEF ScanState, Fs!RootedIndex

LEMMA SearchRestarts ==
  ASSUME Fs!SearchAssumption, Elsewhere, Fs!RestartScan,
         UNCHANGED <<index, selection, searchable, loader_ignored>>
  PROVE  /\ ScanState' /\ scanned_entries' \in Nat /\ examined_entries' = 0
         /\ skipped_directories' = 0 /\ steady' = Files \cap paths /\ absent' = Files \ paths
         /\ panicked' = panicked \ {"page"}
<1>1. /\ scanned_entries' = Fs!Cardinality({f \in Files : searchable[f] = "virtual"})
      /\ examined_entries' = 0 /\ skipped_directories' = 0
      /\ steady' = Files \cap paths /\ absent' = Files \ paths /\ panicked' = panicked \ {"page"}
      /\ Fs!StartNextSearchPage(<<Fs!Root>>, FALSE, FALSE, TRUE)
  BY DEF Fs!RestartScan
<1>2. scanned_entries' \in Nat
  <2>1. IsFiniteSet({f \in Files : searchable[f] = "virtual"})
    BY SearchPathTypes, FS_Subset DEF Fs!SearchAssumption
  <2> QED
    BY <1>1, <2>1, SearchOperators, FS_CardinalityType
<1>3. Fs!PathsAssumption /\ Files \subseteq Fs!Paths /\ Fs!Root \in Fs!Places
  BY SearchPathTypes DEF Fs!SearchAssumption
<1>4. <<Fs!Root>> \in Seq(Fs!Places) /\ Fs!Apart(<<Fs!Root>>) /\ Range(<<Fs!Root>>) = {Fs!Root}
  <2>1. <<Fs!Root>> \in Seq(Fs!Places)
    BY <1>3
  <2> QED
    BY <2>1, SearchOne
<1>5. Sought(index', <<Fs!Root>>, steady', absent', loader_ignored')
  <2>1. \A f \in Files : Fs!Below(f, Fs!Root)
    BY <1>3, SearchBelowRoot
  <2>2. steady' \subseteq Files /\ absent' \subseteq Files
    BY <1>1
  <2> QED
    BY <1>4, <2>1, <2>2 DEF Sought
<1>6. /\ index' \in Fs!Index /\ selection' \in Fs!Paths \cup {Nothing}
      /\ searchable' = [f \in Files |-> index'[f]]
  BY DEF Elsewhere
<1>7. Fs!RootedIndex(index')
  BY DEF Elsewhere, Fs!RootedIndex
<1>8. \A d \in Range(<<Fs!Root>>) \ {Fs!Root} : index'[d] = "directory"
  BY <1>4
<1>9. ScanState'
  <2> DEFINE s == <<Fs!Root>>
  <2>1. /\ s \in Seq(Fs!Places) /\ Fs!Apart(s)
        /\ \A d \in Range(s) \ {Fs!Root} : index'[d] = "directory"
        /\ Sought(index', s, steady', absent', loader_ignored')
        /\ Fs!StartNextSearchPage(s, FALSE, FALSE, TRUE)
    BY <1>1, <1>4, <1>5, <1>8
  <2> HIDE DEF s
  <2> QED
    BY <1>6, <1>7, <2>1, SearchIdle
<1> QED
  BY <1>1, <1>2, <1>9

LEMMA SearchReloads ==
  ASSUME Fs!SearchAssumption, Fs!SearchInv, Fs!ReloadApplied
  PROVE  Fs!SearchInv'
<1>1. Elsewhere /\ ScanState /\ ViewState
  BY SearchInvIs
<1>2. /\ reloading' = FALSE
      /\ UNCHANGED <<paths, edits, showing, virtual, active, begun, editing, query,
                     loader_ignored, index, selection, searchable, matches, projection_applied,
                     limit, queue_full, keys, failures>>
      /\ IF begun THEN Fs!RestartScan ELSE UNCHANGED <<Fs!scan, Fs!ghosts>>
      /\ Fs!RetryProjection
  BY DEF Fs!ReloadApplied, Fs!disk, Fs!typed, Fs!indexed, Fs!environment
<1>3. /\ ScanState' /\ scanned_entries' \in Nat /\ examined_entries' \in Nat
      /\ skipped_directories' \in Nat /\ steady' \subseteq Files /\ absent' \subseteq Files
      /\ steady' \subseteq paths /\ absent' \cap paths = {}
      /\ panicked' \subseteq {"page", "projection"}
      /\ "projection" \in panicked' <=> "projection" \in panicked
  <2>1. CASE begun
    <3>1. Fs!RestartScan
      BY <1>2, <2>1
    <3>2. /\ ScanState' /\ scanned_entries' \in Nat /\ examined_entries' = 0
          /\ skipped_directories' = 0 /\ steady' = Files \cap paths /\ absent' = Files \ paths
          /\ panicked' = panicked \ {"page"}
      BY <1>1, <1>2, <3>1, SearchRestarts
    <3> QED
      BY <1>1, <3>2 DEF Elsewhere
  <2>2. CASE ~begun
    <3>1. UNCHANGED <<pending_directories, page, scanned_entries, examined_entries,
                      skipped_directories, complete, truncated, steady, absent, panicked>>
      BY <1>2, <2>2 DEF Fs!scan, Fs!counts, Fs!ghosts
    <3>2. ScanState'
      BY <1>1, <1>2, <3>1, SearchScanRests
    <3> QED
      BY <1>1, <3>1, <3>2 DEF Elsewhere
  <2> QED
    BY <2>1, <2>2
<1>4. ViewState'
  BY <1>1, <1>2, <1>3, SearchProjects DEF Elsewhere
<1>5. Elsewhere'
  BY <1>1, <1>2, <1>3 DEF Elsewhere, Fs!RootedDisk, Fs!RootedIndex
<1> QED
  BY <1>3, <1>4, <1>5 DEF Elsewhere, ScanState, ViewState, Fs!SearchInv, Fs!TypeOK

(* The disk and the queue of the worker.                                   *)
LEMMA SearchEdits ==
  ASSUME Fs!SearchAssumption, Fs!SearchInv, NEW p \in Fs!Paths, Fs!MakePath(p) \/ Fs!RemovePath(p)
  PROVE  Fs!SearchInv'
<1>1. Elsewhere /\ ScanState /\ ViewState /\ Fs!PathsAssumption
  BY SearchInvIs DEF Fs!SearchAssumption
<1>2. PICK S : Fs!Edits(S) /\ \/ S = paths \cup {p} /\ Fs!Parent(p) \in paths \cup {Fs!Root}
                              \/ S = {q \in paths : ~Fs!IsPrefix(p, q)}
  BY DEF Fs!MakePath, Fs!RemovePath
<1>3. /\ paths' = S /\ steady' = steady \cap S /\ absent' = absent \ S /\ edits' = edits + 1
      /\ UNCHANGED <<showing, virtual, reloading, active, begun, editing, query, loader_ignored,
                     index, selection, searchable, pending_directories, page, scanned_entries,
                     examined_entries, skipped_directories, complete, truncated, matches,
                     projection_requested, projection_applied, projection, panicked, limit,
                     queue_full, keys, failures>>
  BY <1>2 DEF Fs!Edits, Fs!tree, Fs!typed, Fs!indexed, Fs!scan, Fs!counts, Fs!shown,
              Fs!environment
<1>4. S \subseteq Fs!Paths /\ Fs!Paths \subseteq Seq(Nat) /\ Folders \subseteq Fs!Paths
  BY <1>1, <1>2, SearchPathTypes DEF Elsewhere
<1>5. \A q \in S, d \in Folders : Fs!Below(q, d) => d \in S
  <2> SUFFICES ASSUME NEW q \in S, NEW d \in Folders, Fs!Below(q, d)
               PROVE  d \in S
    OBVIOUS
  <2>1. q \in paths => d \in paths
    BY <1>1 DEF Elsewhere, Fs!RootedDisk
  <2>2. CASE S = paths \cup {p} /\ Fs!Parent(p) \in paths \cup {Fs!Root}
    <3>1. CASE q \in paths
      BY <2>1, <2>2, <3>1
    <3>2. CASE q = p
      <4>1. d = Fs!Parent(p) \/ Fs!Below(Fs!Parent(p), d)
        BY <1>1, <3>2, SearchParents DEF Fs!Places
      <4>2. d # Fs!Root /\ Len(d) \in Nat \ {0}
        BY <1>1, <1>4, SearchPathTypes DEF Fs!SearchAssumption, Fs!PathsAssumption
      <4>3. ~Fs!Below(Fs!Root, d)
        <5>1. Fs!Root \in Seq(Nat) /\ Len(Fs!Root) = 0 /\ d \in Seq(Nat)
          BY <1>4, EmptySeq DEF Fs!Root
        <5>2. Fs!Below(Fs!Root, d) => Len(d) < Len(Fs!Root)
          BY <5>1, SearchPrefixes
        <5> QED
          BY <4>2, <5>1, <5>2
      <4>4. Fs!Parent(p) \in paths
        BY <2>2, <4>1, <4>2, <4>3
      <4> QED
        BY <1>1, <2>2, <4>1, <4>4 DEF Elsewhere, Fs!RootedDisk
    <3> QED
      BY <2>2, <3>1, <3>2
  <2>3. CASE S = {x \in paths : ~Fs!IsPrefix(p, x)}
    <3>1. q \in paths /\ ~Fs!IsPrefix(p, q)
      BY <2>3
    <3>2. Fs!IsPrefix(p, d) => Fs!IsPrefix(p, q)
      <4>1. p \in Seq(Nat) /\ d \in Seq(Nat) /\ q \in Seq(Nat)
        BY <1>4
      <4>2. Fs!IsPrefix(p, d) <=> p = d \/ Fs!Below(d, p)
        BY <4>1, SearchBelowIs
      <4>3. Fs!IsPrefix(p, q) <=> p = q \/ Fs!Below(q, p)
        BY <4>1, SearchBelowIs
      <4>4. Fs!Below(q, d) /\ Fs!Below(d, p) => Fs!Below(q, p)
        BY <4>1, SearchBelowIs
      <4> QED
        BY <4>2, <4>3, <4>4
    <3> QED
      BY <2>1, <2>3, <3>1, <3>2
  <2> QED
    BY <1>2, <2>2, <2>3
<1>6. ScanState'
  BY <1>1, <1>3, SearchScanRests
<1>7. ViewState'
  BY <1>1, <1>3, SearchRests
<1>8. Elsewhere'
  BY <1>1, <1>3, <1>4, <1>5 DEF Elsewhere, Fs!RootedDisk, Fs!RootedIndex
<1> QED
  BY <1>6, <1>7, <1>8 DEF Elsewhere, ScanState, ViewState, Fs!SearchInv, Fs!TypeOK

LEMMA SearchStatus ==
  ASSUME Fs!SearchAssumption, Fs!SearchInv, Fs!StatusApplied
  PROVE  Fs!SearchInv'
<1>1. Elsewhere /\ ScanState /\ ViewState /\ Files \subseteq Fs!Paths /\ Tracked \subseteq Files
  BY SearchInvIs, SearchPathTypes DEF Fs!SearchAssumption, Fs!RulesAssumption
<1>2. /\ edits' = edits + 1 /\ virtual' \subseteq Tracked \ paths
      /\ UNCHANGED <<paths, showing, reloading, active, begun, editing, query, loader_ignored,
                     matches, scanned_entries, examined_entries, skipped_directories, steady,
                     absent, panicked, limit, queue_full, keys, failures>>
      /\ Fs!QueueProjection /\ Fs!RetryPage
  BY DEF Fs!StatusApplied, Fs!typed, Fs!ghosts, Fs!environment
<1>3. \/ UNCHANGED <<index, selection, searchable>>
      \/ /\ index' = Fs!SyncOverlay(index, virtual')
         /\ selection' = Fs!RestoreSelection(index', selection)
         /\ searchable' = Fs!SyncVirtualEntries(searchable, index')
  BY DEF Fs!StatusApplied, Fs!indexed
<1>4. /\ index' \in Fs!Index /\ Fs!RootedIndex(index')
      /\ selection' \in Fs!Paths \cup {Nothing}
      /\ searchable' = [f \in Files |-> index'[f]]
      /\ \A d \in Folders : index[d] = "directory" => index'[d] = "directory"
      /\ \A f \in steady : index[f] = "file" => index'[f] = "file"
      /\ \A f \in absent : index'[f] = "file" => index[f] = "file"
  <2>1. CASE UNCHANGED <<index, selection, searchable>>
    BY <1>1, <2>1 DEF Elsewhere, Fs!RootedIndex
  <2>2. CASE /\ index' = Fs!SyncOverlay(index, virtual')
             /\ selection' = Fs!RestoreSelection(index', selection)
             /\ searchable' = Fs!SyncVirtualEntries(searchable, index')
    <3>1. index' = [p \in Fs!Paths |-> IF p \in virtual' THEN "virtual"
                                       ELSE IF index[p] = "virtual" THEN Nothing ELSE index[p]]
      BY <2>2 DEF Fs!SyncOverlay
    <3>2. \A p \in Fs!Paths : index[p] \in {Nothing, "directory", "file", "virtual"}
      BY <1>1 DEF Elsewhere, Fs!Index
    <3>3. virtual' \subseteq Files /\ virtual' \cap Folders = {} /\ virtual' \cap steady = {}
      BY <1>1, <1>2 DEF Elsewhere, Fs!SearchAssumption, Fs!PathsAssumption
    <3>4. Nothing \notin {"directory", "file", "virtual"} /\ Folders \subseteq Fs!Paths
      BY SearchPathTypes DEF Fs!SearchAssumption, Fs!NoneAssumption
    <3>5. index' \in Fs!Index
      <4>1. \A p \in Fs!Paths : index'[p] \in {Nothing, "directory", "file", "virtual"}
        BY <3>1, <3>2
      <4>2. \A f \in Files : index'[f] # "directory"
        <5>1. \A f \in Files : index[f] # "directory" /\ f \in Fs!Paths
          BY <1>1 DEF Elsewhere, Fs!Index
        <5> QED
          BY <3>1, <3>4, <5>1
      <4>3. index' \in [Fs!Paths -> {Nothing, "directory", "file", "virtual"}]
        BY <3>1, <4>1
      <4> QED
        BY <4>2, <4>3 DEF Fs!Index
    <3>6. \A d \in Folders : index[d] = "directory" => index'[d] = "directory"
      BY <3>1, <3>3, <3>4
    <3>7. /\ \A f \in steady : index[f] = "file" => index'[f] = "file"
          /\ \A f \in absent : index'[f] = "file" => index[f] = "file"
      BY <1>1, <3>1, <3>3, <3>4 DEF Elsewhere
    <3>8. Fs!RootedIndex(index')
      <4>1. \A p \in Fs!Paths : index'[p] \notin {Nothing, "virtual"} =>
              index[p] \notin {Nothing, "virtual"}
        BY <3>1
      <4> QED
        BY <1>1, <3>6, <4>1 DEF Elsewhere, Fs!RootedIndex
    <3>9. selection' \in Fs!Paths \cup {Nothing}
      BY <1>1, <2>2, SearchSelects DEF Elsewhere, Fs!SearchAssumption
    <3>10. searchable' = [f \in Files |-> index'[f]]
      <4>1. \A f \in Files : searchable[f] = index[f]
        BY <1>1 DEF Elsewhere
      <4>2. searchable' = [f \in Files |-> IF index'[f] = "virtual" THEN "virtual"
                                           ELSE IF searchable[f] = "virtual" THEN Nothing
                                           ELSE searchable[f]]
        BY <2>2 DEF Fs!SyncVirtualEntries
      <4>3. \A f \in Files : searchable'[f] = index'[f]
        BY <1>1, <3>1, <4>1, <4>2
      <4> QED
        BY <4>2, <4>3
    <3> QED
      BY <3>5, <3>6, <3>7, <3>8, <3>9, <3>10
  <2> QED
    BY <1>3, <2>1, <2>2
<1>5. ScanState'
  BY <1>1, <1>2, <1>4, SearchRetries DEF Elsewhere
<1>6. ViewState'
  <2>1. query \in Seq(Letters) /\ (query # <<>> => begun) /\ matches \subseteq Files
    BY <1>1 DEF Elsewhere, ViewState, Fs!Awaits, Fs!Active
  <2> QED
    BY <1>1, <1>2, <1>4, <2>1, SearchQueues
<1>7. Elsewhere'
  BY <1>1, <1>2, <1>4 DEF Elsewhere, Fs!RootedDisk, Fs!RootedIndex
<1> QED
  BY <1>5, <1>6, <1>7 DEF Elsewhere, ScanState, ViewState, Fs!SearchInv, Fs!TypeOK

LEMMA SearchQueueing ==
  ASSUME Fs!SearchAssumption, Fs!SearchInv, Fs!QueueFills \/ Fs!QueueDrains \/ Fs!Show
  PROVE  Fs!SearchInv'
<1>1. Elsewhere /\ ScanState /\ ViewState
  BY SearchInvIs
<1>2. /\ UNCHANGED <<paths, edits, showing, virtual, begun, editing, query, loader_ignored,
                     index, selection, searchable, matches, projection_applied, scanned_entries,
                     examined_entries, skipped_directories, steady, absent, panicked, limit,
                     keys>>
      /\ queue_full' \in BOOLEAN /\ failures' \in Nat /\ active' \in BOOLEAN
      /\ reloading' \in BOOLEAN
      /\ \/ UNCHANGED <<pending_directories, page, complete, truncated, projection_requested,
                        projection>>
         \/ Fs!RetryPage /\ Fs!RetryProjection
  <2>1. CASE Fs!QueueFills
    BY <1>1, <2>1 DEF Fs!QueueFills, Fs!Fault, Fs!disk, Fs!tree, Fs!typed, Fs!indexed, Fs!scan,
                      Fs!counts, Fs!shown, Fs!ghosts, Elsewhere
  <2>2. CASE Fs!QueueDrains
    BY <1>1, <2>2 DEF Fs!QueueDrains, Fs!disk, Fs!tree, Fs!typed, Fs!indexed, Fs!ghosts,
                      Elsewhere
  <2>3. CASE Fs!Show
    BY <1>1, <2>3 DEF Fs!Show, Fs!disk, Fs!typed, Fs!indexed, Fs!ghosts, Fs!environment,
                      Elsewhere
  <2> QED
    BY <2>1, <2>2, <2>3
<1>3. ScanState'
  <2>1. CASE UNCHANGED <<pending_directories, page, complete, truncated>>
    BY <1>1, <1>2, <2>1, SearchScanRests
  <2>2. CASE Fs!RetryPage
    <3>1. Fs!RootedIndex(index') /\ searchable' = [f \in Files |-> index'[f]]
      BY <1>1, <1>2 DEF Elsewhere, Fs!RootedIndex
    <3> QED
      BY <1>1, <1>2, <2>2, <3>1, SearchRetries DEF Elsewhere
  <2> QED
    BY <1>2, <2>1, <2>2
<1>4. ViewState'
  <2>1. CASE UNCHANGED <<projection_requested, projection>>
    BY <1>1, <1>2, <2>1, SearchRests
  <2>2. CASE Fs!RetryProjection
    BY <1>1, <1>2, <2>2, SearchProjects DEF Elsewhere
  <2> QED
    BY <1>2, <2>1, <2>2
<1>5. Elsewhere'
  BY <1>1, <1>2 DEF Elsewhere, Fs!RootedDisk, Fs!RootedIndex
<1> QED
  BY <1>3, <1>4, <1>5 DEF Elsewhere, ScanState, ViewState, Fs!SearchInv, Fs!TypeOK

(* The user.                                                               *)
LEMMA SearchBegins ==
  ASSUME Fs!SearchAssumption, Fs!SearchInv, Fs!BeginSearch
  PROVE  Fs!SearchInv'
<1>1. Elsewhere /\ ScanState /\ ViewState /\ Fs!PathsAssumption /\ Files \subseteq Fs!Paths
      /\ IsFiniteSet(Files) /\ Fs!Root \in Fs!Places /\ Tracked \subseteq Files
  BY SearchInvIs, SearchPathTypes DEF Fs!SearchAssumption, Fs!RulesAssumption
<1>2. /\ editing' = TRUE /\ begun' = TRUE /\ keys' = keys + 1
      /\ UNCHANGED <<paths, edits, showing, virtual, reloading, active, query, matches,
                     projection_requested, projection_applied, projection, examined_entries,
                     skipped_directories, panicked, limit, queue_full, failures>>
  BY DEF Fs!BeginSearch, Fs!Intent, Fs!disk, Fs!tree, Fs!shown
<1>3. CASE begun
  <2>1. /\ UNCHANGED <<loader_ignored, index, selection, searchable, scanned_entries, steady,
                       absent>>
        /\ Fs!RetryPage
    BY <1>3 DEF Fs!BeginSearch, Fs!indexed
  <2>2. Fs!RootedIndex(index') /\ searchable' = [f \in Files |-> index'[f]]
    BY <1>1, <2>1 DEF Elsewhere, Fs!RootedIndex
  <2>3. ScanState'
    BY <1>1, <1>2, <2>1, <2>2, SearchRetries DEF Elsewhere
  <2>4. ViewState'
    BY <1>1, <1>2, <1>3, <2>1, SearchRests
  <2>5. Elsewhere'
    BY <1>1, <1>2, <2>1 DEF Elsewhere, Fs!RootedDisk, Fs!RootedIndex
  <2> QED
    BY <2>3, <2>4, <2>5 DEF Elsewhere, ScanState, ViewState, Fs!SearchInv, Fs!TypeOK
<1>4. CASE ~begun
  <2>1. /\ loader_ignored' = (showing \/ SearchIgnored)
        /\ index' = [p \in Fs!Paths |-> IF p \in virtual THEN "virtual" ELSE Nothing]
        /\ \E s \in virtual \cup {Nothing} : selection' = Fs!RestoreSelection(index', s)
        /\ searchable' = [f \in Files |-> index'[f]]
        /\ scanned_entries' = Fs!Cardinality(virtual)
        /\ steady' = Files \cap paths /\ absent' = Files \ paths
        /\ Fs!StartNextSearchPage(<<Fs!Root>>, FALSE, FALSE, TRUE)
    BY <1>4 DEF Fs!BeginSearch
  <2>2. index' \in Fs!Index /\ Fs!RootedIndex(index')
    <3>1. \A p \in Fs!Paths : index'[p] \in {Nothing, "virtual"}
      BY <2>1
    <3>2. index' \in [Fs!Paths -> {Nothing, "directory", "file", "virtual"}]
      BY <2>1
    <3>3. Nothing # "directory"
      BY DEF Fs!SearchAssumption, Fs!NoneAssumption
    <3> QED
      BY <1>1, <3>1, <3>2, <3>3 DEF Fs!Index, Fs!RootedIndex
  <2>3. selection' \in Fs!Paths \cup {Nothing}
    <3>1. virtual \subseteq Fs!Paths
      BY <1>1 DEF Elsewhere
    <3> QED
      BY <1>1, <2>1, <3>1, SearchSelects
  <2>4. scanned_entries' \in Nat /\ virtual \subseteq Fs!Paths
    <3>1. virtual \subseteq Files
      BY <1>1 DEF Elsewhere
    <3>2. IsFiniteSet(virtual)
      BY <1>1, <3>1, FS_Subset
    <3> QED
      BY <1>1, <2>1, <3>1, <3>2, SearchOperators, FS_CardinalityType
  <2>5. ScanState'
    <3> DEFINE s == <<Fs!Root>>
    <3>1. s \in Seq(Fs!Places)
      BY <1>1
    <3>2. Fs!Apart(s) /\ Range(s) = {Fs!Root}
      BY <3>1, SearchOne
    <3>3. Sought(index', s, steady', absent', loader_ignored')
      <4>1. \A f \in Files : Fs!Below(f, Fs!Root)
        BY <1>1, SearchBelowRoot
      <4> HIDE DEF s
      <4> QED
        BY <2>1, <3>2, <4>1 DEF Sought
    <3>4. Fs!StartNextSearchPage(s, FALSE, FALSE, TRUE)
      BY <2>1
    <3> HIDE DEF s
    <3> QED
      BY <2>1, <2>2, <2>3, <3>1, <3>2, <3>3, <3>4, SearchIdle
  <2>6. ViewState'
    <3>1. query = <<>> /\ projection = Nothing /\ projection_requested = FALSE
      BY <1>1, <1>4 DEF ViewState, Fs!Awaits, Fs!Active
    <3> QED
      BY <1>1, <1>2, <3>1 DEF ViewState, Fs!Awaits, Fs!ResultsMatch, Fs!Active
  <2>7. Elsewhere'
    <3>1. loader_ignored' \in BOOLEAN
      BY <2>1
    <3> QED
      BY <1>1, <1>2, <2>1, <2>2, <2>3, <2>4, <3>1 DEF Elsewhere, Fs!RootedDisk, Fs!RootedIndex
  <2> QED
    BY <2>5, <2>6, <2>7 DEF Elsewhere, ScanState, ViewState, Fs!SearchInv, Fs!TypeOK
<1> QED
  BY <1>1, <1>3, <1>4 DEF Elsewhere

(* What a step of the user does to the query.                              *)
Retypes ==
  /\ keys' = keys + 1 /\ editing' \in BOOLEAN /\ query' \in Seq(Letters)
  /\ UNCHANGED <<paths, edits, showing, virtual, reloading, active, begun,
                 loader_ignored, index, selection, searchable, scanned_entries,
                 examined_entries, skipped_directories, steady, absent, panicked, limit,
                 queue_full, failures>>
  /\ editing' => begun'
  /\ \/ UNCHANGED <<pending_directories, page, complete, truncated>>
     \/ Fs!RetryPage
  /\ \/ query' = <<>> /\ Fs!ClearProjection
     \/ query' # <<>> /\ begun /\ matches' = {} /\ Fs!QueueProjection

LEMMA SearchRetypes ==
  ASSUME Fs!SearchAssumption, Elsewhere,
         Fs!Backspace \/ Fs!Clear \/ \E c \in Letters : Fs!AppendQuery(c)
  PROVE  Retypes
<1>1. CASE Fs!Backspace
  <2>1. query \in Seq(Letters) /\ query # <<>> /\ editing /\ begun
    BY <1>1 DEF Fs!Backspace, Fs!Active, Elsewhere
  <2>2. Fs!Front(query) \in Seq(Letters)
    <3>1. Len(query) \in Nat \ {0}
      BY <2>1, EmptySeq, LenProperties
    <3>2. \A i \in 1..(Len(query) - 1) : query[i] \in Letters
      BY <2>1, <3>1, ElementOfSeq
    <3>3. Fs!Front(query) = [i \in 1..(Len(query) - 1) |-> query[i]]
      BY <2>1, <3>1 DEF Fs!Front
    <3>4. Len(query) - 1 \in Nat
      BY <3>1
    <3> QED
      BY <3>2, <3>3, <3>4, SeqDef
  <2> QED
    BY <1>1, <2>1, <2>2
    DEF Retypes, Fs!Backspace, Fs!Intent, Fs!disk, Fs!tree, Fs!indexed, Fs!scan, Fs!counts,
        Fs!ghosts, Elsewhere
<1>2. CASE Fs!Clear
  <2>1. <<>> \in Seq(Letters) /\ begun
    BY <1>2, EmptySeq DEF Fs!Clear
  <2> QED
    BY <1>2, <2>1
    DEF Retypes, Fs!Clear, Fs!ClearQuery, Fs!Intent, Fs!disk, Fs!tree, Fs!indexed, Fs!scan,
        Fs!counts, Fs!ghosts, Elsewhere
<1>3. ASSUME NEW c \in Letters, Fs!AppendQuery(c)
      PROVE  Retypes
  <2>1. query' = Append(query, c) /\ editing /\ begun /\ query \in Seq(Letters)
    BY <1>3 DEF Fs!AppendQuery, Elsewhere
  <2>2. query' \in Seq(Letters) /\ query' # <<>>
    BY <2>1, AppendProperties
  <2> QED
    BY <1>3, <2>1, <2>2
    DEF Retypes, Fs!AppendQuery, Fs!Intent, Fs!disk, Fs!tree, Fs!indexed, Fs!ghosts, Elsewhere
<1> QED
  BY <1>1, <1>2, <1>3

LEMMA SearchTyping ==
  ASSUME Fs!SearchAssumption, Fs!SearchInv, Retypes
  PROVE  Fs!SearchInv'
<1>1. Elsewhere /\ ScanState /\ ViewState
  BY SearchInvIs
<1>2. /\ Fs!RootedIndex(index') /\ searchable' = [f \in Files |-> index'[f]]
      /\ index' \in Fs!Index
  BY <1>1 DEF Retypes, Elsewhere, Fs!RootedIndex
<1>3. ScanState'
  <2>1. CASE UNCHANGED <<pending_directories, page, complete, truncated>>
    BY <1>1, <2>1, SearchScanRests DEF Retypes
  <2>2. CASE Fs!RetryPage
    BY <1>1, <1>2, <2>2, SearchRetries DEF Retypes, Elsewhere
  <2> QED
    BY <2>1, <2>2 DEF Retypes
<1>4. ViewState'
  <2>1. CASE query' = <<>> /\ Fs!ClearProjection
    BY <2>1 DEF Fs!ClearProjection, ViewState, Fs!Awaits, Fs!ResultsMatch, Fs!Active
  <2>2. CASE query' # <<>> /\ begun /\ matches' = {} /\ Fs!QueueProjection
    BY <1>1, <1>2, <2>2, SearchQueues DEF Retypes
  <2> QED
    BY <2>1, <2>2 DEF Retypes
<1>5. Elsewhere'
  BY <1>1, <1>2 DEF Retypes, Elsewhere, Fs!RootedDisk, Fs!RootedIndex
<1> QED
  BY <1>3, <1>4, <1>5 DEF Elsewhere, ScanState, ViewState, Fs!SearchInv, Fs!TypeOK

LEMMA SearchLeaves ==
  ASSUME Fs!SearchAssumption, Fs!SearchInv, Fs!Commit \/ Fs!Refresh \/ Fs!Hide
  PROVE  Fs!SearchInv'
<1>1. Elsewhere /\ ScanState /\ ViewState /\ <<>> \in Seq(Letters)
  BY SearchInvIs, EmptySeq
<1>2. /\ keys' = keys + 1 /\ query' \in Seq(Letters) /\ showing' \in BOOLEAN
      /\ reloading' \in BOOLEAN /\ active' \in BOOLEAN /\ editing' \in BOOLEAN
      /\ (editing' => begun)
      /\ UNCHANGED <<paths, edits, virtual, begun, loader_ignored, index, selection, searchable,
                     scanned_entries, examined_entries, skipped_directories, complete,
                     truncated, steady, absent, panicked, limit, queue_full, failures>>
  BY <1>1 DEF Fs!Commit, Fs!Refresh, Fs!Hide, Fs!ClearQuery, Fs!Intent, Fs!disk, Fs!tree,
              Fs!typed, Fs!indexed, Fs!scan, Fs!counts, Fs!shown, Fs!ghosts, Elsewhere
<1>3. ScanState'
  <2>1. CASE Fs!Commit \/ Fs!Refresh
    <3>1. UNCHANGED <<pending_directories, page>>
      BY <2>1 DEF Fs!Commit, Fs!Refresh, Fs!scan
    <3> QED
      BY <1>1, <1>2, <3>1, SearchScanRests
  <2>2. CASE Fs!Hide
    <3>1. page' = Nothing /\ pending_directories' = Fs!Waiting
      BY <2>2 DEF Fs!Hide, Fs!Waiting
    <3>2. Fs!Waiting' = Fs!Waiting /\ Fs!Undisturbed' = Fs!Undisturbed
      BY <1>2, <3>1 DEF Fs!Waiting, Fs!Undisturbed
    <3>3. Fs!Waiting \in Seq(Fs!Places)
      <4>1. page # Nothing => page.directories \in Seq(Fs!Places)
        BY <1>1 DEF ScanState, Fs!Page
      <4> QED
        BY <1>1, <4>1, SearchConcat DEF ScanState, Fs!Waiting
    <3>4. Fs!Frontier'
      BY <1>1, <1>2, <3>1, <3>2, SearchOperators DEF ScanState, Fs!Frontier, Fs!InIndex
    <3>5. Fs!Finds(index, Fs!Waiting)' = Fs!Finds(index, Fs!Waiting)
      BY <1>2, <3>2 DEF Fs!Finds, Fs!VisibleTo
    <3>6. Fs!Undisturbed /\ complete => Fs!Waiting = <<>>
      BY <1>1 DEF ScanState, Fs!ScanInv, Fs!Waiting
    <3>7. Fs!ScanInv'
      BY <1>1, <1>2, <3>1, <3>2, <3>5, <3>6 DEF ScanState, Fs!ScanInv
    <3> QED
      BY <1>1, <1>2, <3>1, <3>3, <3>4, <3>7 DEF ScanState, Fs!PageMatches
  <2> QED
    BY <2>1, <2>2
<1>4. ViewState'
  <2>1. CASE UNCHANGED <<query, matches, projection_requested, projection_applied, projection>>
    BY <1>1, <1>2, <2>1, SearchRests
  <2>2. CASE Fs!ClearQuery(FALSE)
    BY <2>2 DEF Fs!ClearQuery, Fs!ClearProjection, ViewState, Fs!Awaits, Fs!ResultsMatch,
                Fs!Active
  <2>3. CASE Fs!Hide
    <3>1. /\ projection_requested' = (projection_requested \/ projection # Nothing)
          /\ projection' = Nothing /\ UNCHANGED <<query, matches, projection_applied>>
      BY <2>3 DEF Fs!Hide
    <3>2. Fs!ResultsMatch'
      BY <1>1, <1>2, <3>1 DEF ViewState, Fs!ResultsMatch, Fs!Active, Fs!Matching
    <3> QED
      BY <1>1, <1>2, <3>1, <3>2 DEF ViewState, Fs!Awaits, Fs!Active
  <2> QED
    BY <2>1, <2>2, <2>3 DEF Fs!Commit, Fs!Refresh, Fs!typed, Fs!shown
<1>5. Elsewhere'
  BY <1>1, <1>2 DEF Elsewhere, Fs!RootedDisk, Fs!RootedIndex
<1> QED
  BY <1>3, <1>4, <1>5 DEF Elsewhere, ScanState, ViewState, Fs!SearchInv, Fs!TypeOK

(* What ends a projection, and the row that is selected.                   *)
LEMMA SearchShows ==
  ASSUME Fs!SearchAssumption, Fs!SearchInv, Fs!CompleteProjection \/ Fs!ProjectionPanics
  PROVE  Fs!SearchInv'
<1>1. Elsewhere /\ ScanState /\ ViewState /\ Files \subseteq Fs!Paths
  BY SearchInvIs, SearchPathTypes DEF Fs!SearchAssumption
<1>2. /\ projection # Nothing /\ projection' = Nothing /\ projection_applied' = TRUE
      /\ UNCHANGED <<paths, edits, showing, virtual, reloading, active, begun, editing, query,
                     loader_ignored, index, searchable, projection_requested, scanned_entries,
                     examined_entries, skipped_directories, steady, absent, limit, queue_full,
                     keys>>
      /\ Fs!RetryPage
      /\ failures' \in Nat /\ panicked' \subseteq {"page", "projection"}
      /\ "page" \in panicked' <=> "page" \in panicked
  <2>1. failures \in Nat /\ panicked \subseteq {"page", "projection"}
    BY <1>1 DEF Elsewhere
  <2>2. CASE Fs!CompleteProjection
    <3>1. panicked' = panicked \ {"projection"} /\ failures' = failures
      BY <2>2 DEF Fs!CompleteProjection, Fs!environment
    <3> QED
      BY <2>1, <2>2, <3>1
      DEF Fs!CompleteProjection, Fs!disk, Fs!tree, Fs!typed, Fs!environment
  <2>3. CASE Fs!ProjectionPanics
    <3>1. panicked' = panicked \cup {"projection"} /\ failures' = failures + 1
      BY <2>3 DEF Fs!ProjectionPanics, Fs!Fault
    <3> QED
      BY <2>1, <2>3, <3>1
      DEF Fs!ProjectionPanics, Fs!disk, Fs!tree, Fs!typed, Fs!indexed
  <2> QED
    BY <2>2, <2>3
<1>3. /\ selection' \in Fs!Paths \cup {Nothing} /\ matches' \subseteq Files
      /\ Fs!CompleteProjection =>
           /\ matches' = Fs!Matching([f \in Files |-> index[f]], query)
           /\ matches' # {} => selection' \in matches'
  <2>1. CASE Fs!CompleteProjection
    <3>1. projection = [searchable |-> searchable, query |-> query]
      BY <1>1, <1>2 DEF ViewState, Fs!Awaits
    <3>2. matches' = Fs!Matching([f \in Files |-> index[f]], query)
      BY <1>1, <2>1, <3>1 DEF Fs!CompleteProjection, Elsewhere
    <3>3. matches' \subseteq Files /\ \A f \in matches' : index[f] # Nothing
      BY <3>2 DEF Fs!Matching
    <3>4. \/ selection' = selection /\ (selection \in matches' \/ matches' = {})
          \/ \E f \in matches' : selection' = IF index[f] # Nothing THEN f ELSE selection
      BY <2>1 DEF Fs!CompleteProjection
    <3>5. \/ selection' = selection /\ (selection \in matches' \/ matches' = {})
          \/ selection' \in matches'
      BY <3>3, <3>4
    <3> QED
      BY <1>1, <3>2, <3>3, <3>5 DEF Elsewhere
  <2>2. CASE Fs!ProjectionPanics /\ ~Fs!CompleteProjection
    BY <1>1, <2>2 DEF Fs!ProjectionPanics, Fs!indexed, Elsewhere, ViewState
  <2> QED
    BY <2>1, <2>2
<1>4. ScanState'
  <2>1. Fs!RootedIndex(index') /\ searchable' = [f \in Files |-> index'[f]]
    BY <1>1, <1>2 DEF Elsewhere, Fs!RootedIndex
  <2> QED
    BY <1>1, <1>2, <1>3, <2>1, SearchRetries DEF Elsewhere
<1>5. ViewState'
  <2>1. Fs!ResultsMatch'
    <3>1. CASE Fs!CompleteProjection
      <4>1. Fs!Matching([f \in Files |-> index[f]], query)'
              = Fs!Matching([f \in Files |-> index[f]], query)
        BY <1>2 DEF Fs!Matching
      <4> QED
        BY <1>3, <3>1, <4>1 DEF Fs!ResultsMatch
    <3>2. CASE Fs!ProjectionPanics
      BY <3>2 DEF Fs!ProjectionPanics, Fs!ResultsMatch
    <3> QED
      BY <3>1, <3>2
  <2> QED
    BY <1>1, <1>2, <1>3, <2>1 DEF ViewState, Fs!Awaits, Fs!Active
<1>6. Elsewhere'
  BY <1>1, <1>2, <1>3 DEF Elsewhere, Fs!RootedDisk, Fs!RootedIndex
<1> QED
  BY <1>4, <1>5, <1>6 DEF Elsewhere, ScanState, ViewState, Fs!SearchInv, Fs!TypeOK

LEMMA SearchPicks ==
  ASSUME Fs!SearchAssumption, Fs!SearchInv, NEW f \in Files, Fs!Select(f)
  PROVE  Fs!SearchInv'
<1>1. Elsewhere /\ ScanState /\ ViewState /\ Files \subseteq Fs!Paths
  BY SearchInvIs, SearchPathTypes DEF Fs!SearchAssumption
<1>2. /\ f \in matches /\ selection' = f /\ keys' = keys + 1
      /\ UNCHANGED <<paths, edits, showing, virtual, reloading, active, begun, editing, query,
                     loader_ignored, index, searchable, matches, pending_directories, page,
                     complete, truncated, projection_requested, projection_applied, projection,
                     scanned_entries, examined_entries, skipped_directories, steady, absent,
                     panicked, limit, queue_full, failures>>
  BY DEF Fs!Select, Fs!Intent, Fs!disk, Fs!tree, Fs!typed, Fs!scan, Fs!counts, Fs!shown,
         Fs!ghosts
<1>3. ScanState'
  BY <1>1, <1>2, SearchScanRests
<1>4. ViewState'
  <2>1. Fs!ResultsMatch'
    BY <1>1, <1>2 DEF ViewState, Fs!ResultsMatch, Fs!Active, Fs!Matching
  <2> QED
    BY <1>1, <1>2, <2>1 DEF ViewState, Fs!Awaits, Fs!Active
<1>5. Elsewhere'
  BY <1>1, <1>2 DEF Elsewhere, Fs!RootedDisk, Fs!RootedIndex
<1> QED
  BY <1>3, <1>4, <1>5 DEF Elsewhere, ScanState, ViewState, Fs!SearchInv, Fs!TypeOK

LEMMA SearchStarts == ASSUME Fs!SearchAssumption, Fs!Init PROVE Fs!SearchInv
<1>1. Fs!PathsAssumption /\ Files \subseteq Fs!Paths /\ Fs!NoneAssumption
  BY SearchPathTypes DEF Fs!SearchAssumption
<1>2. <<>> \in Seq(Letters) /\ <<>> \in Seq(Fs!Places) /\ Fs!Apart(<<>>) /\ Range(<<>>) = {}
  BY SearchNone, EmptySeq
<1>3. page = Nothing /\ pending_directories = <<>> /\ Fs!Waiting = <<>> /\ query = <<>>
  BY DEF Fs!Init, Fs!Waiting
<1>4. index = [p \in Fs!Paths |-> Nothing] /\ index \in Fs!Index /\ Fs!RootedIndex(index)
  <2>1. index = [p \in Fs!Paths |-> Nothing]
    BY DEF Fs!Init
  <2> QED
    BY <1>1, <2>1 DEF Fs!Index, Fs!RootedIndex, Fs!NoneAssumption
<1>5. searchable = [f \in Files |-> index[f]]
  BY <1>1, <1>4 DEF Fs!Init
<1>6. Elsewhere
  BY <1>2, <1>4, <1>5 DEF Fs!Init, Elsewhere, Fs!RootedDisk
<1>7. Fs!Frontier
  BY <1>2, <1>3, SearchOperators DEF Fs!Frontier, Fs!InIndex
<1>8. Fs!ScanInv
  BY <1>3 DEF Fs!Init, Fs!ScanInv, Fs!Finds
<1>9. ScanState
  BY <1>2, <1>3, <1>7, <1>8 DEF Fs!Init, ScanState, Fs!PageMatches
<1>10. ViewState
  BY <1>3 DEF Fs!Init, ViewState, Fs!Awaits, Fs!ResultsMatch, Fs!Active
<1> QED
  BY <1>6, <1>9, <1>10, SearchInvIs

LEMMA SearchSteps ==
  ASSUME Fs!SearchAssumption, Fs!SearchInv, [Fs!Next]_(Fs!vars)
  PROVE  Fs!SearchInv'
<1>1. CASE UNCHANGED Fs!vars
  <2>1. Elsewhere /\ ScanState /\ ViewState
    BY SearchInvIs
  <2>2. /\ UNCHANGED <<paths, edits, showing, virtual, reloading, active, begun, editing, query,
                       loader_ignored, index, selection, searchable, matches>>
        /\ UNCHANGED <<pending_directories, page, complete, truncated, projection_requested,
                       projection_applied, projection>>
        /\ UNCHANGED <<scanned_entries, examined_entries, skipped_directories, steady, absent,
                       panicked, limit, queue_full, keys, failures>>
    BY <1>1 DEF Fs!vars, Fs!disk, Fs!tree, Fs!typed, Fs!indexed, Fs!scan, Fs!counts, Fs!shown,
                Fs!ghosts, Fs!environment
  <2>3. ScanState' /\ ViewState'
    BY <2>1, <2>2, SearchScanRests, SearchRests
  <2>4. Elsewhere'
    BY <2>1, <2>2 DEF Elsewhere, Fs!RootedDisk, Fs!RootedIndex
  <2> QED
    BY <2>3, <2>4 DEF Elsewhere, ScanState, ViewState, Fs!SearchInv, Fs!TypeOK
<1>2. ASSUME NEW p \in Fs!Paths, Fs!MakePath(p) \/ Fs!RemovePath(p) PROVE Fs!SearchInv'
  BY <1>2, SearchEdits
<1>3. ASSUME Fs!Backspace \/ Fs!Clear \/ \E c \in Letters : Fs!AppendQuery(c)
      PROVE  Fs!SearchInv'
  BY <1>3, SearchInvIs, SearchRetypes, SearchTyping
<1>4. ASSUME NEW f \in Files, Fs!Select(f) PROVE Fs!SearchInv'
  BY <1>4, SearchPicks
<1> QED
  BY <1>1, <1>2, <1>3, <1>4, SearchStatus, SearchReloads, SearchQueueing, SearchBegins,
     SearchLeaves, SearchLoads, SearchPageEnds, SearchPagePanics, SearchShows
  DEF Fs!Next

(* The types of the search, for any project, ignore rules and limits.      *)
THEOREM SearchTypes == Fs!SearchAssumption => (Fs!Spec => []Fs!TypeOK)
<1> SUFFICES ASSUME Fs!SearchAssumption
             PROVE  Fs!Spec => []Fs!TypeOK
  OBVIOUS
<1>1. Fs!Init => Fs!SearchInv
  BY SearchStarts
<1>2. Fs!SearchInv /\ [Fs!Next]_(Fs!vars) => Fs!SearchInv'
  BY SearchSteps
<1>3. Fs!SearchInv => Fs!TypeOK
  BY DEF Fs!SearchInv
<1> QED
  BY <1>1, <1>2, <1>3, PTL DEF Fs!Spec

(* A search that says it is complete has found what has been there since   *)
(* its scan began, and nothing that has been gone since (ScanCovers),      *)
(* whatever is made, removed, hidden, retried or lost on the way, and      *)
(* however large the project and its pages are.                            *)
THEOREM SearchFindsAll == Fs!SearchAssumption => (Fs!Spec => []Fs!ScanCovers)
<1> SUFFICES ASSUME Fs!SearchAssumption
             PROVE  Fs!Spec => []Fs!ScanCovers
  OBVIOUS
<1>1. Fs!Init => Fs!SearchInv
  BY SearchStarts
<1>2. Fs!SearchInv /\ [Fs!Next]_(Fs!vars) => Fs!SearchInv'
  BY SearchSteps
<1>3. Fs!SearchInv => Fs!ScanCovers
  <2> SUFFICES ASSUME Fs!SearchInv, complete, page = Nothing, ~truncated,
                      skipped_directories = 0, "page" \notin panicked
               PROVE  /\ \A f \in steady : Fs!VisibleTo(loader_ignored, f) => index[f] # Nothing
                      /\ \A f \in absent : index[f] # "file"
    BY DEF Fs!ScanCovers
  <2>1. ScanState
    BY SearchInvIs
  <2>2. Fs!Waiting = <<>> /\ Fs!Finds(index, Fs!Waiting)
    BY <2>1 DEF ScanState, Fs!ScanInv, Fs!Undisturbed, Fs!Waiting
  <2>3. Sought(index, <<>>, steady, absent, loader_ignored)
    BY <2>2, SearchFinds
  <2>4. Nothing # "file"
    BY DEF Fs!SearchAssumption, Fs!NoneAssumption
  <2> QED
    BY <2>3, <2>4, SearchNone DEF Sought
<1> QED
  BY <1>1, <1>2, <1>3, PTL DEF Fs!Spec

(* The rows of a search at rest are the entries of the index that match    *)
(* the query, and the row selected is one of them (ResultsMatch), however  *)
(* keys, pages, status commands and a full queue came in between.          *)
THEOREM SearchShowsMatches == Fs!SearchAssumption => (Fs!Spec => []Fs!ResultsMatch)
<1> SUFFICES ASSUME Fs!SearchAssumption
             PROVE  Fs!Spec => []Fs!ResultsMatch
  OBVIOUS
<1>1. Fs!Init => Fs!SearchInv
  BY SearchStarts
<1>2. Fs!SearchInv /\ [Fs!Next]_(Fs!vars) => Fs!SearchInv'
  BY SearchSteps
<1>3. Fs!SearchInv => Fs!ResultsMatch
  BY DEF Fs!SearchInv
<1> QED
  BY <1>1, <1>2, <1>3, PTL DEF Fs!Spec

-----------------------------------------------------------------------------
(* The two panes of the Files view, over the directories and files of the  *)
(* search: ChangesPane.                                                    *)
CONSTANTS WorkspaceFiles, MaxStatusEntries, Repositories, Heights
VARIABLES repo, backend, show_ignored, nodes, statuses, changed_files, visible_rows, expanded,
          desired_expanded, pending, refresh, status_seen, status_is_stale, failure_notice,
          pane_input_notice, inserting, focused_pane, changed_selected, viewport_offset,
          changed_offset, height, panes, screen, read, intents, faults

Cp == INSTANCE ChangesPane
        WITH Dirs <- Folders, None <- Nothing, Ignored <- Excluded, MaxEdits <- MostEdits,
             MaxIntents <- MostKeys, MaxFaults <- MostFaults

LEMMA PaneOperators ==
  /\ \A S : Cp!Cardinality(S) = Cardinality(S) /\ (Cp!IsFiniteSet(S) <=> IsFiniteSet(S))
  /\ \A s : Cp!ToSet(s) = Range(s) /\ (Cp!IsInjective(s) <=> IsInjective(s))
  /\ Cp!PathsAssumption <=> Fs!PathsAssumption
  /\ Cp!Root = Fs!Root /\ Cp!Paths = Fs!Paths /\ Cp!Places = Fs!Places
  /\ \A p, q : /\ Cp!Below(p, q) <=> Fs!Below(p, q)
               /\ Cp!IsPrefix(p, q) <=> Fs!IsPrefix(p, q)
               /\ Cp!PathLess(p, q) <=> Fs!PathLess(p, q)
  /\ \A p : Cp!Parent(p) = Fs!Parent(p)
<1>1. \A S : Cp!Cardinality(S) = Cardinality(S)
  BY DEF Cp!Cardinality, Cardinality
<1>2. \A S : Cp!IsFiniteSet(S) <=> IsFiniteSet(S)
  BY DEF Cp!IsFiniteSet, IsFiniteSet
<1>3. \A s : Cp!ToSet(s) = Range(s) /\ (Cp!IsInjective(s) <=> IsInjective(s))
  BY DEF Cp!ToSet, Range, Cp!IsInjective, IsInjective
<1>4. Cp!Root = Fs!Root /\ Cp!Paths = Fs!Paths /\ Cp!Places = Fs!Places
  BY DEF Cp!Root, Fs!Root, Cp!Paths, Fs!Paths, Cp!Places, Fs!Places
<1>5. Cp!PathsAssumption <=> Fs!PathsAssumption
  BY <1>2, <1>4, SearchOperators DEF Cp!PathsAssumption, Fs!PathsAssumption
<1>6. \A p, q : Cp!IsPrefix(p, q) <=> Fs!IsPrefix(p, q)
  BY DEF Cp!IsPrefix, Fs!IsPrefix
<1>7. \A p, q : Cp!Below(p, q) <=> Fs!Below(p, q)
  BY <1>6 DEF Cp!Below, Fs!Below, Cp!IsStrictPrefix, Fs!IsStrictPrefix
<1>8. \A p, q : Cp!PathLess(p, q) <=> Fs!PathLess(p, q)
  BY <1>6 DEF Cp!PathLess, Fs!PathLess, Cp!IsStrictPrefix, Fs!IsStrictPrefix
<1>9. \A p : Cp!Parent(p) = Fs!Parent(p)
  BY DEF Cp!Parent, Fs!Parent, Cp!Front, Fs!Front
<1> QED
  BY <1>1, <1>2, <1>3, <1>4, <1>5, <1>6, <1>7, <1>8, <1>9

(* What is above and below a path.                                         *)
LEMMA PanePaths ==
  ASSUME Cp!PathsAssumption
  PROVE  /\ Cp!Paths = Folders \cup Files /\ Folders \cap Files = {} /\ Cp!Root \notin Cp!Paths
         /\ Cp!Places = Folders \cup {Cp!Root} /\ Cp!Places \subseteq Seq(Nat)
         /\ Cp!Paths \subseteq Seq(Nat)
         /\ IsFiniteSet(Cp!Paths) /\ IsFiniteSet(Files) /\ IsFiniteSet(Cp!Places)
         /\ \A p \in Cp!Paths \cup Cp!Places : Len(p) \in Nat
         /\ \A p \in Cp!Paths : Cp!Below(p, Cp!Root) /\ ~Cp!Below(Cp!Root, p)
<1>1. Fs!PathsAssumption
  BY PaneOperators
<1>2. /\ Cp!Places \subseteq Seq(Nat) /\ Cp!Paths \subseteq Seq(Nat)
      /\ IsFiniteSet(Cp!Paths) /\ IsFiniteSet(Folders) /\ IsFiniteSet(Files)
      /\ \A p \in Cp!Paths \cup Cp!Places : Len(p) \in Nat
      /\ \A p \in Cp!Paths : Len(p) \in Nat \ {0}
  BY <1>1, PaneOperators, SearchPathTypes
<1>3. IsFiniteSet(Cp!Places)
  BY <1>2, FS_AddElement DEF Cp!Places
<1>4. ASSUME NEW p \in Cp!Paths
      PROVE  Cp!Below(p, Cp!Root) /\ ~Cp!Below(Cp!Root, p)
  <2>1. Cp!Below(p, Cp!Root)
    BY <1>1, PaneOperators, SearchBelowRoot
  <2>2. Cp!Root \in Seq(Nat) /\ p \in Seq(Nat)
    BY <1>2 DEF Cp!Places
  <2>3. ~Cp!Below(Cp!Root, p)
    BY <2>1, <2>2, PaneOperators, SearchBelowIs
  <2> QED
    BY <2>1, <2>3
<1> QED
  BY <1>2, <1>3, <1>4 DEF Cp!Paths, Cp!Places, Cp!PathsAssumption

LEMMA PaneBelow ==
  ASSUME Cp!PathsAssumption, NEW p \in Cp!Paths \cup Cp!Places
  PROVE  /\ ~Cp!Below(p, p)
         /\ \A d \in Cp!Paths \cup Cp!Places :
              /\ Cp!IsPrefix(d, p) <=> d = p \/ Cp!Below(p, d)
              /\ Cp!Below(p, d) => Len(d) < Len(p) /\ d \in Cp!Places /\ p \in Cp!Paths
              /\ \A e \in Cp!Paths \cup Cp!Places :
                   /\ Cp!Below(p, d) /\ Cp!Below(d, e) => Cp!Below(p, e)
                   /\ Cp!Below(p, d) /\ Cp!Below(p, e) => d = e \/ Cp!Below(d, e) \/ Cp!Below(e, d)
<1>1. Fs!PathsAssumption
  BY PaneOperators
<1>2. Cp!Paths \cup Cp!Places \subseteq Seq(Nat)
  BY PanePaths
<1>3. ~Cp!Below(p, p)
  BY <1>2, PaneOperators, SearchBelowIs
<1>4. ASSUME NEW d \in Cp!Paths \cup Cp!Places
      PROVE  Cp!IsPrefix(d, p) <=> d = p \/ Cp!Below(p, d)
  BY <1>2, PaneOperators, SearchBelowIs
<1>5. ASSUME NEW d \in Cp!Paths \cup Cp!Places, Cp!Below(p, d)
      PROVE  Len(d) < Len(p) /\ d \in Cp!Places /\ p \in Cp!Paths
  <2>1. Len(d) < Len(p)
    BY <1>2, <1>5, PaneOperators, SearchPrefixes
  <2>2. p \in Cp!Paths
    <3>1. p # Cp!Root
      <4>1. Len(Cp!Root) = 0 /\ Len(d) \in Nat
        BY <1>2, LenProperties DEF Cp!Root
      <4> QED
        BY <2>1, <4>1
    <3> QED
      BY <3>1, PanePaths
  <2>3. d \in Cp!Places
    BY <1>1, <1>5, <2>2, PaneOperators, PanePaths, SearchAbove
  <2> QED
    BY <2>1, <2>2, <2>3
<1>6. ASSUME NEW d \in Cp!Paths \cup Cp!Places, NEW e \in Cp!Paths \cup Cp!Places
      PROVE  Cp!Below(p, d) /\ Cp!Below(d, e) => Cp!Below(p, e)
  BY <1>2, PaneOperators, SearchBelowIs
<1>7. ASSUME NEW d \in Cp!Paths \cup Cp!Places, NEW e \in Cp!Paths \cup Cp!Places,
             Cp!Below(p, d), Cp!Below(p, e), Len(d) <= Len(e)
      PROVE  d = e \/ Cp!Below(e, d)
  <2>1. /\ \A i \in 1..Len(d) : p[i] = d[i]
        /\ \A i \in 1..Len(e) : p[i] = e[i]
    BY <1>2, <1>7, PaneOperators, SearchPrefixes
  <2>2. Len(d) \in Nat /\ Len(e) \in Nat
    BY <1>2, LenProperties
  <2>3. \A i \in 1..Len(d) : e[i] = d[i]
    BY <1>7, <2>1, <2>2
  <2>4. Fs!IsPrefix(d, e)
    BY <1>2, <1>7, <2>3, SearchPrefixes
  <2> QED
    BY <1>2, <2>4, PaneOperators, SearchBelowIs
<1>8. \A d \in Cp!Paths \cup Cp!Places, e \in Cp!Paths \cup Cp!Places :
         Cp!Below(p, d) /\ Cp!Below(p, e) => d = e \/ Cp!Below(d, e) \/ Cp!Below(e, d)
  <2>1. \A d \in Cp!Paths \cup Cp!Places : Len(d) \in Nat
    BY PanePaths
  <2> QED
    BY <1>7, <2>1
<1> QED
  BY <1>3, <1>4, <1>5, <1>6, <1>8

LEMMA PaneParent ==
  ASSUME Cp!PathsAssumption, NEW p \in Cp!Paths
  PROVE  /\ Cp!Parent(p) \in Cp!Places /\ Cp!Below(p, Cp!Parent(p))
         /\ \A d \in Cp!Places : Cp!Below(p, d) => d = Cp!Parent(p) \/ Cp!Below(Cp!Parent(p), d)
<1>1. Fs!PathsAssumption /\ p \in Fs!Paths
  BY PaneOperators
<1>2. /\ Fs!Parent(p) \in Fs!Places /\ Fs!Below(p, Fs!Parent(p))
      /\ \A d \in Fs!Places : Fs!Below(p, d) => d = Fs!Parent(p) \/ Fs!Below(Fs!Parent(p), d)
  BY <1>1, SearchParents
<1> QED
  BY <1>2, PaneOperators

(* Of directories above a path one is the nearest.                         *)
LEMMA PaneNearest ==
  ASSUME Cp!PathsAssumption, NEW p \in Cp!Paths,
         NEW S \in SUBSET Folders, S # {}, \A d \in S : Cp!Below(p, d)
  PROVE  LET near == CHOOSE d \in S : \A e \in S : Cp!IsPrefix(e, d)
         IN  near \in S /\ \A e \in S : e = near \/ Cp!Below(near, e)
<1> DEFINE near == CHOOSE d \in S : \A e \in S : Cp!IsPrefix(e, d)
<1>1. Fs!PathsAssumption /\ p \in Fs!Paths /\ \A d \in S : Fs!Below(p, d)
  BY PaneOperators
<1>2. \E d \in S : \A e \in S : Fs!IsPrefix(e, d)
  BY <1>1, SearchNearest
<1>3. \E d \in S : \A e \in S : Cp!IsPrefix(e, d)
  BY <1>2, PaneOperators
<1>4. near \in S /\ \A e \in S : Cp!IsPrefix(e, near)
  BY <1>3
<1> HIDE DEF near
<1>5. S \subseteq Cp!Paths \cup Cp!Places
  BY PanePaths
<1>6. \A e \in S : e = near \/ Cp!Below(near, e)
  BY <1>4, <1>5, PaneBelow
<1> QED
  BY <1>4, <1>6 DEF near
(* A finite set in a row has each element once, when its order is strict   *)
(* and total.                                                              *)
LEMMA PaneInOrder ==
  ASSUME NEW S, IsFiniteSet(S), NEW before,
         \A x \in S : <<x, x>> \notin before,
         \A x, y, z \in S : <<x, y>> \in before /\ <<y, z>> \in before => <<x, z>> \in before,
         \A x, y \in S : x # y => <<x, y>> \in before \/ <<y, x>> \in before
  PROVE  /\ Cardinality(S) \in Nat
         /\ Cp!InOrder(S, before) \in [1..Cardinality(S) -> S]
         /\ \A i, j \in 1..Cardinality(S) :
              Cp!InOrder(S, before)[i] = Cp!InOrder(S, before)[j] => i = j
         /\ \A x \in S : \E i \in 1..Cardinality(S) : Cp!InOrder(S, before)[i] = x
         /\ \A i, j \in 1..Cardinality(S) :
              <<Cp!InOrder(S, before)[i], Cp!InOrder(S, before)[j]>> \in before => i < j
<1> DEFINE n == Cardinality(S)
           down(x) == {y \in S : <<y, x>> \in before}
           rank == [x \in S |-> Cardinality(down(x))]
           s == Cp!InOrder(S, before)
<1>1. n \in Nat
  BY FS_CardinalityType
<1>0. n = Cardinality(S)
  OBVIOUS
<1> HIDE DEF n
<1>2. ASSUME NEW x \in S
      PROVE  rank[x] \in 0..(n - 1) /\ rank[x] = Cardinality(down(x))
  <2>1. down(x) \subseteq S \ {x}
    OBVIOUS
  <2>2. IsFiniteSet(S \ {x}) /\ Cardinality(S \ {x}) = n - 1
    BY <1>0, FS_RemoveElement
  <2> HIDE DEF down
  <2>3. IsFiniteSet(down(x)) /\ Cardinality(down(x)) <= n - 1
    BY <2>1, <2>2, FS_Subset
  <2>4. Cardinality(down(x)) \in Nat
    BY <2>3, FS_CardinalityType
  <2> QED
    BY <1>1, <2>3, <2>4
<1>3. ASSUME NEW x \in S, NEW y \in S, <<x, y>> \in before
      PROVE  rank[x] < rank[y]
  <2>1. down(x) \cup {x} \subseteq down(y) /\ x \notin down(x)
    BY <1>3
  <2>2. IsFiniteSet(down(x)) /\ IsFiniteSet(down(y))
    BY FS_Subset
  <2> HIDE DEF down
  <2>3. IsFiniteSet(down(x) \cup {x}) /\ Cardinality(down(x) \cup {x}) = Cardinality(down(x)) + 1
    BY <2>1, <2>2, FS_AddElement
  <2>4. Cardinality(down(x) \cup {x}) <= Cardinality(down(y))
    BY <2>1, <2>2, <2>3, FS_Subset
  <2>5. rank[x] + 1 <= rank[y]
    BY <1>2, <2>3, <2>4
  <2> HIDE DEF rank
  <2> QED
    BY <1>1, <1>2, <2>5
<1>4. s = [i \in 1..n |-> CHOOSE x \in S : Cp!Cardinality({y \in S : <<y, x>> \in before}) = i - 1]
  BY <1>0, PaneOperators DEF Cp!InOrder
<1>5. \A x \in S : Cp!Cardinality({y \in S : <<y, x>> \in before}) = rank[x]
  BY PaneOperators
<1>6. \A x, y \in S : rank[x] = rank[y] => x = y
  <2> HIDE DEF down, rank
  <2> SUFFICES ASSUME NEW x \in S, NEW y \in S, rank[x] = rank[y], x # y
               PROVE  FALSE
    OBVIOUS
  <2>1. rank[x] < rank[y] \/ rank[y] < rank[x]
    BY <1>3
  <2> QED
    BY <1>1, <1>2, <2>1
<1> HIDE DEF down, rank, s
<1>7. \A i \in 1..n : \E x \in S : rank[x] = i - 1
  <2> DEFINE f == [x \in S |-> rank[x] + 1]
  <2>1. f \in Injection(S, 1..n)
    <3>1. \A x \in S : f[x] \in 1..n
      BY <1>1, <1>2
    <3>2. ASSUME NEW x \in S, NEW y \in S, f[x] = f[y]
          PROVE  x = y
      <4>1. rank[x] = rank[y]
        BY <1>1, <1>2, <3>2
      <4> QED
        BY <1>6, <4>1
    <3> QED
      BY <3>1, <3>2 DEF Injection, IsInjective
  <2>2. IsFiniteSet(1..n) /\ Cardinality(1..n) = n
    BY <1>1, FS_Interval
  <2>3. f \in Surjection(S, 1..n)
    BY <1>0, <2>1, <2>2, FS_Injection
  <2>4. \A i \in 1..n : \E x \in S : f[x] = i
    BY <2>3 DEF Surjection
  <2> SUFFICES ASSUME NEW i \in 1..n
               PROVE  \E x \in S : rank[x] = i - 1
    OBVIOUS
  <2>5. PICK x \in S : f[x] = i
    BY <2>4
  <2> QED
    BY <1>1, <1>2, <2>5
<1>8. ASSUME NEW i \in 1..n
      PROVE  s[i] \in S /\ rank[s[i]] = i - 1
  <2>1. \E x \in S : Cp!Cardinality({y \in S : <<y, x>> \in before}) = i - 1
    BY <1>5, <1>7
  <2>2. s[i] = CHOOSE x \in S : Cp!Cardinality({y \in S : <<y, x>> \in before}) = i - 1
    BY <1>4
  <2>3. s[i] \in S /\ Cp!Cardinality({y \in S : <<y, s[i]>> \in before}) = i - 1
    BY <2>1, <2>2
  <2> QED
    BY <1>5, <2>3
<1>9. ASSUME NEW x \in S
      PROVE  rank[x] + 1 \in 1..n /\ s[rank[x] + 1] = x
  <2>1. rank[x] + 1 \in 1..n /\ rank[x] \in Nat
    BY <1>1, <1>2
  <2>2. s[rank[x] + 1] \in S /\ rank[s[rank[x] + 1]] = rank[x]
    BY <1>8, <2>1
  <2> QED
    BY <1>6, <2>1, <2>2
<1>10. \A i, j \in 1..n : s[i] = s[j] => i = j
  BY <1>1, <1>8
<1>11. s \in [1..n -> S]
  BY <1>4, <1>8
<1>12. ASSUME NEW i \in 1..n, NEW j \in 1..n, <<s[i], s[j]>> \in before
       PROVE  i < j
  <2>1. rank[s[i]] < rank[s[j]] /\ rank[s[i]] = i - 1 /\ rank[s[j]] = j - 1
    BY <1>3, <1>8, <1>12
  <2> QED
    BY <1>1, <2>1
<1> QED
  BY <1>0, <1>1, <1>9, <1>10, <1>11, <1>12 DEF s

Behind(g, G, n) == g = [i \in 0..n |-> IF i = 0 THEN <<>> ELSE g[i - 1] \o G[i]]

LEMMA PaneLoop ==
  ASSUME NEW n \in Nat, NEW G
  PROVE  \E g : Behind(g, G, n)
<1> DEFINE Loops(g, m) == Behind(g, G, m)
           Stuck == {m \in 0..n : \A g : ~Loops(g, m)}
<1> HIDE DEF Loops
<1>1. Stuck = {}
  <2> SUFFICES ASSUME Stuck # {} PROVE FALSE
    OBVIOUS
  <2>0. Stuck \subseteq 0..n /\ Stuck \subseteq Nat
    OBVIOUS
  <2>1. PICK m \in Stuck : \A k \in Stuck : ~(<<k, m>> \in OpToRel(<, Nat))
    <3> HIDE DEF Stuck
    <3> QED BY <2>0, WFMin, NatLessThanWellFounded
  <2>2. m \in 0..n /\ \A k \in 0..n : k < m => k \notin Stuck
    <3> HIDE DEF Stuck
    <3> QED BY <2>0, <2>1 DEF OpToRel
  <2>3. CASE m = 0
    <3>1. Loops([i \in 0..0 |-> <<>>], 0)
      BY DEF Loops, Behind
    <3> QED
      BY <2>1, <2>3, <3>1
  <2>4. CASE m # 0
    <3>1. m - 1 \in 0..n /\ m \in Nat
      BY <2>2, <2>4
    <3>2. PICK h : Loops(h, m - 1)
      BY <2>2, <3>1
    <3> DEFINE g == [i \in 0..m |-> IF i = m THEN h[m - 1] \o G[m] ELSE h[i]]
    <3>3. ASSUME NEW i \in 0..m
          PROVE  g[i] = IF i = 0 THEN <<>> ELSE g[i - 1] \o G[i]
      <4>1. CASE i = m
        <5>1. g[i - 1] = h[m - 1] /\ g[i] = h[m - 1] \o G[m]
          BY <2>4, <3>1, <4>1
        <5> QED
          BY <2>4, <4>1, <5>1
      <4>2. CASE i # m
        <5>1. i \in 0..m - 1 /\ g[i] = h[i] /\ (i # 0 => g[i - 1] = h[i - 1])
          BY <3>1, <4>2
        <5>2. h[i] = IF i = 0 THEN <<>> ELSE h[i - 1] \o G[i]
          BY <3>2, <5>1 DEF Loops, Behind
        <5> QED
          BY <5>1, <5>2
      <4> QED
        BY <4>1, <4>2
    <3>4. Loops(g, m)
      <4> HIDE DEF g
      <4>1. g = [i \in 0..m |-> g[i]]
        BY DEF g
      <4> QED
        BY <3>3, <4>1 DEF Loops, Behind
    <3> QED
      BY <2>1, <3>4
  <2> QED
    BY <2>3, <2>4
<1>2. \E g : Loops(g, n)
  <2>1. n \notin Stuck
    BY <1>1
  <2> QED
    BY <2>1
<1> QED
  BY <1>2 DEF Loops
(* Any finite set of paths in the order of paths.                          *)
LEMMA PaneInPathOrder ==
  ASSUME NEW S, IsFiniteSet(S), S \subseteq Seq(Nat)
  PROVE  /\ Cp!InPathOrder(S) \in Seq(S) /\ Range(Cp!InPathOrder(S)) = S
         /\ IsInjective(Cp!InPathOrder(S))
<1> DEFINE before == {pair \in S \X S : Cp!PathLess(pair[1], pair[2])}
           s == Cp!InOrder(S, before)
<1>1. \A x, y \in S : <<x, y>> \in before <=> Fs!PathLess(x, y)
  BY PaneOperators
<1> HIDE DEF before
<1>2. /\ \A x \in S : <<x, x>> \notin before
      /\ \A x, y, z \in S : <<x, y>> \in before /\ <<y, z>> \in before => <<x, z>> \in before
      /\ \A x, y \in S : x # y => <<x, y>> \in before \/ <<y, x>> \in before
  BY <1>1, SearchOrder
<1> HIDE DEF s
<1>3. /\ Cardinality(S) \in Nat
      /\ s \in [1..Cardinality(S) -> S]
      /\ \A i, j \in 1..Cardinality(S) : s[i] = s[j] => i = j
      /\ \A x \in S : \E i \in 1..Cardinality(S) : s[i] = x
  BY <1>2, PaneInOrder DEF s
<1>4. s \in Seq(S) /\ Range(s) = S /\ IsInjective(s)
  BY <1>3 DEF Range, IsInjective
<1>5. Cp!InPathOrder(S) = s
  BY DEF Cp!InPathOrder, s, before
<1> QED
  BY <1>4, <1>5

(* Sequences one behind the other have the elements of each, and each once *)
(* if they have none in common.                                            *)
LEMMA PaneConcat ==
  ASSUME NEW W, NEW v \in Seq(W), NEW w \in Seq(W)
  PROVE  /\ v \o w \in Seq(W) /\ Range(v \o w) = Range(v) \cup Range(w)
         /\ IsInjective(v) /\ IsInjective(w) /\ Range(v) \cap Range(w) = {} => IsInjective(v \o w)
<1> DEFINE u == v \o w
<1>1. /\ Len(v) \in Nat /\ Len(w) \in Nat /\ DOMAIN v = 1..Len(v) /\ DOMAIN w = 1..Len(w)
      /\ u \in Seq(W) /\ DOMAIN u = 1..(Len(v) + Len(w))
      /\ \A i \in 1..Len(v) : u[i] = v[i]
      /\ \A i \in 1..Len(w) : u[Len(v) + i] = w[i]
  BY LenProperties, ConcatProperties
<1>2. Range(u) = Range(v) \cup Range(w)
  BY RangeConcatenation
<1> HIDE DEF u
<1>3. ASSUME IsInjective(v), IsInjective(w), Range(v) \cap Range(w) = {},
             NEW i \in DOMAIN u, NEW j \in DOMAIN u, u[i] = u[j]
      PROVE  i = j
  <2>1. ASSUME NEW k \in DOMAIN u
        PROVE  \/ k \in DOMAIN v /\ u[k] = v[k] /\ u[k] \in Range(v)
               \/ k - Len(v) \in DOMAIN w /\ u[k] = w[k - Len(v)] /\ u[k] \in Range(w)
    <3>1. CASE k <= Len(v)
      BY <1>1, <3>1 DEF Range
    <3>2. CASE k > Len(v)
      <4>1. k - Len(v) \in 1..Len(w) /\ Len(v) + (k - Len(v)) = k
        BY <1>1, <3>2
      <4> QED
        BY <1>1, <4>1 DEF Range
    <3> QED
      BY <1>1, <3>1, <3>2
  <2>2. \/ u[i] \in Range(v) /\ i \in DOMAIN v /\ j \in DOMAIN v /\ v[i] = v[j]
        \/ i - Len(v) \in DOMAIN w /\ j - Len(v) \in DOMAIN w /\ w[i - Len(v)] = w[j - Len(v)]
    BY <1>3, <2>1
  <2>3. i = j \/ i - Len(v) = j - Len(v)
    BY <1>3, <2>2 DEF IsInjective
  <2> QED
    BY <1>1, <2>3
<1>4. IsInjective(v) /\ IsInjective(w) /\ Range(v) \cap Range(w) = {} => IsInjective(u)
  BY <1>3 DEF IsInjective
<1> QED
  BY <1>1, <1>2, <1>4 DEF u

LEMMA PaneFlattened ==
  ASSUME NEW W, NEW n \in Nat, NEW G \in [1..n -> Seq(W)], NEW u, Behind(u, G, n),
         \A i \in 1..n : IsInjective(G[i]),
         \A i, j \in 1..n : i # j => Range(G[i]) \cap Range(G[j]) = {}
  PROVE  /\ u[n] \in Seq(W) /\ Range(u[n]) = UNION {Range(G[i]) : i \in 1..n}
         /\ IsInjective(u[n])
<1> DEFINE join(v, w) == v \o w
<1>3. ASSUME NEW i \in 0..n
      PROVE  u[i] = IF i = 0 THEN <<>> ELSE join(u[i - 1], G[i])
  BY DEF Behind
<1> HIDE DEF join
<1>4. u[0] = <<>> /\ \A i \in 1..n : u[i] = join(u[i - 1], G[i])
  BY <1>3
<1> DEFINE all(m) == UNION {Range(G[i]) : i \in 1..m}
           Right(m) == u[m] \in Seq(W) /\ Range(u[m]) = all(m) /\ IsInjective(u[m])
           Wrong == {m \in 0..n : ~Right(m)}
<1> HIDE DEF Right
<1>5. Wrong = {}
  <2> SUFFICES ASSUME Wrong # {} PROVE FALSE
    OBVIOUS
  <2>0. Wrong \subseteq Nat /\ Wrong \subseteq 0..n
    OBVIOUS
  <2>1. PICK m \in Wrong : \A k \in Wrong : ~(<<k, m>> \in OpToRel(<, Nat))
    <3> HIDE DEF Wrong
    <3> QED BY <2>0, WFMin, NatLessThanWellFounded
  <2>2. m \in 0..n /\ \A k \in 0..n : k < m => k \notin Wrong
    <3> HIDE DEF Wrong
    <3> QED BY <2>0, <2>1 DEF OpToRel
  <2>3. m # 0
    <3>1. all(0) = {} /\ Range(<<>>) = {} /\ <<>> \in Seq(W) /\ IsInjective(<<>>)
      BY DEF Range, IsInjective
    <3>2. Right(0)
      BY <1>4, <3>1 DEF Right
    <3> QED
      BY <2>1, <3>2
  <2>4. m - 1 \in 0..n /\ m \in 1..n
    BY <2>2, <2>3
  <2>10. Right(m - 1)
    BY <2>2, <2>4
  <2>5. u[m - 1] \in Seq(W) /\ Range(u[m - 1]) = all(m - 1) /\ IsInjective(u[m - 1])
    BY <2>10 DEF Right
  <2>6. u[m] = join(u[m - 1], G[m]) /\ G[m] \in Seq(W) /\ IsInjective(G[m])
    BY <1>4, <2>4
  <2>11. all(m - 1) \cap Range(G[m]) = {}
    <3>1. \A i \in 1..m - 1 : i \in 1..n /\ i # m
      BY <2>4
    <3> QED
      BY <2>4, <3>1
  <2>7. u[m] \in Seq(W) /\ Range(u[m]) = Range(u[m - 1]) \cup Range(G[m]) /\ IsInjective(u[m])
    <3> DEFINE v == u[m - 1]
               w == G[m]
    <3>1. v \in Seq(W) /\ w \in Seq(W) /\ u[m] = v \o w /\ Range(v) \cap Range(w) = {}
          /\ IsInjective(v) /\ IsInjective(w)
      BY <2>5, <2>6, <2>11 DEF join
    <3> HIDE DEF v, w
    <3>2. v \o w \in Seq(W) /\ Range(v \o w) = Range(v) \cup Range(w) /\ IsInjective(v \o w)
      BY <3>1, PaneConcat
    <3> QED
      BY <3>1, <3>2 DEF v, w
  <2>8. all(m) = all(m - 1) \cup Range(G[m])
    <3>1. 1..m = 1..m - 1 \cup {m}
      BY <2>4
    <3> QED
      BY <3>1
  <2>9. Right(m)
    BY <2>5, <2>7, <2>8 DEF Right
  <2> QED
    BY <2>1, <2>9
<1>6. Right(n)
  BY <1>5
<1> QED
  BY <1>6 DEF Right

LEMMA PaneBehind ==
  ASSUME NEW n \in Nat, NEW G, NEW u, Behind(u, G, n)
  PROVE  u[0] = <<>> /\ \A i \in 1..n : u[i] = u[i - 1] \o G[i]
<1> DEFINE join(v, w) == v \o w
<1>1. ASSUME NEW i \in 0..n
      PROVE  u[i] = IF i = 0 THEN <<>> ELSE join(u[i - 1], G[i])
  BY DEF Behind
<1> HIDE DEF join
<1>2. u[0] = <<>> /\ \A i \in 1..n : u[i] = join(u[i - 1], G[i])
  BY <1>1
<1> QED
  BY <1>2 DEF join

LEMMA PaneFlattens ==
  ASSUME NEW W, NEW n \in Nat, NEW G \in [1..n -> Seq(W)]
  PROVE  \E u : Behind(u, G, n) /\ Cp!FlattenSeq(G) = u[n]
<1>1. G \in Seq(Seq(W)) /\ Len(G) = n
  OBVIOUS
<1>2. CASE n = 0
  <2>1. G = <<>> /\ Cp!FlattenSeq(G) = G
    BY <1>1, <1>2, EmptySeq DEF Cp!FlattenSeq
  <2>2. Behind([i \in 0..0 |-> <<>>], G, 0)
    BY DEF Behind
  <2> QED
    BY <1>2, <2>1, <2>2
<1>3. CASE n # 0
  <2> DEFINE Loop(f) == f = [i \in 1..n |-> IF i = 1 THEN G[i] ELSE f[i - 1] \o G[i]]
             flatten == CHOOSE f : Loop(f)
  <2>1. Cp!FlattenSeq(G) = flatten[n]
    BY <1>1, <1>3 DEF Cp!FlattenSeq
  <2>2. PICK g : Behind(g, G, n)
    BY PaneLoop
  <2>3. g[0] = <<>> /\ \A i \in 1..n : g[i] = g[i - 1] \o G[i]
    BY <2>2, PaneBehind
  <2>4. g[1] = G[1]
    <3>1. 1 \in 1..n
      BY <1>3
    <3>2. g[1] = g[1 - 1] \o G[1]
      BY <2>3, <3>1
    <3>6. g[1 - 1] = <<>>
      BY <2>3
    <3>3. g[1] = <<>> \o G[1]
      BY <3>2, <3>6
    <3>4. G[1] \in Seq(W)
      BY <3>1
    <3>5. <<>> \o G[1] = G[1]
      BY <3>4, ConcatEmptySeq
    <3> QED
      BY <3>3, <3>5
  <2>5. Loop([i \in 1..n |-> g[i]])
    <3> DEFINE f == [i \in 1..n |-> g[i]]
    <3>1. ASSUME NEW i \in 1..n
          PROVE  f[i] = IF i = 1 THEN G[i] ELSE f[i - 1] \o G[i]
      <4>1. CASE i = 1
        BY <2>4, <4>1
      <4>2. CASE i # 1
        <5>1. i - 1 \in 1..n
          BY <4>2
        <5> QED
          BY <2>3, <4>2, <5>1
      <4> QED
        BY <4>1, <4>2
    <3>2. f = [i \in 1..n |-> f[i]]
      OBVIOUS
    <3> HIDE DEF f
    <3>3. Loop(f)
      BY <3>1, <3>2
    <3> QED
      BY <3>3 DEF f
  <2>6. Loop(flatten)
    <3> HIDE DEF Loop
    <3> QED
      BY <2>5
  <2> HIDE DEF flatten
  <2> DEFINE u == [i \in 0..n |-> IF i = 0 THEN <<>> ELSE flatten[i]]
  <2>7. \A i \in 1..n : flatten[i] = IF i = 1 THEN G[i] ELSE flatten[i - 1] \o G[i]
    BY <2>6
  <2> HIDE DEF Loop
  <2>8. Behind(u, G, n)
    <3>1. ASSUME NEW i \in 0..n
          PROVE  u[i] = IF i = 0 THEN <<>> ELSE u[i - 1] \o G[i]
      <4>1. CASE i = 0
        BY <4>1
      <4>2. CASE i = 1
        <5>1. u[0] = <<>> /\ u[i] = G[1] /\ G[1] \in Seq(W)
          BY <1>3, <2>7, <4>2
        <5>2. <<>> \o G[1] = G[1]
          BY <5>1, ConcatEmptySeq
        <5> QED
          BY <4>2, <5>1, <5>2
      <4>3. CASE i # 0 /\ i # 1
        <5>1. i - 1 \in 1..n /\ i - 1 \in 0..n /\ i \in 1..n /\ i - 1 # 0
          BY <4>3
        <5> QED
          BY <2>7, <4>3, <5>1
      <4> QED
        BY <4>1, <4>2, <4>3
    <3>2. u = [i \in 0..n |-> u[i]]
      OBVIOUS
    <3> HIDE DEF u
    <3> QED
      BY <3>1, <3>2 DEF Behind
  <2>9. u[n] = flatten[n]
    BY <1>3
  <2> HIDE DEF u
  <2> QED
    BY <2>1, <2>8, <2>9
<1> QED
  BY <1>2, <1>3

LEMMA PaneFlatten ==
  ASSUME NEW W, NEW n \in Nat, NEW G \in [1..n -> Seq(W)],
         \A i \in 1..n : IsInjective(G[i]),
         \A i, j \in 1..n : i # j => Range(G[i]) \cap Range(G[j]) = {}
  PROVE  /\ Cp!FlattenSeq(G) \in Seq(W)
         /\ Range(Cp!FlattenSeq(G)) = UNION {Range(G[i]) : i \in 1..n}
         /\ IsInjective(Cp!FlattenSeq(G))
<1> DEFINE flat == Cp!FlattenSeq(G)
<1>1. PICK u : Behind(u, G, n) /\ flat = u[n]
  BY PaneFlattens
<1> HIDE DEF flat
<1>2. u[n] \in Seq(W) /\ Range(u[n]) = UNION {Range(G[i]) : i \in 1..n} /\ IsInjective(u[n])
  BY ONLY <1>1, PaneFlattened, n \in Nat, G \in [1..n -> Seq(W)],
     \A i \in 1..n : IsInjective(G[i]),
     \A i, j \in 1..n : i # j => Range(G[i]) \cap Range(G[j]) = {}
<1>3. /\ flat \in Seq(W) /\ Range(flat) = UNION {Range(G[i]) : i \in 1..n} /\ IsInjective(flat)
  BY <1>1, <1>2
<1> QED
  BY <1>3 DEF flat

LEMMA PaneFlatHead ==
  ASSUME NEW W, NEW n \in Nat \ {0}, NEW G \in [1..n -> Seq(W)], G[1] # <<>>
  PROVE  Cp!FlattenSeq(G) # <<>> /\ Cp!FlattenSeq(G)[1] = G[1][1]
<1>1. PICK u : Behind(u, G, n) /\ Cp!FlattenSeq(G) = u[n]
  BY PaneFlattens
<1> DEFINE Fine(i) == u[i] \in Seq(W) /\ Len(u[i]) > 0 /\ u[i][1] = G[1][1]
           Wrong == {i \in 1..n : ~Fine(i)}
<1>0. n \in Nat
  OBVIOUS
<1>2. u[0] = <<>> /\ \A i \in 1..n : u[i] = u[i - 1] \o G[i]
  BY ONLY <1>0, <1>1, PaneBehind
<1>3. G[1] \in Seq(W) /\ Len(G[1]) \in Nat \ {0} /\ \A i \in 1..n : G[i] \in Seq(W)
  BY LenProperties, EmptySeq
<1>4. Fine(1)
  <2>1. 1 \in 1..n /\ 1 - 1 = 0
    OBVIOUS
  <2>4. u[1] = u[1 - 1] \o G[1]
    BY <1>2, <2>1
  <2>5. u[1 - 1] = <<>>
    BY <1>2
  <2>2. u[1] = <<>> \o G[1]
    BY <2>4, <2>5
  <2>3. u[1] = G[1]
    BY <1>3, <2>2, ConcatEmptySeq
  <2> QED
    BY <1>3, <2>3
<1>5. ASSUME NEW i \in 1..n, NEW j \in 1..n, j = i - 1, Fine(j)
      PROVE  Fine(i)
  <2> DEFINE v == u[j]
             w == G[i]
  <2>1. v \in Seq(W) /\ w \in Seq(W) /\ Len(v) \in Nat /\ Len(v) > 0 /\ v[1] = G[1][1]
    BY <1>3, <1>5, LenProperties
  <2>2. u[i] = v \o w
    BY <1>2, <1>5
  <2> HIDE DEF v, w
  <2>3. Len(w) \in Nat /\ v \o w \in Seq(W) /\ Len(v \o w) = Len(v) + Len(w)
        /\ (v \o w)[1] = v[1]
    BY <2>1, LenProperties, ConcatProperties
  <2> QED
    BY <2>1, <2>2, <2>3
<1> HIDE DEF Fine
<1>6. Wrong = {}
  <2> SUFFICES ASSUME Wrong # {} PROVE FALSE
    OBVIOUS
  <2>0. Wrong \subseteq Nat /\ Wrong \subseteq 1..n
    OBVIOUS
  <2>1. PICK m \in Wrong : \A k \in Wrong : ~(<<k, m>> \in OpToRel(<, Nat))
    <3> HIDE DEF Wrong
    <3> QED BY <2>0, WFMin, NatLessThanWellFounded
  <2>2. m \in 1..n /\ \A k \in 1..n : k < m => k \notin Wrong
    <3> HIDE DEF Wrong
    <3> QED BY <2>0, <2>1 DEF OpToRel
  <2>3. m # 1
    BY <1>4, <2>1
  <2>4. m - 1 \in 1..n /\ m - 1 < m
    BY <2>2, <2>3
  <2>5. Fine(m - 1)
    BY <2>2, <2>4
  <2> QED
    BY <1>5, <2>1, <2>2, <2>4, <2>5
<1>7. Fine(n)
  BY <1>6
<1> QED
  BY <1>1, <1>7, LenProperties DEF Fine
-----------------------------------------------------------------------------
(* The tree: a directory lists directories and files, and only a deleted   *)
(* file is there without its directory.                                    *)
RootedTree(kinds) ==
    /\ kinds \in [Cp!Paths -> {Nothing, "directory", "file", "virtual"}]
    /\ \A d \in Folders : kinds[d] \in {Nothing, "directory"}
    /\ \A f \in Files : kinds[f] # "directory"
    /\ \A p \in Cp!Paths : kinds[p] \in {"directory", "file"} =>
                              Cp!Parent(p) = Cp!Root \/ kinds[Cp!Parent(p)] = "directory"
IsPlace(kinds, d) == d = Cp!Root \/ (d \in Folders /\ kinds[d] = "directory")
Nearest(kinds, p, d) ==
    /\ IsPlace(kinds, d) /\ Cp!Below(p, d)
    /\ \A e \in Folders : Cp!Below(p, e) /\ kinds[e] = "directory" => e = d \/ Cp!Below(d, e)

(* A node is shown below the nearest directory.                            *)
LEMMA PaneDisplayParent ==
  ASSUME Cp!PathsAssumption, NEW kinds, RootedTree(kinds), NEW p \in Cp!Paths, kinds[p] # Nothing
  PROVE  Nearest(kinds, p, Cp!DisplayParent(kinds, p))
<1> DEFINE above == {d \in Folders : Cp!Below(p, d) /\ kinds[d] = "directory"}
<1>1. CASE kinds[p] # "virtual"
  <2>1. Cp!DisplayParent(kinds, p) = Cp!Parent(p)
    BY <1>1 DEF Cp!DisplayParent
  <2>2. kinds[p] \in {"directory", "file"}
    BY <1>1 DEF RootedTree
  <2>3. IsPlace(kinds, Cp!Parent(p))
    BY <2>2, PaneParent, PanePaths DEF RootedTree, IsPlace
  <2>4. Folders \subseteq Cp!Places
    BY PanePaths
  <2> QED
    BY <2>1, <2>3, <2>4, PaneParent DEF Nearest
<1>2. CASE kinds[p] = "virtual" /\ above = {}
  <2>1. Cp!DisplayParent(kinds, p) = Cp!Root
    BY <1>2 DEF Cp!DisplayParent
  <2> QED
    BY <1>2, <2>1, PanePaths DEF Nearest, IsPlace
<1>3. CASE kinds[p] = "virtual" /\ above # {}
  <2> DEFINE near == CHOOSE d \in above : \A e \in above : Cp!IsPrefix(e, d)
  <2>1. Cp!DisplayParent(kinds, p) = near
    BY <1>3 DEF Cp!DisplayParent
  <2>2. above \in SUBSET Folders /\ \A d \in above : Cp!Below(p, d)
    OBVIOUS
  <2>3. \A e \in Folders : Cp!Below(p, e) /\ kinds[e] = "directory" => e \in above
    OBVIOUS
  <2>4. \A e \in above : kinds[e] = "directory"
    OBVIOUS
  <2> HIDE DEF above
  <2>5. near \in above /\ \A e \in above : e = near \/ Cp!Below(near, e)
    BY <1>3, <2>2, PaneNearest
  <2> HIDE DEF near
  <2> QED
    BY <2>1, <2>2, <2>3, <2>4, <2>5 DEF Nearest, IsPlace
<1> QED
  BY <1>1, <1>2, <1>3

LEMMA PaneNearestOnce ==
  ASSUME Cp!PathsAssumption, NEW kinds, NEW p \in Cp!Paths, NEW d, NEW e,
         Nearest(kinds, p, d), Nearest(kinds, p, e)
  PROVE  d = e
<1>1. d \in Cp!Places /\ e \in Cp!Places /\ Folders \subseteq Cp!Paths
  BY PanePaths DEF Nearest, IsPlace
<1>2. d = e \/ Cp!Below(d, e)
  BY <1>1, PanePaths DEF Nearest, IsPlace
<1>3. d = e \/ Cp!Below(e, d)
  BY <1>1, PanePaths DEF Nearest, IsPlace
<1> QED
  BY <1>1, <1>2, <1>3, PaneBelow

(* The nodes of a directory, each once.                                    *)
NodesOf(kinds, d) == {p \in Cp!Paths : kinds[p] # Nothing /\ Cp!DisplayParent(kinds, p) = d}

(* Directories come first, then the order of paths.                        *)
ShownBefore(kinds, p, q) ==
    \/ kinds[p] = "directory" /\ kinds[q] # "directory"
    \/ (kinds[p] = "directory" <=> kinds[q] = "directory") /\ Cp!PathLess(p, q)

LEMMA PaneChildren ==
  ASSUME Cp!PathsAssumption, NEW kinds, NEW d
  PROVE  /\ Cp!Children(kinds, d) \in Seq(Cp!Paths)
         /\ Range(Cp!Children(kinds, d)) = NodesOf(kinds, d)
         /\ IsInjective(Cp!Children(kinds, d))
         /\ \A i, j \in DOMAIN Cp!Children(kinds, d) :
              ShownBefore(kinds, Cp!Children(kinds, d)[i], Cp!Children(kinds, d)[j]) => i < j
<1> DEFINE S == NodesOf(kinds, d)
           Folder(p) == kinds[p] = "directory"
           before == {pair \in S \X S :
                        \/ Folder(pair[1]) /\ ~Folder(pair[2])
                        \/ (Folder(pair[1]) <=> Folder(pair[2])) /\ Cp!PathLess(pair[1], pair[2])}
           s == Cp!InOrder(S, before)
<1>1. Cp!Children(kinds, d) = s
  BY DEF Cp!Children, NodesOf
<1>2. S \subseteq Cp!Paths /\ S \subseteq Seq(Nat) /\ IsFiniteSet(S)
  BY PanePaths, FS_Subset DEF NodesOf
<1>3. \A x, y \in S : <<x, y>> \in before <=>
                         \/ Folder(x) /\ ~Folder(y)
                         \/ (Folder(x) <=> Folder(y)) /\ Fs!PathLess(x, y)
  BY PaneOperators
<1>0. \A x, y \in S : <<x, y>> \in before <=> ShownBefore(kinds, x, y)
  BY DEF ShownBefore
<1> HIDE DEF before, S, Folder
<1>4. /\ \A x \in S : <<x, x>> \notin before
      /\ \A x, y, z \in S : <<x, y>> \in before /\ <<y, z>> \in before => <<x, z>> \in before
      /\ \A x, y \in S : x # y => <<x, y>> \in before \/ <<y, x>> \in before
  <2>1. /\ \A x \in S : ~Fs!PathLess(x, x)
        /\ \A x, y, z \in S : Fs!PathLess(x, y) /\ Fs!PathLess(y, z) => Fs!PathLess(x, z)
        /\ \A x, y \in S : x = y \/ Fs!PathLess(x, y) \/ Fs!PathLess(y, x)
    BY <1>2, SearchOrder
  <2> QED
    BY <1>3, <2>1
<1> HIDE DEF s
<1>5. /\ Cardinality(S) \in Nat
      /\ s \in [1..Cardinality(S) -> S]
      /\ \A i, j \in 1..Cardinality(S) : s[i] = s[j] => i = j
      /\ \A x \in S : \E i \in 1..Cardinality(S) : s[i] = x
      /\ \A i, j \in 1..Cardinality(S) : <<s[i], s[j]>> \in before => i < j
  BY <1>2, <1>4, PaneInOrder DEF s
<1>6. s \in Seq(Cp!Paths) /\ Range(s) = S /\ IsInjective(s)
  BY <1>2, <1>5 DEF Range, IsInjective
<1>7. \A i, j \in DOMAIN s : ShownBefore(kinds, s[i], s[j]) => i < j
  BY <1>0, <1>5
<1> QED
  BY <1>1, <1>6, <1>7 DEF S

-----------------------------------------------------------------------------
(* The rows, defined from the directories below: what is below a path is   *)
(* less than what is below one above it.                                   *)
Size(d) == Cardinality({q \in Cp!Paths : Cp!Below(q, d)})

LEMMA PaneSize ==
  ASSUME Cp!PathsAssumption
  PROVE  /\ \A d \in Cp!Places : Size(d) \in Nat
         /\ \A d \in Cp!Places, c \in Cp!Places : Cp!Below(c, d) => Size(c) < Size(d)
<1> DEFINE under(d) == {q \in Cp!Paths : Cp!Below(q, d)}
<1>1. \A d : IsFiniteSet(under(d)) /\ Cardinality(under(d)) \in Nat
  BY PanePaths, FS_Subset, FS_CardinalityType
<1>2. ASSUME NEW d \in Cp!Places, NEW c \in Cp!Places, Cp!Below(c, d)
      PROVE  Cardinality(under(c)) < Cardinality(under(d))
  <2>1. under(c) \subseteq under(d) /\ c \in under(d) /\ c \notin under(c)
    BY <1>2, PaneBelow
  <2> DEFINE A == under(c)
             B == under(d)
  <2>2. IsFiniteSet(B) /\ A \in SUBSET B /\ A # B
        /\ Cardinality(A) \in Nat /\ Cardinality(B) \in Nat
    BY <1>1, <2>1
  <2> HIDE DEF A, B
  <2>3. Cardinality(A) < Cardinality(B)
    BY <2>2, FS_Subset
  <2> QED
    BY <2>3 DEF A, B
<1> QED
  BY <1>1, <1>2 DEF Size

Piece(kinds, open, below, c) ==
    IF kinds[c] = "directory" /\ c \in open THEN <<c>> \o below[c] ELSE <<c>>
Pieces(kinds, open, below, d) ==
    [i \in DOMAIN Cp!Children(kinds, d) |-> Piece(kinds, open, below, Cp!Children(kinds, d)[i])]
Unfolds(kinds, open, below) ==
    below = [d \in Cp!Places |-> Cp!FlattenSeq(Pieces(kinds, open, below, d))]

LEMMA PaneSamePieces ==
  ASSUME Cp!PathsAssumption, NEW kinds, RootedTree(kinds), NEW open, NEW g, NEW h, NEW d \in Cp!Places,
         \A c \in Cp!Places : Cp!Below(c, d) => g[c] = h[c]
  PROVE  Pieces(kinds, open, g, d) = Pieces(kinds, open, h, d)
<1> DEFINE children == Cp!Children(kinds, d)
<1>1. ASSUME NEW i \in DOMAIN children
      PROVE  Piece(kinds, open, g, children[i]) = Piece(kinds, open, h, children[i])
  <2>1. children[i] \in NodesOf(kinds, d)
    BY PaneChildren DEF Range
  <2> DEFINE c == children[i]
  <2> HIDE DEF children
  <2>2. c \in Cp!Paths /\ kinds[c] # Nothing /\ Cp!DisplayParent(kinds, c) = d
    BY <2>1 DEF NodesOf
  <2> HIDE DEF c
  <2>3. Cp!Below(c, d)
    BY <2>2, PaneDisplayParent DEF Nearest
  <2>4. kinds[c] = "directory" => c \in Cp!Places
    BY <2>2, PanePaths DEF RootedTree
  <2>5. kinds[c] = "directory" => g[c] = h[c]
    BY <2>3, <2>4
  <2>6. Piece(kinds, open, g, c) = Piece(kinds, open, h, c)
    BY <2>5 DEF Piece
  <2> QED
    BY <2>6 DEF c
<1> HIDE DEF children
<1> QED
  BY <1>1 DEF Pieces, children

LEMMA PaneUnfolds ==
  ASSUME Cp!PathsAssumption, NEW kinds, RootedTree(kinds), NEW open
  PROVE  \E below : Unfolds(kinds, open, below) /\ Cp!Rows(kinds, open) = below[Cp!Root]
<1> DEFINE Step(g, d) == Cp!FlattenSeq(Pieces(kinds, open, g, d))
           Fits(g, n) == /\ g = [d \in Cp!Places |-> g[d]]
                         /\ \A d \in Cp!Places : Size(d) < n => g[d] = Step(g, d)
           Stuck == {n \in Nat : \A g : ~Fits(g, n)}
<1>1. ASSUME NEW g, NEW h, NEW d \in Cp!Places,
             \A c \in Cp!Places : Cp!Below(c, d) => g[c] = h[c]
      PROVE  Step(g, d) = Step(h, d)
  BY <1>1, PaneSamePieces
<1>2. \A d \in Cp!Places : Size(d) \in Nat
  BY PaneSize
<1> HIDE DEF Step
<1>3. Stuck = {}
  <2> SUFFICES ASSUME Stuck # {} PROVE FALSE
    OBVIOUS
  <2>0. Stuck \subseteq Nat
    OBVIOUS
  <2>1. PICK n \in Stuck : \A k \in Stuck : ~(<<k, n>> \in OpToRel(<, Nat))
    <3> HIDE DEF Stuck
    <3> QED BY <2>0, WFMin, NatLessThanWellFounded
  <2>2. n \in Nat /\ \A k \in Nat : k < n => k \notin Stuck
    <3> HIDE DEF Stuck
    <3> QED BY <2>0, <2>1 DEF OpToRel
  <2>3. CASE n = 0
    <3> DEFINE none == [d \in Cp!Places |-> <<>>]
    <3>1. Fits(none, 0)
      BY <1>2
    <3> QED
      BY <2>1, <2>3, <3>1
  <2>4. CASE n # 0
    <3>1. n - 1 \in Nat /\ n - 1 < n
      BY <2>2, <2>4
    <3>2. n - 1 \notin Stuck
      <4> HIDE DEF Stuck
      <4> QED BY <2>2, <3>1
    <3>3. PICK g : Fits(g, n - 1)
      BY <3>1, <3>2
    <3> DEFINE h == [d \in Cp!Places |-> IF Size(d) < n THEN Step(g, d) ELSE <<>>]
    <3>4. ASSUME NEW d \in Cp!Places, Size(d) < n
          PROVE  h[d] = Step(h, d)
      <4>1. ASSUME NEW c \in Cp!Places, Cp!Below(c, d)
            PROVE  g[c] = h[c]
        <5>1. Size(c) < Size(d) /\ Size(c) \in Nat /\ Size(d) \in Nat
          BY <4>1, PaneSize
        <5>2. Size(c) < n - 1 /\ Size(c) < n
          BY <2>2, <3>4, <5>1
        <5> QED
          BY <3>3, <5>2
      <4>2. Step(g, d) = Step(h, d)
        <5> HIDE DEF h
        <5> QED BY <1>1, <4>1
      <4> QED
        BY <3>4, <4>2
    <3>5. Fits(h, n)
      <4>1. h = [d \in Cp!Places |-> h[d]]
        OBVIOUS
      <4> HIDE DEF h
      <4> QED
        BY <3>4, <4>1
    <3> QED
      BY <2>1, <3>5
  <2> QED
    BY <2>3, <2>4
<1> DEFINE top == Size(Cp!Root) + 1
<1>4. top \in Nat /\ \A d \in Cp!Places : Size(d) < top
  <2>1. Cp!Root \in Cp!Places /\ Size(Cp!Root) \in Nat
    BY <1>2, PanePaths
  <2>2. ASSUME NEW d \in Cp!Places
        PROVE  Size(d) < top
    <3>1. d = Cp!Root \/ Cp!Below(d, Cp!Root)
      BY PanePaths
    <3> QED
      BY <1>2, <2>1, <3>1, PaneSize
  <2> QED
    BY <2>1, <2>2
<1> HIDE DEF top
<1>5. PICK g : Fits(g, top)
  BY <1>3, <1>4
<1>6. \A d \in Cp!Places : g[d] = Step(g, d)
  BY <1>4, <1>5
<1>7. \E below : below = [d \in Cp!Places |-> Step(below, d)]
  BY <1>5, <1>6
<1> DEFINE below == CHOOSE below : below = [d \in Cp!Places |-> Step(below, d)]
<1>8. below = [d \in Cp!Places |-> Step(below, d)]
  BY <1>7
<1>9. Cp!Rows(kinds, open) = below[Cp!Root]
  BY DEF Cp!Rows, Step, Pieces, Piece
<1> QED
  BY <1>8, <1>9 DEF Unfolds, Step
-----------------------------------------------------------------------------
(* What is shown below a directory is what all directories between are     *)
(* open for.                                                               *)
Under(kinds, open, d) ==
    {p \in Cp!Paths : /\ kinds[p] # Nothing /\ Cp!Below(p, d)
                      /\ \A e \in Folders : Cp!Below(p, e) /\ Cp!Below(e, d)
                                               /\ kinds[e] = "directory" => e \in open}
Opens(kinds, open, c) == kinds[c] = "directory" /\ c \in open
Part(kinds, open, c) == {c} \cup IF Opens(kinds, open, c) THEN Under(kinds, open, c) ELSE {}

LEMMA PaneParts ==
  ASSUME Cp!PathsAssumption, Cp!NoneAssumption, NEW kinds, RootedTree(kinds), NEW open, NEW d, IsPlace(kinds, d)
  PROVE  UNION {Part(kinds, open, c) : c \in NodesOf(kinds, d)} = Under(kinds, open, d)
<1>0. d \in Cp!Places /\ Folders \subseteq Cp!Paths /\ Folders \subseteq Cp!Places
  BY PanePaths DEF IsPlace
<1>1. ASSUME NEW c \in NodesOf(kinds, d)
      PROVE  /\ c \in Cp!Paths /\ kinds[c] # Nothing /\ Nearest(kinds, c, d) /\ Cp!Below(c, d)
             /\ \A e \in Folders : ~(Cp!Below(c, e) /\ Cp!Below(e, d) /\ kinds[e] = "directory")
  <2>1. c \in Cp!Paths /\ kinds[c] # Nothing /\ Nearest(kinds, c, d)
    BY PaneDisplayParent DEF NodesOf
  <2>2. Cp!Below(c, d)
    BY <2>1 DEF Nearest
  <2>3. ASSUME NEW e \in Folders, Cp!Below(c, e), Cp!Below(e, d), kinds[e] = "directory"
        PROVE  FALSE
    <3>1. e = d \/ Cp!Below(d, e)
      BY <2>1, <2>3 DEF Nearest
    <3>2. ~Cp!Below(d, d)
      BY <1>0, PaneBelow
    <3>3. Cp!Below(d, e) => Cp!Below(d, d)
      BY <1>0, <2>3, PaneBelow
    <3> QED
      BY <2>3, <3>1, <3>2, <3>3
  <2> QED
    BY <2>1, <2>2, <2>3
<1>2. ASSUME NEW c \in NodesOf(kinds, d), NEW p \in Part(kinds, open, c)
      PROVE  p \in Under(kinds, open, d)
  <2>1. CASE p = c
    BY <1>1, <2>1 DEF Under
  <2>2. CASE p # c
    <3>1. Opens(kinds, open, c) /\ p \in Under(kinds, open, c)
      BY <1>2, <2>2 DEF Part
    <3>2. p \in Cp!Paths /\ kinds[p] # Nothing /\ Cp!Below(p, c)
      BY <3>1 DEF Under
    <3>3. Cp!Below(p, d)
      BY <1>0, <1>1, <3>2, PaneBelow
    <3>4. ASSUME NEW e \in Folders, Cp!Below(p, e), Cp!Below(e, d), kinds[e] = "directory"
          PROVE  e \in open
      <4>1. e = c \/ Cp!Below(e, c) \/ Cp!Below(c, e)
        BY <1>0, <1>1, <3>2, <3>4, PaneBelow
      <4>2. CASE e = c
        BY <3>1, <4>2 DEF Opens
      <4>3. CASE Cp!Below(e, c)
        BY <3>1, <3>4, <4>3 DEF Under
      <4>4. CASE Cp!Below(c, e)
        BY <1>1, <3>4, <4>4
      <4> QED
        BY <4>1, <4>2, <4>3, <4>4
    <3> QED
      BY <3>2, <3>3, <3>4 DEF Under
  <2> QED
    BY <2>1, <2>2
<1>3. ASSUME NEW p \in Under(kinds, open, d)
      PROVE  \E c \in NodesOf(kinds, d) : p \in Part(kinds, open, c)
  <2>1. /\ p \in Cp!Paths /\ kinds[p] # Nothing /\ Cp!Below(p, d)
        /\ \A e \in Folders : Cp!Below(p, e) /\ Cp!Below(e, d) /\ kinds[e] = "directory" => e \in open
    BY DEF Under
  <2> DEFINE between == {e \in Folders : Cp!Below(p, e) /\ Cp!Below(e, d) /\ kinds[e] = "directory"}
  <2>2. ASSUME NEW c \in Cp!Paths, kinds[c] # Nothing, Cp!Below(c, d),
               \A e \in Folders : Cp!Below(c, e) /\ Cp!Below(e, d) => kinds[e] # "directory"
        PROVE  c \in NodesOf(kinds, d)
    <3> DEFINE shown == Cp!DisplayParent(kinds, c)
    <3>1. Nearest(kinds, c, shown)
      BY <2>2, PaneDisplayParent
    <3> HIDE DEF shown
    <3>2. IsPlace(kinds, shown) /\ Cp!Below(c, shown) /\ shown \in Cp!Places
      BY <3>1, PanePaths DEF Nearest, IsPlace
    <3>3. ~Cp!Below(shown, d)
      <4>1. shown # Cp!Root \/ ~Cp!Below(shown, d)
        BY <1>0, PanePaths, PaneBelow
      <4> QED
        BY <2>2, <3>2, <4>1 DEF IsPlace
    <3>4. shown = d \/ Cp!Below(d, shown)
      BY <1>0, <2>2, <3>2, <3>3, PaneBelow
    <3>5. Cp!Below(d, shown) => d \in Folders /\ kinds[d] = "directory"
      <4>1. d = Cp!Root => ~Cp!Below(d, shown)
        BY <3>2, PanePaths, PaneBelow
      <4> QED
        BY <4>1 DEF IsPlace
    <3>6. ~Cp!Below(d, shown)
      <4>1. Cp!Below(d, shown) => d = shown \/ Cp!Below(shown, d)
        BY <2>2, <3>1, <3>5 DEF Nearest
      <4> QED
        BY <1>0, <3>3, <4>1, PaneBelow
    <3> QED
      BY <2>2, <3>4, <3>6 DEF NodesOf, shown
  <2>3. CASE between = {}
    <3>1. p \in NodesOf(kinds, d)
      BY <2>1, <2>2, <2>3
    <3> QED
      BY <3>1 DEF Part
  <2>4. CASE between # {}
    <3>0. between \subseteq Folders
      OBVIOUS
    <3>1. \A e \in between : Cp!Below(p, e) /\ Cp!Below(e, d) /\ kinds[e] = "directory" /\ Len(e) \in Nat
      BY <1>0, PanePaths
    <3>2. \A e \in Folders : Cp!Below(p, e) /\ Cp!Below(e, d) /\ kinds[e] = "directory" => e \in between
      OBVIOUS
    <3> HIDE DEF between
    <3>3. PICK c \in between : \A e \in between : ~(Len(e) < Len(c))
      <4> DEFINE lengths == {Len(e) : e \in between}
      <4>1. lengths \subseteq Nat /\ lengths # {}
        BY <2>4, <3>1
      <4> HIDE DEF lengths
      <4>2. PICK n \in lengths : \A m \in lengths : ~(<<m, n>> \in OpToRel(<, Nat))
        BY <4>1, NatLessThanWellFounded, WFMin
      <4>3. \A m \in lengths : ~(m < n)
        BY <4>1, <4>2 DEF OpToRel
      <4> QED
        BY <4>3 DEF lengths
    <3>4. c \in Folders /\ c \in Cp!Paths /\ kinds[c] # Nothing /\ Cp!Below(c, d) /\ Cp!Below(p, c)
          /\ kinds[c] = "directory"
      <4>1. kinds[c] = "directory" /\ c \in Folders
        BY <3>0, <3>1, <3>3
      <4>2. kinds[c] # Nothing
        BY <4>1 DEF Cp!NoneAssumption
      <4> QED
        BY <1>0, <3>1, <3>3, <4>1, <4>2
    <3>5. \A e \in Folders : Cp!Below(c, e) /\ Cp!Below(e, d) => kinds[e] # "directory"
      <4> SUFFICES ASSUME NEW e \in Folders, Cp!Below(c, e), Cp!Below(e, d), kinds[e] = "directory"
                   PROVE  FALSE
        OBVIOUS
      <4>1. Cp!Below(p, e) /\ Len(e) < Len(c)
        BY <1>0, <2>1, <3>4, PaneBelow
      <4> QED
        BY <3>2, <3>3, <4>1
    <3>6. c \in NodesOf(kinds, d)
      BY <2>2, <3>4, <3>5
    <3>7. c \in open
      BY <2>1, <3>4
    <3>8. p \in Under(kinds, open, c)
      <4> SUFFICES ASSUME NEW e \in Folders, Cp!Below(p, e), Cp!Below(e, c), kinds[e] = "directory"
                   PROVE  e \in open
        BY <2>1, <3>4 DEF Under
      <4>1. Cp!Below(e, d)
        BY <1>0, <3>4, PaneBelow
      <4> QED
        BY <2>1, <4>1
    <3> QED
      BY <3>4, <3>6, <3>7, <3>8 DEF Part, Opens
  <2> QED
    BY <2>3, <2>4
<1> QED
  BY <1>2, <1>3

LEMMA PaneApart ==
  ASSUME Cp!PathsAssumption, NEW kinds, RootedTree(kinds), NEW open, NEW d, IsPlace(kinds, d),
         NEW b \in NodesOf(kinds, d), NEW c \in NodesOf(kinds, d), b # c
  PROVE  Part(kinds, open, b) \cap Part(kinds, open, c) = {}
<1>0. d \in Cp!Places /\ Folders \subseteq Cp!Paths /\ Folders \subseteq Cp!Places
  BY PanePaths DEF IsPlace
<1>1. ASSUME NEW x \in NodesOf(kinds, d)
      PROVE  /\ x \in Cp!Paths /\ kinds[x] # Nothing /\ Nearest(kinds, x, d) /\ Cp!Below(x, d)
             /\ \A p \in Part(kinds, open, x) :
                  /\ p \in Cp!Paths
                  /\ p = x \/ (Cp!Below(p, x) /\ kinds[x] = "directory" /\ x \in Folders)
  BY PaneDisplayParent DEF NodesOf, Nearest, Part, Opens, Under, RootedTree, Cp!Paths
<1>2. ASSUME NEW x \in NodesOf(kinds, d), NEW y \in NodesOf(kinds, d), Cp!Below(y, x),
             kinds[x] = "directory", x \in Folders
      PROVE  FALSE
  <2>1. x = d \/ Cp!Below(d, x)
    BY <1>1, <1>2 DEF Nearest
  <2>2. Cp!Below(x, d) /\ x \in Cp!Places
    BY <1>0, <1>1, <1>2
  <2> QED
    BY <1>0, <2>1, <2>2, PaneBelow
<1>3. ASSUME NEW p \in Part(kinds, open, b), p \in Part(kinds, open, c)
      PROVE  FALSE
  <2>1. b \in Cp!Paths /\ c \in Cp!Paths /\ p \in Cp!Paths
    BY <1>1, <1>3
  <2>2. CASE p = b
    BY <1>1, <1>2, <1>3, <2>2
  <2>3. CASE p = c
    BY <1>1, <1>2, <1>3, <2>3
  <2>4. CASE p # b /\ p # c
    <3>1. /\ Cp!Below(p, b) /\ kinds[b] = "directory" /\ b \in Folders
          /\ Cp!Below(p, c) /\ kinds[c] = "directory" /\ c \in Folders
      BY <1>1, <1>3, <2>4
    <3>2. Cp!Below(b, c) \/ Cp!Below(c, b)
      BY <2>1, <3>1, PaneBelow
    <3> QED
      BY <1>2, <3>1, <3>2
  <2> QED
    BY <2>2, <2>3, <2>4
<1> QED
  BY <1>3

RowsBelow(kinds, open, below, d) ==
    /\ below[d] \in Seq(Cp!Paths) /\ Range(below[d]) = Under(kinds, open, d)
    /\ IsInjective(below[d])

LEMMA PaneOne ==
  ASSUME NEW c \in Cp!Paths
  PROVE  <<c>> \in Seq(Cp!Paths) /\ Range(<<c>>) = {c} /\ IsInjective(<<c>>)
BY DEF Range, IsInjective

LEMMA PanePiece ==
  ASSUME Cp!PathsAssumption, NEW kinds, RootedTree(kinds), NEW open, NEW below, NEW c \in Cp!Paths,
         Opens(kinds, open, c) => RowsBelow(kinds, open, below, c)
  PROVE  /\ Piece(kinds, open, below, c) \in Seq(Cp!Paths)
         /\ Range(Piece(kinds, open, below, c)) = Part(kinds, open, c)
         /\ IsInjective(Piece(kinds, open, below, c))
<1>1. CASE Opens(kinds, open, c)
  <2> DEFINE b == below[c]
             o == <<c>>
  <2>1. Piece(kinds, open, below, c) = o \o b
    BY <1>1 DEF Piece, Opens
  <2>2. Part(kinds, open, c) = {c} \cup Under(kinds, open, c)
    BY <1>1 DEF Part
  <2>3. b \in Seq(Cp!Paths) /\ Range(b) = Under(kinds, open, c) /\ IsInjective(b)
    BY <1>1 DEF RowsBelow
  <2>4. o \in Seq(Cp!Paths) /\ Range(o) = {c} /\ IsInjective(o)
    BY PaneOne
  <2>5. c \notin Under(kinds, open, c)
    BY PaneBelow DEF Under
  <2> HIDE DEF b, o
  <2>6. /\ o \o b \in Seq(Cp!Paths) /\ Range(o \o b) = Range(o) \cup Range(b)
        /\ IsInjective(o \o b)
    <3>1. Range(o) \cap Range(b) = {}
      BY <2>3, <2>4, <2>5
    <3> QED
      BY <2>3, <2>4, <3>1, PaneConcat
  <2> DEFINE u == o \o b
  <2>7. u \in Seq(Cp!Paths) /\ Range(u) = Range(o) \cup Range(b) /\ IsInjective(u)
        /\ Piece(kinds, open, below, c) = u
    BY <2>1, <2>6
  <2> HIDE DEF u
  <2> QED
    BY <2>2, <2>3, <2>4, <2>7
<1>2. CASE ~Opens(kinds, open, c)
  <2>1. Piece(kinds, open, below, c) = <<c>> /\ Part(kinds, open, c) = {c}
    BY <1>2 DEF Piece, Part, Opens
  <2> QED
    BY <2>1, PaneOne
<1> QED
  BY <1>1, <1>2

LEMMA PaneRowsBelow ==
  ASSUME Cp!PathsAssumption, Cp!NoneAssumption, NEW kinds, RootedTree(kinds), NEW open, NEW below,
         Unfolds(kinds, open, below), NEW d, IsPlace(kinds, d)
  PROVE  RowsBelow(kinds, open, below, d)
<1> DEFINE Wrong == {n \in Nat : \E e \in Cp!Places : /\ IsPlace(kinds, e) /\ Size(e) = n
                                                     /\ ~RowsBelow(kinds, open, below, e)}
<1>1. Wrong = {}
  <2> SUFFICES ASSUME Wrong # {} PROVE FALSE
    OBVIOUS
  <2>0. Wrong \subseteq Nat
    OBVIOUS
  <2>1. PICK n \in Wrong : \A k \in Wrong : ~(<<k, n>> \in OpToRel(<, Nat))
    <3> HIDE DEF Wrong
    <3> QED BY <2>0, WFMin, NatLessThanWellFounded
  <2>2. n \in Nat /\ \A k \in Nat : k < n => k \notin Wrong
    <3> HIDE DEF Wrong
    <3> QED BY <2>0, <2>1 DEF OpToRel
  <2>3. PICK e \in Cp!Places : IsPlace(kinds, e) /\ Size(e) = n
                                /\ ~RowsBelow(kinds, open, below, e)
    BY <2>1
  <2>4. ASSUME NEW c \in Cp!Places, Cp!Below(c, e), IsPlace(kinds, c)
        PROVE  RowsBelow(kinds, open, below, c)
    <3>1. Size(c) < n /\ Size(c) \in Nat
      BY <2>3, <2>4, PaneSize
    <3> QED
      BY <2>2, <2>4, <3>1
  <2> HIDE DEF Wrong
  <2> DEFINE children == Cp!Children(kinds, e)
             m == Len(children)
             G == Pieces(kinds, open, below, e)
  <2>5. /\ children \in Seq(Cp!Paths) /\ Range(children) = NodesOf(kinds, e)
        /\ IsInjective(children)
    BY PaneChildren
  <2>6. G = [i \in DOMAIN children |-> Piece(kinds, open, below, children[i])]
    BY DEF Pieces
  <2> HIDE DEF children, G
  <2>7. m \in Nat /\ DOMAIN children = 1..m
    BY <2>5, LenProperties
  <2> HIDE DEF m
  <2>8. ASSUME NEW i \in 1..m
        PROVE  /\ children[i] \in NodesOf(kinds, e)
               /\ G[i] \in Seq(Cp!Paths) /\ Range(G[i]) = Part(kinds, open, children[i])
               /\ IsInjective(G[i])
    <3> DEFINE c == children[i]
    <3>1. c \in NodesOf(kinds, e) /\ G[i] = Piece(kinds, open, below, c)
      BY <2>5, <2>6, <2>7 DEF Range
    <3> HIDE DEF c
    <3>2. c \in Cp!Paths /\ kinds[c] # Nothing /\ Cp!Below(c, e)
      BY <3>1, PaneDisplayParent DEF NodesOf, Nearest
    <3>3. Opens(kinds, open, c) => RowsBelow(kinds, open, below, c)
      <4> SUFFICES ASSUME Opens(kinds, open, c)
                   PROVE  RowsBelow(kinds, open, below, c)
        OBVIOUS
      <4>1. c \in Folders /\ kinds[c] = "directory"
        BY <3>2, PanePaths DEF Opens, RootedTree
      <4>2. c \in Cp!Places /\ IsPlace(kinds, c)
        BY <4>1, PanePaths DEF IsPlace
      <4> QED
        BY <2>4, <3>2, <4>2
    <3>4. /\ G[i] \in Seq(Cp!Paths) /\ Range(G[i]) = Part(kinds, open, c)
          /\ IsInjective(G[i])
      BY <3>1, <3>2, <3>3, PanePiece
    <3> QED
      BY <3>1, <3>4 DEF c
  <2>9. ASSUME NEW i \in 1..m, NEW j \in 1..m, i # j
        PROVE  Range(G[i]) \cap Range(G[j]) = {}
    <3>1. children[i] # children[j]
      BY <2>5, <2>7, <2>9 DEF IsInjective
    <3>2. Part(kinds, open, children[i]) \cap Part(kinds, open, children[j]) = {}
      BY <2>3, <2>8, <3>1, PaneApart
    <3> QED
      BY <2>8, <3>2
  <2>10. G \in [1..m -> Seq(Cp!Paths)]
    <3>1. \A i \in 1..m : G[i] \in Seq(Cp!Paths)
      BY <2>8
    <3>2. G = [i \in 1..m |-> G[i]]
      BY <2>6, <2>7
    <3> QED
      BY <3>1, <3>2
  <2> DEFINE all == Cp!FlattenSeq(G)
  <2>11. /\ all \in Seq(Cp!Paths) /\ Range(all) = UNION {Range(G[i]) : i \in 1..m}
         /\ IsInjective(all)
    BY <2>7, <2>8, <2>9, <2>10, PaneFlatten
  <2>12. UNION {Range(G[i]) : i \in 1..m} = UNION {Part(kinds, open, c) : c \in NodesOf(kinds, e)}
    <3>1. \A c \in NodesOf(kinds, e) : \E i \in 1..m : c = children[i]
      BY <2>5, <2>7 DEF Range
    <3> QED
      BY <2>8, <3>1
  <2>13. Range(all) = Under(kinds, open, e)
    BY <2>3, <2>11, <2>12, PaneParts
  <2>14. below[e] = all
    BY DEF Unfolds, G
  <2> HIDE DEF all
  <2>15. RowsBelow(kinds, open, below, e)
    BY <2>11, <2>13, <2>14 DEF RowsBelow
  <2> QED
    BY <2>3, <2>15
<1>2. d \in Cp!Places /\ Size(d) \in Nat
  BY PaneSize, PanePaths DEF IsPlace
<1> QED
  BY <1>1, <1>2

(* The rows are the nodes all of whose directories are open, each once.    *)
ShownRows(kinds, open) ==
    {p \in Cp!Paths : /\ kinds[p] # Nothing
                      /\ \A e \in Folders : Cp!Below(p, e) /\ kinds[e] = "directory" => e \in open}

LEMMA PaneRows ==
  ASSUME Cp!PathsAssumption, Cp!NoneAssumption, NEW kinds, RootedTree(kinds), NEW open
  PROVE  /\ Cp!Rows(kinds, open) \in Seq(Cp!Paths)
         /\ Range(Cp!Rows(kinds, open)) = ShownRows(kinds, open)
         /\ IsInjective(Cp!Rows(kinds, open))
<1>1. PICK below : Unfolds(kinds, open, below) /\ Cp!Rows(kinds, open) = below[Cp!Root]
  BY PaneUnfolds
<1>2. RowsBelow(kinds, open, below, Cp!Root)
  BY <1>1, PaneRowsBelow DEF IsPlace
<1>3. Under(kinds, open, Cp!Root) = ShownRows(kinds, open)
  <2>1. Folders \subseteq Cp!Paths
    BY PanePaths
  <2> QED
    BY <2>1, PanePaths DEF Under, ShownRows
<1> QED
  BY <1>1, <1>2, <1>3 DEF RowsBelow
-----------------------------------------------------------------------------
(* A listing of a directory of the tree, and the deleted files of a        *)
(* status, leave it a tree.                                                *)
LEMMA PaneListed ==
  ASSUME Cp!PathsAssumption, Cp!NoneAssumption, NEW kinds, RootedTree(kinds), NEW d,
         IsPlace(kinds, d), NEW entries \in SUBSET Cp!Paths, \A p \in entries : Cp!Parent(p) = d
  PROVE  RootedTree(Cp!ListedNodes(kinds, d, entries))
<1> DEFINE removed == {p \in Cp!Paths : /\ Cp!Parent(p) = d /\ p \notin entries
                                        /\ kinds[p] \notin {Nothing, "virtual"}}
           gone == {p \in Cp!Paths : p \in removed \/ \E r \in removed : Cp!Below(p, r)}
           new == Cp!ListedNodes(kinds, d, entries)
<1>1. new = [p \in Cp!Paths |-> IF p \in entries THEN Cp!Kind(p)
                                ELSE IF kinds[p] = "virtual" THEN "virtual"
                                ELSE IF p \in gone THEN Nothing ELSE kinds[p]]
  BY DEF Cp!ListedNodes
<1>2. \A r \in removed : r \in Cp!Paths /\ Cp!Parent(r) = d
  OBVIOUS
<1>3. \A p \in Cp!Paths : p \in gone <=> (p \in removed \/ \E r \in removed : Cp!Below(p, r))
  OBVIOUS
<1> HIDE DEF removed, gone, new
<1>4. Cp!Paths = Folders \cup Files /\ Folders \cap Files = {} /\ Cp!Places = Folders \cup {Cp!Root}
      /\ Cp!Root \notin Cp!Paths
  BY PanePaths
<1>5. \A p \in Cp!Paths : Cp!Kind(p) = IF p \in Folders THEN "directory" ELSE "file"
  BY DEF Cp!Kind
<1>6. \A p \in Cp!Paths : kinds[p] \in {Nothing, "directory", "file", "virtual"}
  BY DEF RootedTree
<1>7. new \in [Cp!Paths -> {Nothing, "directory", "file", "virtual"}]
  BY <1>1, <1>5, <1>6
<1>8. \A e \in Folders : new[e] \in {Nothing, "directory"}
  BY <1>1, <1>4, <1>5 DEF RootedTree, Cp!NoneAssumption
<1>9. \A f \in Files : new[f] # "directory"
  BY <1>1, <1>4, <1>5 DEF RootedTree, Cp!NoneAssumption
<1>10. ASSUME NEW p \in Cp!Paths, new[p] \in {"directory", "file"}, Cp!Parent(p) # Cp!Root
       PROVE  new[Cp!Parent(p)] = "directory"
  <2> DEFINE q == Cp!Parent(p)
  <2>1. q \in Folders /\ q \in Cp!Paths /\ Cp!Below(p, q)
    BY <1>4, <1>10, PaneParent
  <2>2. CASE p \in entries
    <3>1. q = d /\ kinds[q] = "directory"
      BY <1>10, <2>2 DEF IsPlace
    <3>2. q \notin entries /\ q \notin removed
      <4>1. ~Cp!Below(q, q) /\ Cp!Below(q, Cp!Parent(q))
        BY <1>4, <2>1, PaneBelow, PaneParent
      <4> QED
        BY <1>2, <3>1, <4>1
    <3>3. ASSUME NEW r \in removed, Cp!Below(q, r)
          PROVE  FALSE
      <4>1. Cp!Below(r, q) /\ r \in Cp!Paths
        BY <1>2, <3>1, PaneParent
      <4>2. Cp!Below(q, q)
        BY <2>1, <3>3, <4>1, PaneBelow
      <4> QED
        BY <2>1, <4>2, PaneBelow
    <3>4. q \notin gone
      BY <1>3, <2>1, <3>2, <3>3
    <3> QED
      BY <1>1, <2>1, <3>1, <3>2, <3>4
  <2>3. CASE p \notin entries
    <3>1. kinds[p] \in {"directory", "file"} /\ p \notin gone
      BY <1>1, <1>10, <2>3 DEF Cp!NoneAssumption
    <3>2. kinds[q] = "directory"
      BY <1>10, <3>1 DEF RootedTree
    <3>3. q \notin removed
      BY <1>3, <2>1, <3>1
    <3>4. ASSUME NEW r \in removed, Cp!Below(q, r)
          PROVE  FALSE
      <4>1. Cp!Below(p, r)
        BY <1>2, <2>1, <3>4, PaneBelow
      <4> QED
        BY <1>3, <3>1, <4>1
    <3>5. q \notin gone
      BY <1>3, <2>1, <3>3, <3>4
    <3> QED
      BY <1>1, <1>5, <2>1, <3>2, <3>5
  <2> QED
    BY <2>2, <2>3
<1> QED
  BY <1>7, <1>8, <1>9, <1>10 DEF RootedTree, new

LEMMA PaneOverlay ==
  ASSUME Cp!PathsAssumption, Cp!NoneAssumption, NEW kinds, RootedTree(kinds),
         NEW deleted \in SUBSET Files
  PROVE  RootedTree(Cp!SyncOverlay(kinds, deleted))
<1> DEFINE new == Cp!SyncOverlay(kinds, deleted)
<1>1. new = [p \in Cp!Paths |-> IF p \in deleted THEN "virtual"
                                ELSE IF kinds[p] = "virtual" THEN Nothing ELSE kinds[p]]
  BY DEF Cp!SyncOverlay
<1> HIDE DEF new
<1>2. Cp!Paths = Folders \cup Files /\ Folders \cap Files = {} /\ Cp!Places = Folders \cup {Cp!Root}
  BY PanePaths
<1>3. \A p \in Cp!Paths : Cp!Parent(p) \in Folders \cup {Cp!Root}
  BY <1>2, PaneParent
<1>4. new \in [Cp!Paths -> {Nothing, "directory", "file", "virtual"}]
  BY <1>1 DEF RootedTree
<1>5. \A d \in Folders : new[d] = kinds[d]
  BY <1>1, <1>2 DEF RootedTree, Cp!NoneAssumption
<1>6. \A p \in Cp!Paths : new[p] \in {"directory", "file"} => new[p] = kinds[p]
  BY <1>1 DEF Cp!NoneAssumption
<1>7. \A f \in Files : new[f] # "directory"
  BY <1>2, <1>6 DEF RootedTree
<1>8. ASSUME NEW p \in Cp!Paths, new[p] \in {"directory", "file"}, Cp!Parent(p) # Cp!Root
      PROVE  new[Cp!Parent(p)] = "directory"
  BY <1>3, <1>5, <1>6, <1>8 DEF RootedTree
<1> QED
  BY <1>4, <1>5, <1>7, <1>8 DEF RootedTree, new

-----------------------------------------------------------------------------
(* What is selected when the tree has changed is a node of it, and a row   *)
(* once the rows are those of the tree.                                    *)
LEMMA PaneFirst ==
  ASSUME Cp!PathsAssumption, Cp!NoneAssumption, NEW kinds, RootedTree(kinds), NEW open
  PROVE  Cp!OrderedFirst(kinds) \in ShownRows(kinds, open) \cup {Nothing}
<1> DEFINE top == {p \in Cp!Paths : kinds[p] # Nothing /\ Cp!DisplayParent(kinds, p) = Cp!Root}
           dirs == {p \in top : kinds[p] = "directory"}
           rows == IF dirs # {} THEN dirs ELSE top
<1>1. CASE top = {}
  BY <1>1 DEF Cp!OrderedFirst
<1>2. CASE top # {}
  <2>1. rows \subseteq top /\ rows # {}
    BY <1>2
  <2>2. Cp!OrderedFirst(kinds) = CHOOSE p \in rows : \A q \in rows \ {p} : Cp!PathLess(p, q)
    BY <1>2 DEF Cp!OrderedFirst
  <2>3. ASSUME NEW p \in top
        PROVE  p \in ShownRows(kinds, open)
    <3>1. Nearest(kinds, p, Cp!Root) /\ p \in Cp!Paths /\ kinds[p] # Nothing
      BY PaneDisplayParent
    <3>2. \A e \in Folders : e # Cp!Root /\ ~Cp!Below(Cp!Root, e)
      BY PanePaths
    <3> QED
      BY <3>1, <3>2 DEF Nearest, ShownRows
  <2>4. top \subseteq Cp!Paths
    OBVIOUS
  <2> HIDE DEF rows, top
  <2>5. IsFiniteSet(rows) /\ rows \subseteq Seq(Nat)
    BY <2>1, <2>4, PanePaths, FS_Subset
  <2>6. \E p \in rows : \A q \in rows \ {p} : Fs!PathLess(p, q)
    BY <2>1, <2>5, SearchFirst
  <2>7. \E p \in rows : \A q \in rows \ {p} : Cp!PathLess(p, q)
    BY <2>6, PaneOperators
  <2> QED
    BY <2>1, <2>2, <2>3, <2>7
<1> QED
  BY <1>1, <1>2

LEMMA PaneSelects ==
  ASSUME Cp!PathsAssumption, Cp!NoneAssumption, NEW kinds, RootedTree(kinds),
         NEW s \in Cp!Paths \cup {Nothing}
  PROVE  /\ Cp!RestoreSelection(kinds, s) \in Cp!Paths \cup {Nothing}
         /\ Cp!RestoreSelection(kinds, s) # Nothing => kinds[Cp!RestoreSelection(kinds, s)] # Nothing
         /\ \A open : s \in ShownRows(kinds, open) \cup {Nothing} =>
                         Cp!RestoreSelection(kinds, s) \in ShownRows(kinds, open) \cup {Nothing}
<1> DEFINE above == {d \in Folders : Cp!Below(s, d) /\ kinds[d] # Nothing}
           chosen == Cp!RestoreSelection(kinds, s)
<1>1. \A open : Cp!OrderedFirst(kinds) \in ShownRows(kinds, open) \cup {Nothing}
  BY PaneFirst
<1>2. /\ Cp!OrderedFirst(kinds) \in Cp!Paths \cup {Nothing}
      /\ Cp!OrderedFirst(kinds) # Nothing => kinds[Cp!OrderedFirst(kinds)] # Nothing
  BY PaneFirst DEF ShownRows
<1>3. CASE s = Nothing
  <2>1. chosen = Cp!OrderedFirst(kinds)
    BY <1>3 DEF Cp!RestoreSelection
  <2> QED
    BY <1>1, <1>2, <2>1
<1>4. CASE s # Nothing /\ kinds[s] # Nothing
  <2>1. chosen = s
    BY <1>4 DEF Cp!RestoreSelection
  <2> QED
    BY <1>4, <2>1
<1>5. CASE s # Nothing /\ kinds[s] = Nothing /\ above = {}
  <2>1. chosen = Cp!OrderedFirst(kinds)
    BY <1>5 DEF Cp!RestoreSelection
  <2> QED
    BY <1>1, <1>2, <2>1
<1>6. CASE s # Nothing /\ kinds[s] = Nothing /\ above # {}
  <2>1. chosen = CHOOSE d \in above : \A e \in above : Cp!IsPrefix(e, d)
    BY <1>6 DEF Cp!RestoreSelection
  <2>2. above \in SUBSET Folders /\ (\A d \in above : Cp!Below(s, d) /\ kinds[d] # Nothing)
        /\ s \in Cp!Paths /\ Folders \subseteq Cp!Paths
    BY <1>6, PanePaths
  <2> HIDE DEF above, chosen
  <2>3. chosen \in above
    BY <1>6, <2>1, <2>2, PaneNearest
  <2>4. chosen \in Cp!Paths /\ kinds[chosen] # Nothing
    BY <2>2, <2>3
  <2>5. \A open : s \notin ShownRows(kinds, open) /\ s # Nothing
    BY <1>6 DEF ShownRows
  <2> QED
    BY <2>4, <2>5 DEF chosen
<1> QED
  BY <1>3, <1>4, <1>5, <1>6

(* A tree with a node has a row.                                           *)
LEMMA PaneHasRow ==
  ASSUME Cp!PathsAssumption, Cp!NoneAssumption, NEW kinds, RootedTree(kinds), NEW open,
         NEW p \in Cp!Paths, kinds[p] # Nothing
  PROVE  ShownRows(kinds, open) # {}
<1> DEFINE there == {q \in Cp!Paths : kinds[q] # Nothing}
           lengths == {Len(q) : q \in there}
<1>1. lengths \subseteq Nat /\ lengths # {}
  <2>1. \A q \in there : Len(q) \in Nat
    BY PanePaths
  <2>2. p \in there
    OBVIOUS
  <2> HIDE DEF there
  <2> QED
    BY <2>1, <2>2
<1>2. PICK q \in there : \A r \in there : ~(Len(r) < Len(q))
  <2> HIDE DEF lengths
  <2>1. PICK n \in lengths : \A m \in lengths : ~(<<m, n>> \in OpToRel(<, Nat))
    BY <1>1, NatLessThanWellFounded, WFMin
  <2>2. \A m \in lengths : ~(m < n)
    BY <1>1, <2>1 DEF OpToRel
  <2> QED
    BY <2>2 DEF lengths
<1>3. ASSUME NEW e \in Folders, Cp!Below(q, e), kinds[e] = "directory"
      PROVE  FALSE
  <2>1. e \in there /\ Len(e) < Len(q)
    BY <1>3, PanePaths, PaneBelow DEF Cp!NoneAssumption
  <2> QED
    BY <1>2, <2>1
<1>4. q \in ShownRows(kinds, open)
  BY <1>3 DEF ShownRows
<1> QED
  BY <1>4

LEMMA PaneRestores ==
  ASSUME Cp!PathsAssumption, Cp!NoneAssumption, NEW kinds, RootedTree(kinds), NEW open,
         NEW s \in Cp!Paths \cup {Nothing}, s # Nothing => kinds[s] # Nothing
  PROVE  Cp!RestoreVisible(kinds, Cp!Rows(kinds, open), s)
           \in Range(Cp!Rows(kinds, open)) \cup {Nothing}
<1> DEFINE rows == Cp!Rows(kinds, open)
           above == Cp!Above(kinds, s) \cap Cp!ToSet(rows)
           r == Cp!RestoreVisible(kinds, rows, s)
<1>1. rows \in Seq(Cp!Paths) /\ Range(rows) = ShownRows(kinds, open) /\ Cp!ToSet(rows) = Range(rows)
  BY PaneRows, PaneOperators
<1>2. above \subseteq Range(rows) /\ above \in SUBSET Folders /\ \A d \in above : Cp!Below(s, d)
  BY <1>1 DEF Cp!Above
<1>3. r = IF s = Nothing \/ s \in Cp!ToSet(rows) \/ rows = <<>> THEN s
          ELSE IF above = {} THEN rows[1]
          ELSE CHOOSE d \in above : \A e \in above : Cp!IsPrefix(e, d)
  BY DEF Cp!RestoreVisible
<1> HIDE DEF rows, above, r
<1> SUFFICES r \in Range(rows) \cup {Nothing}
  BY DEF r, rows
<1>4. CASE s = Nothing \/ s \in Cp!ToSet(rows)
  BY <1>1, <1>3, <1>4
<1>5. CASE s # Nothing /\ s \notin Cp!ToSet(rows)
  <2>1. rows # <<>>
    <3>1. ShownRows(kinds, open) # {}
      BY <1>5, PaneHasRow
    <3>2. Range(<<>>) = {}
      BY DEF Range
    <3> QED
      BY <1>1, <3>1, <3>2
  <2>2. rows[1] \in Range(rows)
    <3>1. 1 \in DOMAIN rows
      BY <1>1, <2>1, EmptySeq, LenProperties
    <3> QED
      BY <3>1 DEF Range
  <2>3. CASE above = {}
    BY <1>3, <1>5, <2>1, <2>2, <2>3
  <2>4. CASE above # {}
    <3>1. (CHOOSE d \in above : \A e \in above : Cp!IsPrefix(e, d)) \in above
      BY <1>2, <1>5, <2>4, PaneNearest
    <3> QED
      BY <1>2, <1>3, <1>5, <2>1, <2>4, <3>1
  <2> QED
    BY <2>3, <2>4
<1> QED
  BY <1>4, <1>5

(* The children of an open row are rows, and so is what shows a row.       *)
LEMMA PaneStepsDown ==
  ASSUME Cp!PathsAssumption, NEW kinds, RootedTree(kinds), NEW open, NEW p \in Folders,
         p \in ShownRows(kinds, open), p \in open, kinds[p] = "directory",
         NEW c \in Range(Cp!Children(kinds, p))
  PROVE  c \in ShownRows(kinds, open)
<1>1. c \in Cp!Paths /\ kinds[c] # Nothing /\ Nearest(kinds, c, p)
  BY PaneChildren, PaneDisplayParent DEF NodesOf
<1>2. ASSUME NEW e \in Folders, Cp!Below(c, e), kinds[e] = "directory"
      PROVE  e \in open
  BY <1>1, <1>2 DEF Nearest, ShownRows
<1> QED
  BY <1>1, <1>2 DEF ShownRows

LEMMA PaneStepsUp ==
  ASSUME Cp!PathsAssumption, Cp!NoneAssumption, NEW kinds, RootedTree(kinds), NEW open,
         NEW p \in ShownRows(kinds, open), Cp!DisplayParent(kinds, p) # Cp!Root
  PROVE  Cp!DisplayParent(kinds, p) \in ShownRows(kinds, open)
<1> DEFINE d == Cp!DisplayParent(kinds, p)
<1>1. p \in Cp!Paths /\ kinds[p] # Nothing /\ Nearest(kinds, p, d)
  BY PaneDisplayParent DEF ShownRows
<1> HIDE DEF d
<1>2. d \in Folders /\ d \in Cp!Paths /\ kinds[d] # Nothing /\ Cp!Below(p, d)
  BY <1>1, PanePaths DEF Nearest, IsPlace, Cp!NoneAssumption, d
<1>3. ASSUME NEW e \in Folders, Cp!Below(d, e), kinds[e] = "directory"
      PROVE  e \in open
  <2>1. Cp!Below(p, e)
    BY <1>1, <1>2, <1>3, PanePaths, PaneBelow
  <2> QED
    BY <1>3, <2>1 DEF ShownRows
<1> QED
  BY <1>2, <1>3 DEF ShownRows, d
-----------------------------------------------------------------------------
(* The panes and the windows over them.                                    *)
LEMMA PaneLayout ==
  ASSUME NEW lines \in Nat, NEW noticed
  PROVE  /\ Cp!Layout(lines, noticed).tree \in Nat /\ Cp!Layout(lines, noticed).divider \in {0, 1}
         /\ Cp!Layout(lines, noticed).changed \in Nat
         /\ Cp!Layout(lines, noticed).divider = 1 => Cp!Layout(lines, noticed).changed # 0
         /\ 1 + Cp!Layout(lines, noticed).tree + Cp!Layout(lines, noticed).divider
              + Cp!Layout(lines, noticed).changed + (IF noticed THEN 1 ELSE 0)
              <= (IF lines < 2 THEN 2 ELSE lines)
<1> DEFINE n == IF noticed THEN 1 ELSE 0
           content == Cp!Less(lines, n)
           divider == IF content >= 3 THEN 1 ELSE 0
           changed == IF divider = 0 THEN 0 ELSE (content - divider) \div 2
           above == Cp!Less(content - divider - changed, 1)
<1>1. /\ Cp!Layout(lines, noticed).tree = above /\ Cp!Layout(lines, noticed).divider = divider
      /\ Cp!Layout(lines, noticed).changed = changed
  BY DEF Cp!Layout
<1>2. n \in {0, 1}
  OBVIOUS
<1> HIDE DEF n
<1>3. content = IF lines < n THEN 0 ELSE lines - n
  BY DEF Cp!Less
<1>4. content \in Nat /\ content + n <= (IF lines < 1 THEN 1 ELSE lines)
  BY <1>2, <1>3
<1> HIDE DEF content
<1>5. above = IF content - divider - changed < 1 THEN 0 ELSE content - divider - changed - 1
  BY DEF Cp!Less
<1> HIDE DEF above
<1>6. CASE content >= 3
  <2>1. divider = 1 /\ changed = (content - 1) \div 2
    BY <1>6
  <2>2. (content - 1) \div 2 \in Nat /\ (content - 1) \div 2 >= 1
        /\ 2 * ((content - 1) \div 2) <= content - 1
    BY <1>4, <1>6
  <2> HIDE DEF divider, changed
  <2>3. changed \in Nat /\ changed >= 1 /\ changed <= content - 2
    BY <1>4, <1>6, <2>1, <2>2
  <2>4. above = content - 1 - changed - 1
    BY <1>4, <1>5, <2>1, <2>3
  <2>5. above \in Nat /\ 1 + above + divider + changed + n <= (IF lines < 2 THEN 2 ELSE lines)
    BY <1>2, <1>4, <2>1, <2>3, <2>4
  <2> QED
    BY <1>1, <2>1, <2>3, <2>5 DEF n
<1>7. CASE ~(content >= 3)
  <2>1. divider = 0 /\ changed = 0
    BY <1>7
  <2> HIDE DEF divider, changed
  <2>2. above = IF content < 1 THEN 0 ELSE content - 1
    BY <1>4, <1>5, <2>1
  <2>3. above \in Nat /\ 1 + above + divider + changed + n <= (IF lines < 2 THEN 2 ELSE lines)
    BY <1>2, <1>4, <2>1, <2>2
  <2> QED
    BY <1>1, <2>1, <2>3 DEF n
<1> QED
  BY <1>6, <1>7

LEMMA PaneEnsures ==
  ASSUME NEW top \in Nat, NEW rows \in Nat, NEW row \in 0..rows, NEW room \in Nat
  PROVE  /\ Cp!EnsureVisible(top, row, rows, room) \in Nat
         /\ Cp!EnsureVisible(Cp!EnsureVisible(top, row, rows, room), row, rows, room)
              = Cp!EnsureVisible(top, row, rows, room)
         /\ row # 0 /\ room # 0 =>
              /\ Cp!EnsureVisible(top, row, rows, room) < row
              /\ row <= Cp!EnsureVisible(top, row, rows, room) + room
<1> DEFINE moved(t) == IF row - 1 < t THEN row - 1
                       ELSE IF room # 0 /\ row > t + room THEN (IF row > room THEN row - room ELSE 0)
                       ELSE t
<1>1. CASE row = 0
  BY <1>1 DEF Cp!EnsureVisible
<1>2. CASE row # 0
  <2>1. ASSUME NEW t \in Nat
        PROVE  moved(t) \in Nat /\ moved(t) <= row - 1 /\ moved(moved(t)) = moved(t)
               /\ (room # 0 => row <= moved(t) + room)
    BY <1>2
  <2>2. ASSUME NEW t \in Nat
        PROVE  Cp!EnsureVisible(t, row, rows, room) = moved(t)
    <3>1. Cp!EnsureVisible(t, row, rows, room) = IF moved(t) < rows THEN moved(t) ELSE rows - 1
      BY <1>2 DEF Cp!EnsureVisible
    <3> HIDE DEF moved
    <3>2. moved(t) < rows
      BY <1>2, <2>1
    <3> QED
      BY <3>1, <3>2
  <2> HIDE DEF moved
  <2>3. moved(top) < row
    BY <1>2, <2>1
  <2> QED
    BY <2>1, <2>2, <2>3
<1> QED
  BY <1>1, <1>2

LEMMA PaneRowOf ==
  ASSUME NEW W, NEW rows \in Seq(W), NEW p
  PROVE  /\ Cp!RowOf(rows, p) \in 0..Len(rows)
         /\ p \in Range(rows) => Cp!RowOf(rows, p) \in 1..Len(rows) /\ rows[Cp!RowOf(rows, p)] = p
<1>1. Len(rows) \in Nat /\ DOMAIN rows = 1..Len(rows)
  BY LenProperties
<1>2. CASE \E i \in DOMAIN rows : rows[i] = p
  <2>1. Cp!RowOf(rows, p) = CHOOSE i \in DOMAIN rows : rows[i] = p
    BY <1>2 DEF Cp!RowOf
  <2>2. Cp!RowOf(rows, p) \in DOMAIN rows /\ rows[Cp!RowOf(rows, p)] = p
    BY <1>2, <2>1
  <2> QED
    BY <1>1, <2>2
<1>3. CASE ~(\E i \in DOMAIN rows : rows[i] = p)
  BY <1>1, <1>3 DEF Cp!RowOf, Range
<1> QED
  BY <1>2, <1>3

Window(rows, offset, room) == SubSeq(rows, offset + 1, Cp!Least(offset + room, Len(rows)))

LEMMA PaneWindow ==
  ASSUME NEW W, NEW rows \in Seq(W), NEW offset \in Nat, NEW room \in Nat
  PROVE  /\ Window(rows, offset, room) \in Seq(W)
         /\ DOMAIN Window(rows, offset, room) = 1..Len(Window(rows, offset, room))
         /\ room = 0 => Window(rows, offset, room) = <<>>
         /\ \A i \in 1..Len(rows) : offset < i /\ i <= offset + room =>
              /\ i - offset \in DOMAIN Window(rows, offset, room)
              /\ Window(rows, offset, room)[i - offset] = rows[i]
<1> DEFINE last == Cp!Least(offset + room, Len(rows))
           w == Window(rows, offset, room)
<1>1. Len(rows) \in Nat
  BY LenProperties
<1>2. last = IF offset + room < Len(rows) THEN offset + room ELSE Len(rows)
  BY DEF Cp!Least
<1>3. last \in Nat /\ last <= Len(rows) /\ last <= offset + room
      /\ \A i \in 1..Len(rows) : i <= offset + room => i <= last
  BY <1>1, <1>2
<1>4. w = SubSeq(rows, offset + 1, last)
  BY DEF Window
<1> HIDE DEF last, w
<1>5. w \in Seq(W) /\ (\A i \in 1..(last - offset) : i \in DOMAIN w /\ w[i] = rows[offset + i])
      /\ (last <= offset => w = <<>>)
  <2>1. CASE last <= offset
    <3>1. w = <<>>
      BY <1>1, <1>3, <1>4, <2>1, EmptySeq
    <3> QED
      BY <1>3, <2>1, <3>1
  <2>2. CASE last > offset
    <3>1. offset + 1 \in 1..Len(rows) /\ last \in 1..Len(rows) /\ offset + 1 <= last
      BY <1>1, <1>3, <2>2
    <3>2. w \in Seq(W) /\ Len(w) = last - (offset + 1) + 1
          /\ \A i \in 1..(last - (offset + 1) + 1) : w[i] = rows[(offset + 1) + i - 1]
      BY <1>4, <3>1, SubSeqProperties
    <3>3. last - (offset + 1) + 1 = last - offset
          /\ \A i \in 1..(last - offset) : (offset + 1) + i - 1 = offset + i
      BY <1>3
    <3> QED
      BY <1>3, <2>2, <3>2, <3>3, LenProperties
  <2> QED
    BY <1>3, <2>1, <2>2
<1>6. room = 0 => w = <<>>
  BY <1>3, <1>5
<1>7. ASSUME NEW i \in 1..Len(rows), offset < i, i <= offset + room
      PROVE  i - offset \in DOMAIN w /\ w[i - offset] = rows[i]
  <2>1. i - offset \in 1..(last - offset) /\ offset + (i - offset) = i
    BY <1>1, <1>3, <1>7
  <2> QED
    BY <1>5, <2>1
<1> QED
  BY <1>5, <1>6, <1>7, LenProperties DEF w
-----------------------------------------------------------------------------
(* What the Files view keeps: its rows are those of the tree, one of them  *)
(* is selected or none; its list has the file selected; and its windows    *)
(* are where the rows selected are visible, as the screen shows.           *)
PaneTree ==
    /\ RootedTree(nodes) /\ expanded \subseteq {d \in Folders : nodes[d] = "directory"}
    /\ visible_rows = Cp!Rows(nodes, expanded)
    /\ selection \in Range(visible_rows) \cup {Nothing}
    /\ pending \subseteq Cp!Places
PaneList ==
    /\ changed_files \in Seq(Range(changed_files))
    /\ changed_files # <<>> => changed_selected \in Range(Cp!PathsOf(changed_files))
TreeSettled(top) ==
    Cp!EnsureVisible(top, Cp!RowOf(visible_rows, selection), Len(visible_rows), panes.tree)
ListSettled(top) ==
    Cp!EnsureVisible(top, Cp!RowOf(Cp!PathsOf(changed_files), changed_selected),
                     Len(changed_files), panes.changed)
TreeDrawn == screen.tree = Cp!Screen.tree
ListDrawn == /\ screen.empty = Cp!Screen.empty
             /\ Len(screen.changed) = Len(Cp!Screen.changed)
             /\ DOMAIN screen.changed = DOMAIN Cp!Screen.changed
             /\ \A i \in DOMAIN screen.changed : screen.changed[i].file = Cp!Screen.changed[i].file
ListLit == screen.lit /\ changed_files # <<>> => \E i \in DOMAIN screen.changed : screen.changed[i].band
PaneView ==
    /\ height \in Nat /\ viewport_offset \in Nat /\ changed_offset \in Nat
    /\ panes = Cp!Layout(height, failure_notice \/ status_is_stale)
    /\ viewport_offset = TreeSettled(viewport_offset)
    /\ panes.changed # 0 => changed_offset = ListSettled(changed_offset)
    /\ TreeDrawn /\ ListDrawn /\ ListLit
PaneInv == PaneTree /\ PaneList /\ PaneView
PaneAssumption == Cp!WorkspaceAssumption /\ Cp!NoneAssumption /\ Cp!BoundAssumption

LEMMA PaneRowsAre ==
  ASSUME PaneAssumption, PaneTree
  PROVE  /\ visible_rows \in Seq(Cp!Paths) /\ Range(visible_rows) = ShownRows(nodes, expanded)
         /\ IsInjective(visible_rows)
BY PaneRows DEF PaneAssumption, Cp!WorkspaceAssumption, PaneTree

LEMMA PaneListIs ==
  ASSUME PaneList
  PROVE  /\ Cp!PathsOf(changed_files) \in Seq(Range(Cp!PathsOf(changed_files)))
         /\ Len(Cp!PathsOf(changed_files)) = Len(changed_files) /\ Len(changed_files) \in Nat
         /\ DOMAIN changed_files = 1..Len(changed_files)
         /\ DOMAIN Cp!PathsOf(changed_files) = 1..Len(changed_files)
         /\ \A i \in 1..Len(changed_files) :
              Cp!PathsOf(changed_files)[i] = changed_files[i].path
<1> DEFINE n == Len(changed_files)
           s == Cp!PathsOf(changed_files)
<1>1. n \in Nat /\ DOMAIN changed_files = 1..n
  BY LenProperties DEF PaneList
<1>2. s = [i \in 1..n |-> changed_files[i].path]
  BY <1>1 DEF Cp!PathsOf
<1> HIDE DEF s, n
<1>3. s \in [1..n -> Range(s)]
  BY <1>2 DEF Range
<1>4. s \in Seq(Range(s)) /\ Len(s) = n
  BY <1>1, <1>3
<1> QED
  BY <1>1, <1>2, <1>4 DEF s, n

(* The rows of a drawing.                                                  *)
LEMMA PaneWindows ==
  /\ Cp!TreeWindow = Window(visible_rows, viewport_offset, panes.tree)
  /\ Cp!ChangedWindow = Window(changed_files, changed_offset, panes.changed)
  /\ Cp!Screen.tree = [i \in DOMAIN Cp!TreeWindow |->
                         [path |-> Cp!TreeWindow[i], kind |-> nodes[Cp!TreeWindow[i]],
                          mark |-> statuses[Cp!TreeWindow[i]],
                          band |-> Cp!TreeWindow[i] = selection]]
  /\ Cp!Screen.changed = [i \in DOMAIN Cp!ChangedWindow |->
                            [file |-> Cp!ChangedWindow[i],
                             band |-> focused_pane = "changed"
                                        /\ Cp!ChangedWindow[i].path = changed_selected]]
  /\ Cp!Screen.lit <=> panes.divider = 1 /\ focused_pane = "changed"
  /\ Cp!Screen.empty = IF Cp!ChangedWindow # <<>> \/ panes.changed = 0 THEN "rows"
                       ELSE IF failure_notice \/ status_is_stale THEN "unavailable"
                       ELSE IF status_seen THEN "clean" ELSE "loading"
BY DEF Cp!TreeWindow, Cp!ChangedWindow, Window, Cp!Screen

Drawn(top, changed_top) ==
    /\ height \in Nat
    /\ panes = Cp!Layout(height, failure_notice \/ status_is_stale)
    /\ viewport_offset = TreeSettled(top)
    /\ changed_offset = IF panes.changed = 0 THEN changed_top ELSE ListSettled(changed_top)
    /\ screen = Cp!Screen

LEMMA PaneDrawn ==
  ASSUME PaneAssumption, NEW top \in Nat, NEW changed_top \in Nat
  PROVE  PaneTree /\ PaneList /\ Drawn(top, changed_top) => PaneView
<1> SUFFICES ASSUME PaneTree, PaneList, Drawn(top, changed_top)
             PROVE  PaneView
  OBVIOUS
<1>1. /\ height \in Nat /\ panes = Cp!Layout(height, failure_notice \/ status_is_stale)
      /\ viewport_offset = TreeSettled(top) /\ screen = Cp!Screen
      /\ panes.changed = 0 => changed_offset = changed_top
      /\ panes.changed # 0 => changed_offset = ListSettled(changed_top)
  BY DEF Drawn
<1>2. panes.tree \in Nat /\ panes.changed \in Nat /\ (panes.divider = 1 => panes.changed # 0)
  <2> DEFINE noticed == failure_notice \/ status_is_stale
  <2>1. height \in Nat /\ panes = Cp!Layout(height, noticed)
    BY <1>1
  <2> HIDE DEF noticed
  <2> QED
    BY <2>1, PaneLayout
<1>3. visible_rows \in Seq(Cp!Paths) /\ Len(visible_rows) \in Nat
      /\ Cp!RowOf(visible_rows, selection) \in 0..Len(visible_rows)
  BY PaneRowsAre, PaneRowOf, LenProperties
<1> DEFINE named == Cp!PathsOf(changed_files)
           row == Cp!RowOf(named, changed_selected)
<1>4. /\ Len(changed_files) \in Nat /\ row \in 0..Len(changed_files)
      /\ (changed_files # <<>> => row \in 1..Len(changed_files)
                                  /\ changed_files[row].path = changed_selected)
  <2>1. named \in Seq(Range(named)) /\ Len(named) = Len(changed_files)
        /\ Len(changed_files) \in Nat
        /\ \A i \in 1..Len(changed_files) : named[i] = changed_files[i].path
    BY PaneListIs
  <2>2. changed_files # <<>> => changed_selected \in Range(named)
    BY DEF PaneList
  <2> HIDE DEF named
  <2>3. /\ row \in 0..Len(named)
        /\ changed_selected \in Range(named) => row \in 1..Len(named) /\ named[row] = changed_selected
    BY <2>1, PaneRowOf
  <2> QED
    BY <2>1, <2>2, <2>3
<1>5. viewport_offset \in Nat /\ viewport_offset = TreeSettled(viewport_offset)
  <2>1. TreeSettled(top) \in Nat /\ TreeSettled(TreeSettled(top)) = TreeSettled(top)
    BY ZenonT(60), <1>2, <1>3, PaneEnsures DEF TreeSettled
  <2> QED
    BY <1>1, <2>1
<1> HIDE DEF row
<1>6. /\ ListSettled(changed_top) \in Nat
      /\ ListSettled(ListSettled(changed_top)) = ListSettled(changed_top)
      /\ row # 0 /\ panes.changed # 0 => /\ ListSettled(changed_top) < row
                                         /\ row <= ListSettled(changed_top) + panes.changed
  BY <1>2, <1>4, PaneEnsures DEF ListSettled, row
<1>7. changed_offset \in Nat /\ (panes.changed # 0 => changed_offset = ListSettled(changed_offset))
  BY <1>1, <1>6
<1>8. TreeDrawn /\ ListDrawn
  BY <1>1 DEF TreeDrawn, ListDrawn
<1>9. ListLit
  <2> SUFFICES ASSUME Cp!Screen.lit, changed_files # <<>>
               PROVE  \E i \in DOMAIN Cp!Screen.changed : Cp!Screen.changed[i].band
    BY <1>1 DEF ListLit
  <2>1. panes.divider = 1 /\ focused_pane = "changed" /\ panes.changed # 0
    BY <1>2, PaneWindows
  <2> DEFINE w == Window(changed_files, changed_offset, panes.changed)
  <2>2. row - changed_offset \in DOMAIN w /\ w[row - changed_offset] = changed_files[row]
    <3>1. row \in 1..Len(changed_files) /\ row # 0
      BY <1>4
    <3>2. changed_offset < row /\ row <= changed_offset + panes.changed
      BY <1>1, <1>6, <2>1, <3>1
    <3> QED
      BY <1>2, <1>7, <3>1, <3>2, PaneWindow DEF PaneList
  <2>3. Cp!Screen.changed = [i \in DOMAIN w |->
                               [file |-> w[i],
                                band |-> focused_pane = "changed" /\ w[i].path = changed_selected]]
    BY PaneWindows
  <2>4. w[row - changed_offset].path = changed_selected
    BY <1>4, <2>2
  <2> HIDE DEF w
  <2>5. Cp!Screen.changed[row - changed_offset].band
    <3> DEFINE k == row - changed_offset
               lit == focused_pane = "changed" /\ w[k].path = changed_selected
    <3>1. Cp!Screen.changed[k] = [file |-> w[k], band |-> lit]
      BY <2>2, <2>3
    <3>2. lit
      BY <2>1, <2>4
    <3> HIDE DEF k, lit
    <3>3. Cp!Screen.changed[k].band
      BY <3>1, <3>2
    <3> QED
      BY <3>3 DEF k
  <2>6. row - changed_offset \in DOMAIN Cp!Screen.changed
    BY <2>2, <2>3
  <2> QED
    BY <2>5, <2>6
<1> QED
  BY <1>1, <1>5, <1>7, <1>8, <1>9 DEF PaneView
-----------------------------------------------------------------------------
(* A drawing, or a step that draws nothing because nothing shown changes.  *)
LEMMA PaneDrawnNext ==
  ASSUME PaneAssumption, NEW top \in Nat, NEW changed_top \in Nat
  PROVE  (PaneTree /\ PaneList /\ Drawn(top, changed_top) => PaneView)'
<1>1. PaneTree /\ PaneList /\ Drawn(top, changed_top) => PaneView
  BY PaneDrawn
<1> QED
  BY <1>1, PTL

LEMMA PaneDraws ==
  ASSUME PaneAssumption, NEW top \in Nat, NEW changed_top \in Nat, PaneTree', PaneList',
         height' \in Nat, Cp!Draw(top, changed_top)
  PROVE  PaneView'
<1>1. panes' = Cp!Layout(height', failure_notice' \/ status_is_stale') /\ screen' = Cp!Screen'
  BY DEF Cp!Draw
<1>2. viewport_offset' = TreeSettled(top)'
  BY DEF Cp!Draw, TreeSettled
<1>3. changed_offset' = IF panes'.changed = 0 THEN changed_top ELSE ListSettled(changed_top)'
  BY DEF Cp!Draw, ListSettled
<1>4. Drawn(top, changed_top)'
  BY <1>1, <1>2, <1>3 DEF Drawn
<1> QED
  BY <1>4, PaneDrawnNext

LEMMA PaneRoom ==
  ASSUME PaneView
  PROVE  panes.tree \in Nat /\ panes.changed \in Nat
<1> DEFINE noticed == failure_notice \/ status_is_stale
<1>1. height \in Nat /\ panes = Cp!Layout(height, noticed)
  BY DEF PaneView
<1> HIDE DEF noticed
<1> QED
  BY <1>1, PaneLayout

LEMMA PaneTops ==
  ASSUME PaneView, NEW top \in Nat, NEW selected
  PROVE  /\ \A W : \A rows \in Seq(W) : Cp!TreeTop(top, rows, selected) \in Nat
         /\ PaneList => Cp!ChangedTop(top, changed_files, selected) \in Nat
         /\ PaneList' => Cp!ChangedTop(top, changed_files', selected) \in Nat
<1>1. panes.tree \in Nat /\ panes.changed \in Nat
  BY PaneRoom
<1>2. ASSUME NEW W, NEW rows \in Seq(W)
      PROVE  Cp!TreeTop(top, rows, selected) \in Nat
  <2>1. Cp!RowOf(rows, selected) \in 0..Len(rows) /\ Len(rows) \in Nat
    BY PaneRowOf, LenProperties
  <2> QED
    BY <1>1, <2>1, PaneEnsures DEF Cp!TreeTop
<1>3. ASSUME NEW files, files \in Seq(Range(files))
      PROVE  Cp!ChangedTop(top, files, selected) \in Nat
  <2> DEFINE s == Cp!PathsOf(files)
  <2>1. Len(files) \in Nat /\ DOMAIN files = 1..Len(files)
    BY <1>3, LenProperties
  <2>2. s = [i \in 1..Len(files) |-> files[i].path]
    BY <2>1 DEF Cp!PathsOf
  <2> HIDE DEF s
  <2>3. s \in [1..Len(files) -> Range(s)]
    BY <2>2 DEF Range
  <2>4. s \in Seq(Range(s)) /\ Len(s) = Len(files)
    BY <2>1, <2>3
  <2>5. Cp!RowOf(s, selected) \in 0..Len(files)
    BY <2>4, PaneRowOf
  <2> QED
    BY <1>1, <2>1, <2>5, PaneEnsures DEF Cp!ChangedTop, s
<1> QED
  BY <1>2, <1>3 DEF PaneList

LEMMA PaneUndrawn ==
  ASSUME PaneView, PaneList,
         UNCHANGED <<nodes, statuses, changed_files, visible_rows, selection, changed_selected, height,
                     status_seen, failure_notice, status_is_stale, panes, screen, viewport_offset>>,
         changed_offset' \in Nat, panes.changed # 0 => changed_offset' = changed_offset
  PROVE  PaneView'
<1>1. /\ height' \in Nat /\ viewport_offset' \in Nat
      /\ panes' = Cp!Layout(height', failure_notice' \/ status_is_stale')
  BY DEF PaneView
<1>2. viewport_offset' = TreeSettled(viewport_offset)'
  BY DEF PaneView, TreeSettled
<1>3. panes'.changed # 0 => changed_offset' = ListSettled(changed_offset)'
  BY DEF PaneView, ListSettled
<1>4. panes.changed \in Nat /\ changed_offset \in Nat /\ changed_files \in Seq(Range(changed_files))
  BY PaneRoom DEF PaneView, PaneList
<1>5. Cp!ChangedWindow' = Cp!ChangedWindow
  <2>1. /\ Cp!ChangedWindow = Window(changed_files, changed_offset, panes.changed)
        /\ Cp!ChangedWindow' = Window(changed_files, changed_offset', panes.changed)
    BY DEF Cp!ChangedWindow, Window
  <2>2. CASE panes.changed = 0
    BY <1>4, <2>1, <2>2, PaneWindow
  <2>3. CASE panes.changed # 0
    BY <2>1, <2>3
  <2> QED
    BY <2>2, <2>3
<1>6. TreeDrawn'
  <2>1. Cp!Screen.tree' = Cp!Screen.tree
    BY DEF Cp!Screen, Cp!TreeWindow
  <2> QED
    BY <2>1 DEF PaneView, TreeDrawn
<1>7. ListDrawn'
  <2>1. Cp!Screen.empty' = Cp!Screen.empty
    BY <1>5 DEF Cp!Screen
  <2> DEFINE w == Cp!ChangedWindow
  <2>2. /\ Cp!Screen.changed = [i \in DOMAIN w |-> Cp!Screen.changed[i]]
        /\ \A i \in DOMAIN w : Cp!Screen.changed[i].file = w[i]
    BY DEF Cp!Screen
  <2>3. /\ Cp!Screen.changed' = [i \in DOMAIN w' |-> Cp!Screen.changed'[i]]
        /\ \A i \in DOMAIN w' : Cp!Screen.changed'[i].file = w'[i]
    BY DEF Cp!Screen
  <2>4. w \in Seq(Range(changed_files)) /\ DOMAIN w = 1..Len(w) /\ Len(w) \in Nat
    <3>1. w = Window(changed_files, changed_offset, panes.changed)
      BY DEF Cp!ChangedWindow, Window
    <3> HIDE DEF w
    <3>2. w \in Seq(Range(changed_files))
      BY <1>4, <3>1, PaneWindow
    <3> QED
      BY <3>2, LenProperties
  <2>5. w' = w
    BY <1>5
  <2> HIDE DEF w
  <2>6. Len(Cp!Screen.changed) = Len(w) /\ Len(Cp!Screen.changed') = Len(w)
    BY <2>2, <2>3, <2>4, <2>5
  <2>8. DOMAIN Cp!Screen.changed = DOMAIN w /\ DOMAIN Cp!Screen.changed' = DOMAIN w
    BY <2>2, <2>3, <2>5
  <2>7. /\ screen.empty = Cp!Screen.empty /\ Len(screen.changed) = Len(Cp!Screen.changed)
        /\ DOMAIN screen.changed = DOMAIN Cp!Screen.changed
        /\ \A i \in DOMAIN screen.changed : screen.changed[i].file = Cp!Screen.changed[i].file
    BY DEF PaneView, ListDrawn
  <2> QED
    BY <2>1, <2>2, <2>3, <2>5, <2>6, <2>7, <2>8 DEF ListDrawn
<1>8. ListLit'
  BY DEF PaneView, ListLit
<1> QED
  BY <1>1, <1>2, <1>3, <1>6, <1>7, <1>8 DEF PaneView
-----------------------------------------------------------------------------
(* The steps of the tree.                                                  *)
LEMMA PaneRowStays ==
  ASSUME PaneTree, UNCHANGED <<nodes, expanded, visible_rows>>, pending' \subseteq Cp!Places,
         selection' \in Range(visible_rows) \cup {Nothing}
  PROVE  PaneTree'
BY DEF PaneTree

LEMMA PaneRowsNext ==
  ASSUME PaneAssumption, PaneTree'
  PROVE  visible_rows' \in Seq(Cp!Paths)
<1>1. RootedTree(nodes') /\ visible_rows' = Cp!Rows(nodes', expanded')
  BY DEF PaneTree
<1>2. Cp!PathsAssumption /\ Cp!NoneAssumption
  BY DEF PaneAssumption, Cp!WorkspaceAssumption
<1> QED
  BY <1>1, <1>2, PaneRows

LEMMA PaneRebuilds ==
  ASSUME PaneAssumption, NEW kinds, RootedTree(kinds), NEW s \in Cp!Paths \cup {Nothing},
         s # Nothing => kinds[s] # Nothing, NEW open, NEW wanted,
         Cp!Rebuild(kinds, s, open, wanted), nodes' = kinds, pending' \subseteq Cp!Places
  PROVE  PaneTree'
<1> DEFINE directories == {d \in Folders : kinds[d] = "directory"}
<1>1. /\ expanded' = open \cap directories
      /\ visible_rows' = Cp!Rows(kinds, expanded')
      /\ selection' = Cp!RestoreVisible(kinds, visible_rows', s)
  BY DEF Cp!Rebuild
<1>2. Cp!PathsAssumption /\ Cp!NoneAssumption
  BY DEF PaneAssumption, Cp!WorkspaceAssumption
<1>3. selection' \in Range(visible_rows') \cup {Nothing}
  BY <1>1, <1>2, PaneRestores
<1>4. expanded' \subseteq {d \in Folders : nodes'[d] = "directory"}
  BY <1>1
<1> QED
  BY <1>1, <1>3, <1>4 DEF PaneTree

(* Drawing after such a step, at the window the tree had.                  *)
LEMMA PaneDrawsHere ==
  ASSUME PaneAssumption, PaneView, PaneTree', PaneList', height' \in Nat,
         Cp!Draw(viewport_offset, changed_offset)
  PROVE  PaneView'
BY PaneDraws DEF PaneView

LEMMA PaneDrawsThere ==
  ASSUME PaneAssumption, PaneView, PaneTree', PaneList', height' \in Nat,
         Cp!Draw(Cp!TreeTop(viewport_offset, visible_rows', selection'), changed_offset)
  PROVE  PaneView'
<1>1. visible_rows' \in Seq(Cp!Paths)
  BY PaneRowsNext
<1>2. Cp!TreeTop(viewport_offset, visible_rows', selection') \in Nat /\ changed_offset \in Nat
  BY <1>1, PaneTops DEF PaneView
<1> QED
  BY <1>2, PaneDraws

LEMMA PaneTypes ==
  ASSUME PaneAssumption
  PROVE  /\ Cp!PathsAssumption /\ Cp!NoneAssumption /\ Cp!Root \in Cp!Places
         /\ Folders \subseteq Cp!Places /\ Folders \subseteq Cp!Paths /\ Files \subseteq Cp!Paths
         /\ Nothing \notin Cp!Paths /\ Heights \subseteq Nat
BY PanePaths DEF PaneAssumption, Cp!WorkspaceAssumption, Cp!NoneAssumption, Cp!BoundAssumption

LEMMA PaneSelection ==
  ASSUME PaneAssumption, PaneTree, selection # Nothing
  PROVE  selection \in Cp!Paths /\ nodes[selection] # Nothing
         /\ selection \in ShownRows(nodes, expanded) /\ selection \in Range(visible_rows)
BY PaneRowsAre DEF PaneTree, ShownRows

(* Nothing of the tree, the list and the screen changes.                   *)
LEMMA PaneStays ==
  ASSUME PaneInv, UNCHANGED <<nodes, statuses, changed_files, visible_rows, expanded, selection,
                              changed_selected, height, status_seen, failure_notice, status_is_stale,
                              panes, screen, viewport_offset, changed_offset>>,
         pending' \subseteq Cp!Places
  PROVE  PaneInv'
<1>1. PaneTree' /\ PaneList'
  BY DEF PaneInv, PaneTree, PaneList
<1>2. PaneView'
  BY PaneUndrawn DEF PaneInv, PaneView
<1> QED
  BY <1>1, <1>2 DEF PaneInv

LEMMA PaneOutside ==
  ASSUME PaneAssumption, PaneInv, Cp!Edit \/ Cp!Polls \/ Cp!Reads \/ Cp!Looks
  PROVE  PaneInv'
<1>1. CASE Cp!Edit \/ Cp!Reads \/ Cp!Looks
  <2>1. UNCHANGED <<nodes, statuses, changed_files, visible_rows, expanded, selection,
                    changed_selected, height, status_seen, failure_notice, status_is_stale,
                    panes, screen, viewport_offset, changed_offset, pending>>
    BY <1>1 DEF Cp!Edit, Cp!Reads, Cp!Looks, Cp!tree, Cp!folded, Cp!status, Cp!focus, Cp!offsets,
                Cp!drawn
  <2> QED
    BY <2>1, PaneStays DEF PaneInv, PaneTree
<1>2. CASE Cp!Polls
  <2>1. /\ UNCHANGED <<nodes, changed_files, visible_rows, expanded, selection, changed_selected,
                       height, pending>>
        /\ Cp!Draw(viewport_offset, changed_offset)
    BY <1>2 DEF Cp!Polls, Cp!tree, Cp!folded, Cp!focus
  <2>2. PaneTree' /\ PaneList' /\ height' \in Nat
    BY <2>1 DEF PaneInv, PaneTree, PaneList, PaneView
  <2> QED
    BY <2>1, <2>2, PaneDrawsHere DEF PaneInv
<1> QED
  BY <1>1, <1>2

(* A status command that ends.                                             *)
LEMMA PaneMarked ==
  ASSUME PaneAssumption, NEW entries, NEW gone
  PROVE  /\ {e.path : e \in Cp!Missing(entries, gone)} \subseteq Files
         /\ {e.path : e \in Cp!Present(entries) \cup Cp!Missing(entries, gone)} \subseteq Files
BY DEF Cp!Missing, Cp!Present, Cp!Candidates

LEMMA PaneFiles ==
  ASSUME PaneAssumption, NEW marked, {e.path : e \in marked} \subseteq Files, NEW missing
  PROVE  Cp!ChangedFiles(marked, missing) \in Seq(Range(Cp!ChangedFiles(marked, missing)))
<1> DEFINE S == {e.path : e \in marked}
           order == Cp!InPathOrder(S)
           list == Cp!ChangedFiles(marked, missing)
           entry(p) == [path |-> p,
                        kind |-> Cp!Strongest({e.kind : e \in {m \in marked : m.path = p}}),
                        missing |-> \E e \in missing : e.path = p]
<1>1. list = [i \in DOMAIN order |-> entry(order[i])]
  BY DEF Cp!ChangedFiles
<1>2. IsFiniteSet(S) /\ S \subseteq Seq(Nat)
  BY PaneTypes, PanePaths, FS_Subset
<1> HIDE DEF S, list, entry
<1>3. order \in Seq(S)
  BY <1>2, PaneInPathOrder
<1> HIDE DEF order
<1>4. Len(order) \in Nat /\ DOMAIN order = 1..Len(order)
  BY <1>3, LenProperties
<1>5. list \in [1..Len(order) -> Range(list)]
  BY <1>1, <1>4 DEF Range
<1>6. list \in Seq(Range(list))
  BY <1>4, <1>5
<1> QED
  BY <1>6 DEF list

LEMMA PaneKeeps ==
  ASSUME NEW files, files \in Seq(Range(files)), files # <<>>, NEW s
  PROVE  Cp!KeptOrFirst(files, s) \in Range(Cp!PathsOf(files))
<1> DEFINE named == Cp!PathsOf(files)
<1>1. Len(files) \in Nat \ {0} /\ DOMAIN files = 1..Len(files)
  BY LenProperties, EmptySeq
<1>2. named = [i \in 1..Len(files) |-> files[i].path]
  BY <1>1 DEF Cp!PathsOf
<1>3. files[1].path \in Range(named)
  <2>1. 1 \in DOMAIN named /\ named[1] = files[1].path
    BY <1>1, <1>2
  <2> QED
    BY <2>1 DEF Range
<1> HIDE DEF named
<1>4. Cp!KeptOrFirst(files, s) = IF s \in Range(named) THEN s ELSE files[1].path
  BY PaneOperators DEF Cp!KeptOrFirst, named
<1> QED
  BY <1>3, <1>4 DEF named

LEMMA PaneCompletes ==
  ASSUME PaneAssumption, PaneInv, Cp!Completes
  PROVE  PaneInv'
<1>1. CASE Cp!Overtaken \/ Cp!Failed
  <2>1. /\ UNCHANGED <<nodes, changed_files, visible_rows, expanded, selection, changed_selected,
                       height, pending>>
        /\ Cp!Draw(viewport_offset, changed_offset)
    BY <1>1 DEF Cp!Overtaken, Cp!Failed, Cp!tree, Cp!folded, Cp!focus
  <2>2. PaneTree' /\ PaneList' /\ height' \in Nat
    BY <2>1 DEF PaneInv, PaneTree, PaneList, PaneView
  <2> QED
    BY <2>1, <2>2, PaneDrawsHere DEF PaneInv
<1>2. CASE Cp!Applied
  <2> DEFINE missing == Cp!Missing(refresh.snapshot.entries, refresh.gone)
             marked == Cp!Present(refresh.snapshot.entries) \cup missing
             deleted == {e.path : e \in missing}
             kept == Cp!RestoreSelection(nodes', selection)
  <2>1. /\ nodes' = Cp!SyncOverlay(nodes, deleted)
        /\ changed_files' = Cp!ChangedFiles(marked, missing)
        /\ changed_selected' = Cp!KeptOrFirst(changed_files', changed_selected)
        /\ Cp!Rebuild(nodes', kept, expanded, desired_expanded)
        /\ pending' = pending /\ height' = height
        /\ Cp!Draw(Cp!TreeTop(viewport_offset, visible_rows', selection'),
                   Cp!ChangedTop(changed_offset, changed_files', changed_selected'))
    BY <1>2 DEF Cp!Applied
  <2>2. deleted \subseteq Files /\ {e.path : e \in marked} \subseteq Files
    BY PaneMarked
  <2> HIDE DEF marked, missing, deleted
  <2>3. RootedTree(nodes')
    BY <2>1, <2>2, PaneOverlay, PaneTypes DEF PaneInv, PaneTree
  <2>4. selection \in Cp!Paths \cup {Nothing}
    BY PaneSelection DEF PaneInv
  <2>5. kept \in Cp!Paths \cup {Nothing} /\ (kept # Nothing => nodes'[kept] # Nothing)
    BY <2>3, <2>4, PaneSelects, PaneTypes
  <2> HIDE DEF kept
  <2>6. PaneTree'
    BY <2>1, <2>3, <2>5, PaneRebuilds DEF PaneInv, PaneTree
  <2>7. changed_files' \in Seq(Range(changed_files'))
    BY <2>1, <2>2, PaneFiles
  <2>8. changed_files' # <<>> => changed_selected' \in Range(Cp!PathsOf(changed_files'))
    BY <2>1, <2>7, PaneKeeps
  <2>9. PaneList'
    BY <2>7, <2>8 DEF PaneList
  <2>10. visible_rows' \in Seq(Cp!Paths)
    BY <2>6, PaneRowsNext
  <2>11. /\ viewport_offset \in Nat /\ changed_offset \in Nat /\ height' \in Nat
    BY <2>1 DEF PaneInv, PaneView
  <2>12. /\ Cp!TreeTop(viewport_offset, visible_rows', selection') \in Nat
         /\ Cp!ChangedTop(changed_offset, changed_files', changed_selected') \in Nat
    BY <2>9, <2>10, <2>11, PaneTops DEF PaneInv
  <2>13. PaneView'
    BY <2>1, <2>6, <2>9, <2>11, <2>12, PaneDraws
  <2> QED
    BY <2>6, <2>9, <2>13 DEF PaneInv
<1> QED
  BY <1>1, <1>2 DEF Cp!Completes
(* A listing, directory by directory.                                      *)
Loads(g, first, order, n) ==
    g = [i \in 0..n |-> IF i = 0 THEN first ELSE Cp!Load(g[i - 1], order[i])]
LoadedTree(t) ==
    /\ RootedTree(t.kinds) /\ t.selected \in Cp!Paths \cup {Nothing}
    /\ t.loaded = {} => t.kinds = nodes
    /\ t.loaded # {} => (t.selected # Nothing => t.kinds[t.selected] # Nothing)

LEMMA PaneLoadLoop ==
  ASSUME NEW n \in Nat, NEW first, NEW order
  PROVE  \E g : Loads(g, first, order, n)
<1> DEFINE L(g, m) == Loads(g, first, order, m)
           Stuck == {m \in 0..n : \A g : ~L(g, m)}
<1> HIDE DEF L
<1>1. Stuck = {}
  <2> SUFFICES ASSUME Stuck # {} PROVE FALSE
    OBVIOUS
  <2>0. Stuck \subseteq 0..n /\ Stuck \subseteq Nat
    OBVIOUS
  <2>1. PICK m \in Stuck : \A k \in Stuck : ~(<<k, m>> \in OpToRel(<, Nat))
    <3> HIDE DEF Stuck
    <3> QED BY <2>0, WFMin, NatLessThanWellFounded
  <2>2. m \in 0..n /\ \A k \in 0..n : k < m => k \notin Stuck
    <3> HIDE DEF Stuck
    <3> QED BY <2>0, <2>1 DEF OpToRel
  <2>3. CASE m = 0
    <3>1. L([i \in 0..0 |-> first], 0)
      BY DEF L, Loads
    <3> QED
      BY <2>1, <2>3, <3>1
  <2>4. CASE m # 0
    <3>1. m - 1 \in 0..n /\ m \in Nat
      BY <2>2, <2>4
    <3>2. PICK h : L(h, m - 1)
      BY <2>2, <3>1
    <3> DEFINE g == [i \in 0..m |-> IF i = m THEN Cp!Load(h[m - 1], order[m]) ELSE h[i]]
    <3>3. ASSUME NEW i \in 0..m
          PROVE  g[i] = IF i = 0 THEN first ELSE Cp!Load(g[i - 1], order[i])
      <4>1. CASE i = m
        <5>1. g[i - 1] = h[m - 1] /\ g[i] = Cp!Load(h[m - 1], order[m])
          BY <2>4, <3>1, <4>1
        <5> QED
          BY <2>4, <4>1, <5>1
      <4>2. CASE i # m
        <5>1. i \in 0..m - 1 /\ g[i] = h[i] /\ (i # 0 => g[i - 1] = h[i - 1])
          BY <3>1, <4>2
        <5>2. h[i] = IF i = 0 THEN first ELSE Cp!Load(h[i - 1], order[i])
          BY <3>2, <5>1 DEF L, Loads
        <5> QED
          BY <5>1, <5>2
      <4> QED
        BY <4>1, <4>2
    <3>4. L(g, m)
      <4>1. g = [i \in 0..m |-> g[i]]
        OBVIOUS
      <4> HIDE DEF g
      <4> QED
        BY <3>3, <4>1 DEF L, Loads
    <3> QED
      BY <2>1, <3>4
  <2> QED
    BY <2>3, <2>4
<1>2. \E g : L(g, n)
  <2>1. n \notin Stuck
    BY <1>1
  <2> QED
    BY <2>1
<1> QED
  BY <1>2 DEF L

LEMMA PaneLoad ==
  ASSUME PaneAssumption, NEW t, LoadedTree(t), NEW d \in Cp!Places
  PROVE  LoadedTree(Cp!Load(t, d))
<1> DEFINE kinds == Cp!ListedNodes(t.kinds, d, Cp!Entries(d))
           kept == Cp!RestoreSelection(kinds, t.selected)
<1>1. CASE d # Cp!Root /\ (t.kinds[d] # "directory" \/ ~Cp!DirectoryOnDisk(d))
  <2>1. Cp!Load(t, d) = t
    BY <1>1 DEF Cp!Load
  <2> QED
    BY <2>1
<1>2. CASE ~(d # Cp!Root /\ (t.kinds[d] # "directory" \/ ~Cp!DirectoryOnDisk(d)))
  <2>1. Cp!Load(t, d) = [kinds |-> kinds, selected |-> kept, loaded |-> t.loaded \cup {d}]
    BY <1>2 DEF Cp!Load
  <2>2. IsPlace(t.kinds, d)
    BY <1>2, PanePaths, PaneTypes DEF IsPlace
  <2>3. Cp!Entries(d) \in SUBSET Cp!Paths /\ \A p \in Cp!Entries(d) : Cp!Parent(p) = d
    BY DEF Cp!Entries
  <2>4. RootedTree(kinds)
    BY <2>2, <2>3, PaneListed, PaneTypes DEF LoadedTree
  <2> HIDE DEF kinds
  <2>5. kept \in Cp!Paths \cup {Nothing} /\ (kept # Nothing => kinds[kept] # Nothing)
    BY <2>4, PaneSelects, PaneTypes DEF LoadedTree
  <2> HIDE DEF kept
  <2>6. t.loaded \cup {d} # {}
    OBVIOUS
  <2> QED
    BY <2>1, <2>4, <2>5, <2>6 DEF LoadedTree
<1> QED
  BY <1>1, <1>2

LEMMA PaneLoaded ==
  ASSUME PaneAssumption, NEW n \in Nat, NEW order \in [1..n -> Cp!Places], NEW first,
         LoadedTree(first), NEW g, Loads(g, first, order, n)
  PROVE  LoadedTree(g[n])
<1> DEFINE Fine(m) == LoadedTree(g[m])
           Wrong == {m \in 0..n : ~Fine(m)}
<1>0. /\ g[0] = first
      /\ \A i \in 1..n : g[i] = Cp!Load(g[i - 1], order[i])
  BY DEF Loads
<1> HIDE DEF Fine
<1>1. Wrong = {}
  <2> SUFFICES ASSUME Wrong # {} PROVE FALSE
    OBVIOUS
  <2>0. Wrong \subseteq Nat /\ Wrong \subseteq 0..n
    OBVIOUS
  <2>1. PICK m \in Wrong : \A k \in Wrong : ~(<<k, m>> \in OpToRel(<, Nat))
    <3> HIDE DEF Wrong
    <3> QED BY <2>0, WFMin, NatLessThanWellFounded
  <2>2. m \in 0..n /\ \A k \in 0..n : k < m => k \notin Wrong
    <3> HIDE DEF Wrong
    <3> QED BY <2>0, <2>1 DEF OpToRel
  <2>3. m # 0
    BY <1>0, <2>1 DEF Fine
  <2>4. m - 1 \in 0..n /\ m \in 1..n
    BY <2>2, <2>3
  <2>5. Fine(m - 1)
    BY <2>2, <2>4
  <2>6. Fine(m)
    BY <1>0, <2>4, <2>5, PaneLoad DEF Fine
  <2> QED
    BY <2>1, <2>6
<1> QED
  BY <1>1 DEF Fine

LEMMA PaneListing ==
  ASSUME PaneAssumption, PaneInv, Cp!FilesystemApplied
  PROVE  PaneInv'
<1> DEFINE directories == IF Cp!Root \in pending THEN pending \cup expanded ELSE pending
           order == Cp!InPathOrder(directories)
           n == Len(order)
           first == [kinds |-> nodes, selected |-> selection, loaded |-> {}]
           upTo == CHOOSE g : Loads(g, first, order, n)
           t == upTo[n]
           wishes == pending \ {Cp!Root}
           opened == {d \in t.loaded \cap wishes : t.kinds[d] = "directory"}
           all == expanded \cup (opened \cap desired_expanded)
           wanted == desired_expanded \ (wishes \ opened)
<1>1. /\ pending' = {} /\ nodes' = t.kinds
      /\ t.loaded = {} => UNCHANGED <<selection, expanded, visible_rows>>
      /\ t.loaded # {} => Cp!Rebuild(t.kinds, t.selected, all, wanted)
      /\ UNCHANGED <<changed_files, changed_selected, height>>
      /\ Cp!Draw(Cp!TreeTop(viewport_offset, visible_rows', selection'), changed_offset)
  BY DEF Cp!FilesystemApplied, Loads, Cp!focus
<1>2. directories \subseteq Cp!Places
  BY PaneTypes DEF PaneInv, PaneTree
<1>3. IsFiniteSet(directories) /\ directories \subseteq Seq(Nat)
  <2> HIDE DEF directories
  <2> QED
    BY <1>2, PaneTypes, PanePaths, FS_Subset
<1> HIDE DEF directories
<1>4. order \in Seq(directories)
  BY <1>3, PaneInPathOrder
<1> HIDE DEF order
<1>5. n \in Nat /\ order \in [1..n -> Cp!Places]
  BY <1>2, <1>4, LenProperties
<1> HIDE DEF n
<1>6. LoadedTree(first)
  <2>1. selection \in Cp!Paths \cup {Nothing}
    BY PaneSelection DEF PaneInv
  <2> QED
    BY <2>1 DEF LoadedTree, PaneInv, PaneTree
<1> HIDE DEF first
<1>7. Loads(upTo, first, order, n)
  BY <1>5, PaneLoadLoop
<1> HIDE DEF upTo
<1>8. LoadedTree(t)
  BY <1>5, <1>6, <1>7, PaneLoaded
<1> HIDE DEF t, all, wanted
<1>9. pending' \subseteq Cp!Places
  BY <1>1
<1>10. PaneTree'
  <2>1. CASE t.loaded = {}
    <3>1. UNCHANGED <<nodes, expanded, visible_rows, selection>>
      BY <1>1, <1>8, <2>1 DEF LoadedTree
    <3> QED
      BY <1>9, <3>1, PaneRowStays DEF PaneInv, PaneTree
  <2>2. CASE t.loaded # {}
    BY <1>1, <1>8, <1>9, <2>2, PaneRebuilds DEF LoadedTree
  <2> QED
    BY <2>1, <2>2
<1>11. PaneList' /\ height' \in Nat
  BY <1>1 DEF PaneInv, PaneList, PaneView
<1>12. PaneView'
  BY <1>1, <1>10, <1>11, PaneDrawsThere DEF PaneInv
<1> QED
  BY <1>10, <1>11, <1>12 DEF PaneInv

LEMMA PaneInserted ==
  ASSUME PaneAssumption, PaneInv, Cp!Inserted
  PROVE  PaneInv'
<1>1. /\ UNCHANGED <<nodes, statuses, changed_files, visible_rows, expanded, selection,
                     changed_selected, height, status_seen, failure_notice, status_is_stale, pending>>
      /\ \/ Cp!Draw(viewport_offset, changed_offset)
         \/ UNCHANGED <<viewport_offset, changed_offset, panes, screen>>
  BY DEF Cp!Inserted, Cp!tree, Cp!folded, Cp!focus, Cp!status, Cp!Says, Cp!Undrawn, Cp!drawn
<1>2. PaneTree' /\ PaneList' /\ height' \in Nat /\ pending' \subseteq Cp!Places
  BY <1>1 DEF PaneInv, PaneTree, PaneList, PaneView
<1>3. CASE Cp!Draw(viewport_offset, changed_offset)
  BY <1>2, <1>3, PaneDrawsHere DEF PaneInv
<1>4. CASE UNCHANGED <<viewport_offset, changed_offset, panes, screen>>
  BY <1>1, <1>2, <1>4, PaneStays
<1> QED
  BY <1>1, <1>2, <1>3, <1>4 DEF PaneInv
-----------------------------------------------------------------------------
(* The steps of the user.  A row of the tree, or of the list, is selected: *)
(* without a drawing if it was before.                                     *)
LEMMA PaneSelectsPath ==
  ASSUME PaneAssumption, PaneInv, NEW p \in Range(visible_rows), Cp!SelectPath(p),
         UNCHANGED <<nodes, statuses, expanded, height, status_seen, failure_notice, status_is_stale>>,
         pending' \subseteq Cp!Places
  PROVE  PaneInv'
<1>1. /\ selection' = p
      /\ UNCHANGED <<visible_rows, changed_files, changed_selected>>
      /\ IF p # selection
         THEN Cp!Draw(Cp!TreeTop(viewport_offset, visible_rows, p), changed_offset)
         ELSE /\ viewport_offset' = Cp!TreeTop(viewport_offset, visible_rows, p)
              /\ changed_offset' = changed_offset /\ UNCHANGED <<panes, screen>>
  BY DEF Cp!SelectPath, Cp!Says, Cp!Undrawn, Cp!drawn
<1>2. PaneTree'
  BY <1>1, PaneRowStays DEF PaneInv
<1>3. PaneList'
  BY <1>1 DEF PaneInv, PaneList
<1>4. PaneView /\ PaneList /\ height' \in Nat /\ changed_offset \in Nat /\ viewport_offset \in Nat
      /\ viewport_offset = TreeSettled(viewport_offset)
  BY DEF PaneInv, PaneView
<1>5. CASE p # selection
  <2>1. Cp!TreeTop(viewport_offset, visible_rows, p) \in Nat
    BY <1>4, PaneTops, PaneRowsAre DEF PaneInv
  <2>2. PaneView'
    BY <1>1, <1>2, <1>3, <1>4, <1>5, <2>1, PaneDraws
  <2> QED
    BY <1>2, <1>3, <2>2 DEF PaneInv
<1>6. CASE p = selection
  <2>1. viewport_offset' = viewport_offset /\ changed_offset' = changed_offset
        /\ UNCHANGED <<panes, screen, selection>>
    BY <1>1, <1>4, <1>6 DEF Cp!TreeTop, TreeSettled
  <2>2. PaneView'
    BY <1>1, <1>4, <2>1, PaneUndrawn
  <2> QED
    BY <1>2, <1>3, <2>2 DEF PaneInv
<1> QED
  BY <1>5, <1>6

LEMMA PaneSelectsChanged ==
  ASSUME PaneAssumption, PaneInv, NEW p \in Range(Cp!PathsOf(changed_files)), Cp!SelectChanged(p),
         UNCHANGED <<nodes, statuses, expanded, height, status_seen, failure_notice, status_is_stale>>,
         pending' \subseteq Cp!Places
  PROVE  PaneInv'
<1>1. /\ changed_selected' = p
      /\ UNCHANGED <<visible_rows, changed_files, selection>>
      /\ IF p # changed_selected
         THEN Cp!Draw(viewport_offset, Cp!ChangedTop(changed_offset, changed_files, p))
         ELSE /\ changed_offset' = Cp!ChangedTop(changed_offset, changed_files, p)
              /\ viewport_offset' = viewport_offset /\ UNCHANGED <<panes, screen>>
  BY DEF Cp!SelectChanged, Cp!Says, Cp!Undrawn, Cp!drawn
<1>2. PaneTree'
  BY <1>1, PaneRowStays DEF PaneInv, PaneTree
<1>3. PaneList'
  BY <1>1 DEF PaneInv, PaneList
<1>4. PaneView /\ PaneList /\ height' \in Nat /\ changed_offset \in Nat /\ viewport_offset \in Nat
      /\ (panes.changed # 0 => changed_offset = ListSettled(changed_offset))
  BY DEF PaneInv, PaneView
<1>5. Cp!ChangedTop(changed_offset, changed_files, p) \in Nat
  BY <1>4, PaneTops
<1>6. CASE p # changed_selected
  <2>1. PaneView'
    BY <1>1, <1>2, <1>3, <1>4, <1>5, <1>6, PaneDraws
  <2> QED
    BY <1>2, <1>3, <2>1 DEF PaneInv
<1>7. CASE p = changed_selected
  <2>1. changed_offset' \in Nat /\ (panes.changed # 0 => changed_offset' = changed_offset)
    BY <1>1, <1>4, <1>5, <1>7 DEF Cp!ChangedTop, ListSettled
  <2>2. PaneView'
    BY <1>1, <1>4, <1>7, <2>1, PaneUndrawn
  <2> QED
    BY <1>2, <1>3, <2>2 DEF PaneInv
<1> QED
  BY <1>6, <1>7

(* A directory is closed, or asked for.                                    *)
LEMMA PaneCloses ==
  ASSUME PaneAssumption, PaneInv, NEW p \in Range(visible_rows), nodes' = nodes,
         \/ Cp!Closes(p)
         \/ Cp!RequestExpansion(p) /\ selection' \in Range(visible_rows) \cup {Nothing}
  PROVE  PaneTree'
<1>1. /\ p \in Cp!Paths /\ nodes[p] # Nothing /\ RootedTree(nodes) /\ pending \subseteq Cp!Places
      /\ PaneTree
  BY PaneRowsAre DEF PaneInv, PaneTree, ShownRows
<1>2. CASE Cp!Closes(p)
  <2>1. pending' \subseteq Cp!Places
    BY <1>1, <1>2 DEF Cp!Closes
  <2>2. CASE p \in expanded
    <3>1. Cp!Rebuild(nodes, p, expanded \ {p}, desired_expanded \ {p})
      BY <1>2, <2>2 DEF Cp!Closes
    <3> QED
      BY <1>1, <2>1, <3>1, PaneRebuilds
  <2>3. CASE p \notin expanded
    <3>1. UNCHANGED <<nodes, expanded, visible_rows>> /\ selection' = p
      BY <1>2, <2>3 DEF Cp!Closes
    <3> QED
      BY <1>1, <2>1, <3>1, PaneRowStays
  <2> QED
    BY <2>2, <2>3
<1>3. CASE Cp!RequestExpansion(p) /\ selection' \in Range(visible_rows) \cup {Nothing}
  <2>1. nodes[p] = "directory" /\ pending' = pending \cup {p} /\ UNCHANGED <<visible_rows, expanded>>
    BY <1>3 DEF Cp!RequestExpansion, Cp!Expandable
  <2>2. p \in Cp!Places
    BY <1>1, <2>1, PaneTypes, PanePaths DEF RootedTree
  <2> QED
    BY <1>1, <1>3, <2>1, <2>2, PaneRowStays
<1> QED
  BY <1>2, <1>3

LEMMA PaneIntends ==
  ASSUME PaneInv, Cp!Intent
  PROVE  /\ UNCHANGED <<nodes, statuses, changed_files, status_seen, failure_notice, status_is_stale>>
         /\ pending \subseteq Cp!Places
BY DEF Cp!Intent, Cp!tree, Cp!status, PaneInv, PaneTree

LEMMA PaneMoves ==
  ASSUME PaneAssumption, PaneInv, NEW key \in Cp!Keys, Cp!Moves(key)
  PROVE  PaneInv'
<1> DEFINE named == Cp!PathsOf(changed_files)
           rows == IF focused_pane = "tree" THEN visible_rows ELSE named
           selected == IF focused_pane = "tree" THEN selection ELSE changed_selected
           p == rows[Cp!RowAfter(key, Cp!RowOf(rows, selected), Len(rows))]
<1>1. /\ UNCHANGED <<expanded, pending, height>> /\ rows # <<>>
      /\ IF focused_pane = "tree" THEN Cp!SelectPath(p) ELSE Cp!SelectChanged(p)
      /\ UNCHANGED <<nodes, statuses, status_seen, failure_notice, status_is_stale>>
      /\ pending' \subseteq Cp!Places
  BY PaneIntends DEF Cp!Moves
<1>2. rows \in Seq(Range(rows))
  <2>1. visible_rows \in Seq(Range(visible_rows))
    <3>1. visible_rows \in Seq(Cp!Paths)
      BY PaneRowsAre DEF PaneInv
    <3> QED
      BY <3>1, LenProperties DEF Range
  <2>2. named \in Seq(Range(named))
    BY PaneListIs DEF PaneInv
  <2> HIDE DEF named
  <2> QED
    BY <2>1, <2>2
<1> HIDE DEF rows
<1>3. Len(rows) \in Nat \ {0} /\ DOMAIN rows = 1..Len(rows)
  BY <1>1, <1>2, LenProperties, EmptySeq
<1>4. Cp!RowOf(rows, selected) \in 0..Len(rows)
  BY <1>2, PaneRowOf
<1> HIDE DEF selected
<1>5. Cp!RowAfter(key, Cp!RowOf(rows, selected), Len(rows)) \in 1..Len(rows)
  <2> DEFINE row == Cp!RowOf(rows, selected)
             n == Len(rows)
  <2>1. row \in 0..n /\ n \in Nat \ {0}
    BY <1>3, <1>4
  <2> HIDE DEF row, n
  <2>2. Cp!RowAfter(key, row, n) \in 1..n
    BY <2>1 DEF Cp!RowAfter, Cp!Keys, Cp!Least
  <2> QED
    BY <2>2 DEF row, n
<1>6. p \in Range(rows)
  BY <1>3, <1>5 DEF Range
<1> HIDE DEF p
<1>7. CASE focused_pane = "tree"
  <2>1. p \in Range(visible_rows) /\ Cp!SelectPath(p)
    BY <1>1, <1>6, <1>7 DEF rows
  <2> QED
    BY <1>1, <2>1, PaneSelectsPath
<1>8. CASE focused_pane # "tree"
  <2>1. p \in Range(Cp!PathsOf(changed_files)) /\ Cp!SelectChanged(p)
    BY <1>1, <1>6, <1>8 DEF rows
  <2> QED
    BY <1>1, <2>1, PaneSelectsChanged
<1> QED
  BY <1>7, <1>8

LEMMA PaneExpandsOrDescends ==
  ASSUME PaneAssumption, PaneInv, Cp!ExpandOrDescend
  PROVE  PaneInv'
<1>1. /\ UNCHANGED <<nodes, statuses, changed_files, status_seen, failure_notice, status_is_stale>>
      /\ pending \subseteq Cp!Places /\ selection # Nothing
  BY PaneIntends DEF Cp!ExpandOrDescend
<1>2. /\ selection \in Cp!Paths /\ nodes[selection] # Nothing
      /\ selection \in ShownRows(nodes, expanded) /\ selection \in Range(visible_rows)
      /\ RootedTree(nodes) /\ expanded \subseteq {d \in Folders : nodes[d] = "directory"}
      /\ Range(visible_rows) = ShownRows(nodes, expanded)
  BY <1>1, PaneSelection, PaneRowsAre DEF PaneInv, PaneTree
<1>3. CASE /\ selection \in expanded /\ Cp!Children(nodes, selection) # <<>>
           /\ UNCHANGED <<expanded, pending, height>>
           /\ Cp!SelectPath(Cp!Children(nodes, selection)[1])
  <2> DEFINE children == Cp!Children(nodes, selection)
  <2>1. children \in Seq(Cp!Paths)
    BY PaneChildren, PaneTypes
  <2>2. children[1] \in Range(children)
    <3> HIDE DEF children
    <3>1. children # <<>>
      BY <1>3 DEF children
    <3>2. 1 \in DOMAIN children
      BY <2>1, <3>1, LenProperties, EmptySeq
    <3> QED
      BY <3>2 DEF Range
  <2>3. children[1] \in ShownRows(nodes, expanded)
    BY <1>2, <1>3, <2>2, PaneStepsDown, PaneTypes
  <2> QED
    BY <1>1, <1>2, <1>3, <2>3, PaneSelectsPath
<1>4. CASE /\ Cp!RequestExpansion(selection) /\ UNCHANGED <<selection, height, changed_selected>>
           /\ Cp!Draw(viewport_offset, changed_offset)
  <2>1. PaneTree'
    BY <1>1, <1>2, <1>4, PaneCloses
  <2>2. PaneList' /\ height' \in Nat
    BY <1>1, <1>4 DEF PaneInv, PaneList, PaneView
  <2> QED
    BY <1>4, <2>1, <2>2, PaneDrawsHere DEF PaneInv
<1> QED
  BY <1>3, <1>4 DEF Cp!ExpandOrDescend, Cp!Untouched, Cp!focus

LEMMA PaneCollapsesOrAscends ==
  ASSUME PaneAssumption, PaneInv, Cp!CollapseOrAscend
  PROVE  PaneInv'
<1>1. /\ UNCHANGED <<nodes, statuses, changed_files, status_seen, failure_notice, status_is_stale>>
      /\ pending \subseteq Cp!Places /\ selection # Nothing
  BY PaneIntends DEF Cp!CollapseOrAscend
<1>2. /\ selection \in ShownRows(nodes, expanded) /\ selection \in Range(visible_rows)
      /\ RootedTree(nodes) /\ Range(visible_rows) = ShownRows(nodes, expanded)
  BY <1>1, PaneSelection, PaneRowsAre DEF PaneInv, PaneTree
<1>3. CASE /\ Cp!Closes(selection) /\ UNCHANGED <<height, changed_selected>>
           /\ Cp!Draw(Cp!TreeTop(viewport_offset, visible_rows', selection'), changed_offset)
  <2>1. PaneTree'
    BY <1>1, <1>2, <1>3, PaneCloses
  <2>2. PaneList' /\ height' \in Nat
    BY <1>1, <1>3 DEF PaneInv, PaneList, PaneView
  <2> QED
    BY <1>3, <2>1, <2>2, PaneDrawsThere DEF PaneInv
<1>4. CASE /\ Cp!DisplayParent(nodes, selection) # Cp!Root
           /\ UNCHANGED <<expanded, pending, height>>
           /\ Cp!SelectPath(Cp!DisplayParent(nodes, selection))
  <2>1. Cp!DisplayParent(nodes, selection) \in Range(visible_rows)
    BY <1>2, <1>4, PaneStepsUp, PaneTypes
  <2> QED
    BY <1>1, <1>4, <2>1, PaneSelectsPath
<1> QED
  BY <1>3, <1>4 DEF Cp!CollapseOrAscend, Cp!Untouched, Cp!focus

LEMMA PaneToggles ==
  ASSUME PaneAssumption, PaneInv, Cp!ToggleTree \/ Cp!ToggleChanged
  PROVE  PaneInv'
<1>1. /\ UNCHANGED <<nodes, statuses, changed_files, status_seen, failure_notice, status_is_stale>>
      /\ pending \subseteq Cp!Places
  BY PaneIntends DEF Cp!ToggleTree, Cp!ToggleChanged
<1>2. CASE UNCHANGED <<visible_rows, expanded, selection, pending, changed_selected, height,
                       viewport_offset, changed_offset, panes, screen>>
  BY <1>1, <1>2, PaneStays
<1>3. CASE /\ selection # Nothing /\ UNCHANGED <<height, changed_selected>>
           /\ \/ Cp!Closes(selection)
              \/ Cp!RequestExpansion(selection) /\ UNCHANGED selection
           /\ Cp!Draw(Cp!TreeTop(viewport_offset, visible_rows', selection'), changed_offset)
  <2>1. selection \in Range(visible_rows)
    BY <1>3, PaneSelection DEF PaneInv
  <2>2. PaneTree'
    BY <1>1, <1>3, <2>1, PaneCloses
  <2>3. PaneList' /\ height' \in Nat
    BY <1>1, <1>3 DEF PaneInv, PaneList, PaneView
  <2> QED
    BY <1>3, <2>2, <2>3, PaneDrawsThere DEF PaneInv
<1>4. CASE /\ UNCHANGED <<visible_rows, expanded, selection, pending, changed_selected, height>>
           /\ Cp!Draw(viewport_offset, changed_offset)
  <2>1. PaneTree' /\ PaneList' /\ height' \in Nat
    BY <1>1, <1>4 DEF PaneInv, PaneTree, PaneList, PaneView
  <2> QED
    BY <1>4, <2>1, PaneDrawsHere DEF PaneInv
<1>5. CASE Cp!ToggleTree
  BY <1>2, <1>3, <1>5
     DEF Cp!ToggleTree, Cp!Untouched, Cp!focus, Cp!folded, Cp!offsets, Cp!drawn
<1>6. CASE Cp!ToggleChanged
  <2>1. /\ UNCHANGED <<visible_rows, expanded, selection, pending, changed_selected, height>>
        /\ \/ Cp!Draw(viewport_offset, changed_offset)
           \/ UNCHANGED <<viewport_offset, changed_offset, panes, screen>>
    BY <1>6 DEF Cp!ToggleChanged, Cp!focus, Cp!folded, Cp!Says, Cp!Undrawn, Cp!drawn
  <2> QED
    BY <1>2, <1>4, <2>1
<1> QED
  BY <1>5, <1>6

LEMMA PaneRedraws ==
  ASSUME PaneAssumption, PaneInv, Cp!Reloads \/ Cp!SwitchFilesPane \/ Cp!Resize
  PROVE  PaneInv'
<1>1. /\ UNCHANGED <<nodes, statuses, changed_files, status_seen, failure_notice, status_is_stale>>
      /\ pending \subseteq Cp!Places
  BY PaneIntends DEF Cp!Reloads, Cp!SwitchFilesPane, Cp!Resize
<1>2. /\ UNCHANGED <<visible_rows, expanded, changed_selected>> /\ height' \in {height} \cup Heights
      /\ Cp!Draw(viewport_offset, changed_offset)
  BY DEF Cp!Reloads, Cp!SwitchFilesPane, Cp!Resize, Cp!folded, Cp!focus
<1>3. pending' \subseteq Cp!Places
  BY <1>1, PaneTypes DEF Cp!Reloads, Cp!SwitchFilesPane, Cp!Resize
<1>4. selection' \in Range(visible_rows) \cup {Nothing}
  <2>1. CASE selection' = selection
    BY <2>1 DEF PaneInv, PaneTree
  <2>2. CASE selection' = Cp!RestoreSelection(nodes, selection)
    <3>1. /\ Range(visible_rows) = ShownRows(nodes, expanded) /\ RootedTree(nodes)
          /\ selection \in ShownRows(nodes, expanded) \cup {Nothing}
      BY PaneRowsAre DEF PaneInv, PaneTree
    <3>2. selection \in Cp!Paths \cup {Nothing}
      BY <3>1 DEF ShownRows
    <3> QED
      BY <2>2, <3>1, <3>2, PaneSelects, PaneTypes
  <2> QED
    BY <2>1, <2>2 DEF Cp!Reloads, Cp!SwitchFilesPane, Cp!Resize
<1>5. PaneTree'
  BY <1>1, <1>2, <1>3, <1>4, PaneRowStays DEF PaneInv
<1>6. PaneList' /\ height' \in Nat
  BY <1>1, <1>2, PaneTypes DEF PaneInv, PaneList, PaneView
<1> QED
  BY <1>2, <1>5, <1>6, PaneDrawsHere DEF PaneInv

LEMMA PaneClicks ==
  ASSUME PaneAssumption, PaneInv, NEW line, Cp!Click(line) \/ Cp!RightClick(line)
  PROVE  PaneInv'
<1>1. /\ UNCHANGED <<nodes, statuses, changed_files, status_seen, failure_notice, status_is_stale>>
      /\ pending \subseteq Cp!Places
  BY PaneIntends DEF Cp!Click, Cp!RightClick
<1> DEFINE i == Cp!ChangedIndex(line)
           p == visible_rows[Cp!TreeIndex(line)]
<1>2. Cp!TreeIndex(line) \in DOMAIN visible_rows => p \in Range(visible_rows)
  BY DEF Range
<1>3. CASE Cp!TreeIndex(line) \in DOMAIN visible_rows /\ Cp!SelectPath(p)
           /\ UNCHANGED <<expanded, pending, height>>
  <2> HIDE DEF p
  <2> QED
    BY <1>1, <1>2, <1>3, PaneSelectsPath
<1>4. CASE i \in DOMAIN changed_files /\ Cp!SelectChanged(changed_files[i].path)
           /\ UNCHANGED <<expanded, pending, height>>
  <2>1. changed_files[i].path \in Range(Cp!PathsOf(changed_files))
    <3> HIDE DEF i
    <3>1. i \in DOMAIN Cp!PathsOf(changed_files)
          /\ Cp!PathsOf(changed_files)[i] = changed_files[i].path
      BY <1>4 DEF Cp!PathsOf
    <3> QED
      BY <3>1 DEF Range
  <2> HIDE DEF i
  <2> QED
    BY <1>1, <1>4, <2>1, PaneSelectsChanged
<1>5. CASE /\ Cp!TreeIndex(line) \in DOMAIN visible_rows
           /\ Cp!Closes(p) \/ (Cp!RequestExpansion(p) /\ selection' = p)
           /\ UNCHANGED <<height, changed_selected>>
           /\ Cp!Draw(Cp!TreeTop(viewport_offset, visible_rows', selection'), changed_offset)
  <2> HIDE DEF p
  <2>1. PaneTree'
    BY <1>1, <1>2, <1>5, PaneCloses
  <2>2. PaneList' /\ height' \in Nat
    BY <1>1, <1>5 DEF PaneInv, PaneList, PaneView
  <2> QED
    BY <1>5, <2>1, <2>2, PaneDrawsThere DEF PaneInv
<1>6. CASE Cp!Click(line)
  BY <1>3, <1>4, <1>6 DEF Cp!Click
<1>7. CASE Cp!RightClick(line)
  <2>1. /\ Cp!TreeIndex(line) \in DOMAIN visible_rows
        /\ \/ /\ Cp!Closes(p) \/ (Cp!RequestExpansion(p) /\ selection' = p)
              /\ Cp!Untouched
              /\ Cp!Draw(Cp!TreeTop(viewport_offset, visible_rows', selection'), changed_offset)
           \/ UNCHANGED <<expanded, pending, height>> /\ Cp!SelectPath(p)
    BY <1>7 DEF Cp!RightClick
  <2>2. Cp!Untouched => UNCHANGED <<height, changed_selected>>
    BY DEF Cp!Untouched, Cp!focus
  <2> HIDE DEF p
  <2> QED
    BY <1>3, <1>5, <2>1, <2>2
<1> QED
  BY <1>6, <1>7

LEMMA PaneIntents ==
  ASSUME PaneAssumption, PaneInv, Cp!Intents
  PROVE  PaneInv'
BY PaneMoves, PaneExpandsOrDescends, PaneCollapsesOrAscends, PaneToggles, PaneRedraws, PaneClicks
   DEF Cp!Intents

LEMMA PaneNext ==
  ASSUME PaneAssumption, PaneInv, [Cp!Next]_(Cp!vars)
  PROVE  PaneInv'
<1>1. CASE UNCHANGED Cp!vars
  <2>1. UNCHANGED <<nodes, statuses, changed_files, visible_rows, expanded, selection,
                    changed_selected, height, status_seen, failure_notice, status_is_stale,
                    panes, screen, viewport_offset, changed_offset, pending>>
    BY <1>1 DEF Cp!vars, Cp!tree, Cp!folded, Cp!status, Cp!focus, Cp!offsets, Cp!drawn
  <2> QED
    BY <2>1, PaneStays DEF PaneInv, PaneTree
<1> QED
  BY <1>1, PaneOutside, PaneCompletes, PaneListing, PaneInserted, PaneIntents DEF Cp!Next
-----------------------------------------------------------------------------
(* At first: the row selected is the first of the tree.                    *)
LEMMA PaneFirstRow ==
  ASSUME Cp!PathsAssumption, Cp!NoneAssumption, NEW kinds, RootedTree(kinds), NEW open,
         Cp!Rows(kinds, open) # <<>>
  PROVE  Cp!Rows(kinds, open)[1] = Cp!OrderedFirst(kinds)
<1> DEFINE rows == Cp!Rows(kinds, open)
           c == Cp!Children(kinds, Cp!Root)
           top == NodesOf(kinds, Cp!Root)
           dirs == {p \in top : kinds[p] = "directory"}
           first == IF dirs # {} THEN dirs ELSE top
           n == Len(c)
<1>1. PICK below : Unfolds(kinds, open, below) /\ rows = below[Cp!Root]
  BY PaneUnfolds
<1>2. /\ c \in Seq(Cp!Paths) /\ Range(c) = top /\ n \in Nat /\ DOMAIN c = 1..n
      /\ \A i, j \in DOMAIN c : ShownBefore(kinds, c[i], c[j]) => i < j
  BY PaneChildren, LenProperties
<1>3. Cp!OrderedFirst(kinds) = IF top = {} THEN Nothing
                               ELSE CHOOSE p \in first : \A q \in first \ {p} : Cp!PathLess(p, q)
  BY DEF Cp!OrderedFirst, NodesOf
<1> DEFINE G == Pieces(kinds, open, below, Cp!Root)
<1>4. /\ rows = Cp!FlattenSeq(G) /\ G = [i \in 1..n |-> Piece(kinds, open, below, c[i])]
  BY <1>1, <1>2 DEF Unfolds, Pieces, Cp!Places
<1>5. top \subseteq Cp!Paths /\ top \subseteq Seq(Nat)
  BY PanePaths DEF NodesOf
<1>6. ASSUME NEW i \in 1..n
      PROVE  G[i] \in Seq(Cp!Paths) /\ G[i] # <<>> /\ G[i][1] = c[i]
  <2>1. c[i] \in Cp!Paths
    BY <1>2
  <2>2. G[i] = Piece(kinds, open, below, c[i])
    BY <1>4
  <2>3. Opens(kinds, open, c[i]) => below[c[i]] \in Seq(Cp!Paths)
    <3>1. Opens(kinds, open, c[i]) => IsPlace(kinds, c[i])
      BY <2>1, PanePaths DEF Opens, IsPlace, RootedTree
    <3> QED
      BY <1>1, <3>1, PaneRowsBelow DEF RowsBelow
  <2> DEFINE o == <<c[i]>>
             w == below[c[i]]
  <2>4. o \in Seq(Cp!Paths) /\ Len(o) = 1 /\ o[1] = c[i] /\ o # <<>>
    BY <2>1
  <2>5. G[i] = IF Opens(kinds, open, c[i]) THEN o \o w ELSE o
    BY <2>2 DEF Piece, Opens
  <2> HIDE DEF o, w, G
  <2>6. CASE Opens(kinds, open, c[i])
    <3>1. w \in Seq(Cp!Paths)
      BY <2>3, <2>6 DEF w
    <3>2. o \o w \in Seq(Cp!Paths) /\ Len(o \o w) = 1 + Len(w) /\ Len(w) \in Nat
          /\ (o \o w)[1] = o[1]
      <4>1. Len(w) \in Nat /\ o \in Seq(Cp!Paths) /\ Len(o) = 1
        BY ONLY <2>4, <3>1, LenProperties
      <4>2. /\ o \o w \in Seq(Cp!Paths) /\ Len(o \o w) = Len(o) + Len(w)
            /\ \A j \in 1..(Len(o) + Len(w)) :
                  (o \o w)[j] = IF j <= Len(o) THEN o[j] ELSE w[j - Len(o)]
        BY ONLY <3>1, <4>1, ConcatProperties
      <4> QED
        BY ONLY <4>1, <4>2
    <3> QED
      BY <2>4, <2>5, <2>6, <3>2, EmptySeq
  <2>7. CASE ~Opens(kinds, open, c[i])
    BY <2>4, <2>5, <2>7
  <2> QED
    BY <2>6, <2>7
<1> HIDE DEF c, n
<1>7. n # 0
  <2> SUFFICES ASSUME n = 0 PROVE FALSE
    OBVIOUS
  <2>1. G = <<>> /\ Cp!FlattenSeq(G) = G
    BY <1>4 DEF Cp!FlattenSeq
  <2> QED
    BY <1>4, <2>1
<1>8. rows[1] = c[1]
  <2>1. n \in Nat \ {0} /\ G \in [1..n -> Seq(Cp!Paths)] /\ G[1] # <<>> /\ G[1][1] = c[1]
    BY <1>2, <1>4, <1>6, <1>7
  <2> HIDE DEF G, rows
  <2>2. Cp!FlattenSeq(G)[1] = G[1][1]
    BY <2>1, PaneFlatHead
  <2> QED
    BY <1>4, <2>1, <2>2
<1> HIDE DEF rows, G, top
<1>9. c[1] \in top /\ top # {}
  <2>1. 1 \in DOMAIN c
    BY <1>2, <1>7
  <2>2. c[1] \in Range(c)
    BY <2>1 DEF Range
  <2> QED
    BY <1>2, <2>2
<1>10. \A q \in top : ~ShownBefore(kinds, q, c[1])
  <2> SUFFICES ASSUME NEW q \in top, ShownBefore(kinds, q, c[1])
               PROVE  FALSE
    OBVIOUS
  <2>1. PICK j \in DOMAIN c : c[j] = q
    BY <1>2 DEF Range
  <2>2. j < 1 /\ j \in 1..n
    BY <1>2, <1>7, <2>1
  <2> QED
    BY <1>2, <2>2
<1>11. c[1] \in first /\ first \subseteq top
  <2>1. dirs # {} => kinds[c[1]] = "directory"
    BY <1>9, <1>10 DEF ShownBefore
  <2> QED
    BY <1>9, <2>1
<1>12. /\ \A x \in top : ~Cp!PathLess(x, x)
       /\ \A x, y, z \in top : Cp!PathLess(x, y) /\ Cp!PathLess(y, z) => Cp!PathLess(x, z)
       /\ \A x, y \in top : x = y \/ Cp!PathLess(x, y) \/ Cp!PathLess(y, x)
  <2>1. /\ \A x \in top : ~Fs!PathLess(x, x)
        /\ \A x, y, z \in top : Fs!PathLess(x, y) /\ Fs!PathLess(y, z) => Fs!PathLess(x, z)
        /\ \A x, y \in top : x = y \/ Fs!PathLess(x, y) \/ Fs!PathLess(y, x)
    BY <1>5, SearchOrder
  <2> QED
    BY <2>1, PaneOperators
<1>13. ASSUME NEW q \in first \ {c[1]}
       PROVE  Cp!PathLess(c[1], q)
  <2>1. kinds[q] = "directory" <=> kinds[c[1]] = "directory"
    BY <1>11, <1>13
  <2>2. ~Cp!PathLess(q, c[1])
    BY <1>10, <1>11, <1>13, <2>1 DEF ShownBefore
  <2> QED
    BY <1>11, <1>12, <1>13, <2>2
<1> HIDE DEF first
<1> DEFINE p == CHOOSE p \in first : \A q \in first \ {p} : Cp!PathLess(p, q)
<1>14. p \in first /\ \A q \in first \ {p} : Cp!PathLess(p, q)
  BY <1>11, <1>13
<1> HIDE DEF p
<1>15. p = c[1]
  BY <1>11, <1>12, <1>13, <1>14
<1> QED
  BY <1>3, <1>8, <1>9, <1>15 DEF p, rows

LEMMA PaneStarts ==
  ASSUME PaneAssumption, Cp!Init
  PROVE  PaneInv
<1> DEFINE bare == [p \in Cp!Paths |-> Nothing]
           here == Cp!Entries(Cp!Root)
<1>1. /\ nodes = Cp!ListedNodes(bare, Cp!Root, here) /\ selection = Cp!OrderedFirst(nodes)
      /\ visible_rows = Cp!Rows(nodes, {}) /\ expanded = {} /\ pending = {Cp!Root}
      /\ changed_files = <<>> /\ failure_notice = FALSE /\ status_is_stale = (backend = "Passive")
      /\ viewport_offset = 0 /\ changed_offset = 0
      /\ height \in Heights /\ panes = Cp!Layout(height, status_is_stale) /\ screen = Cp!Screen
  BY DEF Cp!Init
<1>2. RootedTree(bare)
  BY PaneTypes DEF RootedTree, Cp!NoneAssumption
<1>3. here \in SUBSET Cp!Paths /\ \A p \in here : Cp!Parent(p) = Cp!Root
  BY DEF Cp!Entries
<1> HIDE DEF bare, here
<1>4. RootedTree(nodes)
  <2>1. IsPlace(bare, Cp!Root)
    BY DEF IsPlace
  <2> QED
    BY <1>1, <1>2, <1>3, <2>1, PaneListed, PaneTypes
<1>5. visible_rows = Cp!Rows(nodes, expanded)
  BY <1>1
<1>6. /\ visible_rows \in Seq(Cp!Paths) /\ Range(visible_rows) = ShownRows(nodes, expanded)
      /\ IsInjective(visible_rows) /\ Len(visible_rows) \in Nat
      /\ DOMAIN visible_rows = 1..Len(visible_rows)
  BY <1>4, <1>5, PaneRows, PaneTypes, LenProperties
<1>7. selection \in Range(visible_rows) \cup {Nothing}
  BY <1>1, <1>4, <1>6, PaneFirst, PaneTypes
<1>8. PaneTree
  BY <1>1, <1>4, <1>5, <1>7, PaneTypes DEF PaneTree
<1>9. changed_files \in Seq(Range(changed_files)) /\ Len(changed_files) = 0
  <2>1. <<>> \in Seq(Range(<<>>)) /\ Len(<<>>) = 0
    OBVIOUS
  <2> QED
    BY <1>1, <2>1
<1>10. PaneList
  BY <1>1, <1>9 DEF PaneList
<1>11. height \in Nat /\ panes = Cp!Layout(height, failure_notice \/ status_is_stale)
  BY <1>1, PaneTypes
<1>12. panes.tree \in Nat /\ panes.changed \in Nat
  <2> DEFINE noticed == failure_notice \/ status_is_stale
  <2>1. height \in Nat /\ panes = Cp!Layout(height, noticed)
    BY <1>11
  <2> HIDE DEF noticed
  <2> QED
    BY <2>1, PaneLayout
<1>13. TreeSettled(0) = 0
  <2> DEFINE row == Cp!RowOf(visible_rows, selection)
  <2>1. row \in 0..Len(visible_rows)
    BY <1>6, PaneRowOf
  <2>2. visible_rows # <<>> => row = 1
    <3> SUFFICES ASSUME visible_rows # <<>> PROVE row = 1
      OBVIOUS
    <3>1. visible_rows[1] = selection /\ 1 \in DOMAIN visible_rows
      BY <1>1, <1>4, <1>6, PaneFirstRow, PaneTypes, EmptySeq
    <3>2. row \in 1..Len(visible_rows) /\ visible_rows[row] = selection
      BY <1>6, <3>1, PaneRowOf DEF Range
    <3> HIDE DEF row
    <3> QED
      BY <1>6, <3>1, <3>2 DEF IsInjective
  <2>3. visible_rows = <<>> => Len(visible_rows) = 0
    BY <1>6, EmptySeq
  <2> HIDE DEF row
  <2>4. Cp!EnsureVisible(0, row, Len(visible_rows), panes.tree) = 0
    BY <1>6, <1>12, <2>1, <2>2, <2>3 DEF Cp!EnsureVisible
  <2> QED
    BY <2>4 DEF TreeSettled, row
<1>14. ListSettled(0) = 0
  <2> DEFINE named == Cp!PathsOf(changed_files)
             row == Cp!RowOf(named, changed_selected)
  <2>1. named \in Seq(Range(named)) /\ Len(named) = 0
    BY <1>9, <1>10, PaneListIs
  <2> HIDE DEF named
  <2>2. row \in 0..0
    BY <2>1, PaneRowOf
  <2> HIDE DEF row
  <2>3. row = 0
    BY <2>2
  <2> QED
    BY <2>3 DEF ListSettled, Cp!EnsureVisible, row, named
<1>15. Drawn(0, 0)
  BY <1>1, <1>11, <1>13, <1>14 DEF Drawn
<1>16. PaneView
  BY <1>8, <1>10, <1>15, PaneDrawn
<1> QED
  BY <1>8, <1>10, <1>16 DEF PaneInv

(* What is on the screen is what RowsTrue and SelectionShown say.          *)
LEMMA PaneTrue ==
  ASSUME PaneAssumption, PaneInv
  PROVE  Cp!RowsTrue
<1> DEFINE Open(p) == \A d \in Folders : (Cp!Below(p, d) /\ nodes[d] # Nothing) => d \in expanded
<1>1. Cp!IsInjective(visible_rows) /\ Cp!ToSet(visible_rows) = ShownRows(nodes, expanded)
  BY PaneRowsAre, PaneOperators DEF PaneInv
<1>2. \A d \in Folders : nodes[d] # Nothing <=> nodes[d] = "directory"
  BY DEF PaneInv, PaneTree, RootedTree, PaneAssumption, Cp!NoneAssumption
<1>3. \A p : Open(p) <=> \A e \in Folders : Cp!Below(p, e) /\ nodes[e] = "directory" => e \in expanded
  BY <1>2
<1> HIDE DEF Open
<1>4. Cp!ToSet(visible_rows) = {p \in Cp!Paths : nodes[p] # Nothing /\ Open(p)}
  BY <1>1, <1>3 DEF ShownRows
<1>5. /\ screen.tree = Cp!Screen.tree /\ screen.empty = Cp!Screen.empty
      /\ Len(screen.changed) = Len(Cp!Screen.changed)
      /\ \A i \in DOMAIN screen.changed : screen.changed[i].file = Cp!Screen.changed[i].file
  BY DEF PaneInv, PaneView, TreeDrawn, ListDrawn
<1> QED
  BY <1>1, <1>4, <1>5 DEF Cp!RowsTrue, Open

LEMMA PaneShows ==
  ASSUME PaneAssumption, PaneInv
  PROVE  Cp!SelectionShown
<1> DEFINE noticed == failure_notice \/ status_is_stale
<1>1. /\ height \in Nat /\ panes = Cp!Layout(height, noticed) /\ viewport_offset \in Nat
      /\ viewport_offset = TreeSettled(viewport_offset) /\ screen.tree = Cp!Screen.tree
      /\ ListLit
  BY DEF PaneInv, PaneView, TreeDrawn
<1>2. /\ panes.tree \in Nat
      /\ 1 + panes.tree + panes.divider + panes.changed + (IF noticed THEN 1 ELSE 0)
           <= (IF height < 2 THEN 2 ELSE height)
  <2> HIDE DEF noticed
  <2> QED
    BY <1>1, PaneLayout
<1>3. ASSUME selection # Nothing, panes.tree # 0
      PROVE  \E i \in DOMAIN screen.tree : screen.tree[i].band
  <2> DEFINE row == Cp!RowOf(visible_rows, selection)
             w == Window(visible_rows, viewport_offset, panes.tree)
             k == row - viewport_offset
  <2>1. /\ visible_rows \in Seq(Cp!Paths) /\ Len(visible_rows) \in Nat
        /\ row \in 1..Len(visible_rows) /\ visible_rows[row] = selection
    BY <1>3, PaneRowsAre, PaneSelection, PaneRowOf, LenProperties DEF PaneInv
  <2> HIDE DEF row
  <2>2. viewport_offset < row /\ row <= viewport_offset + panes.tree
    <3>1. /\ row # 0 /\ row \in 0..Len(visible_rows)
      BY <2>1
    <3>2. viewport_offset = Cp!EnsureVisible(viewport_offset, row, Len(visible_rows), panes.tree)
      BY <1>1 DEF TreeSettled, row
    <3> DEFINE top == Cp!EnsureVisible(viewport_offset, row, Len(visible_rows), panes.tree)
    <3>3. viewport_offset \in Nat /\ panes.tree \in Nat /\ panes.tree # 0 /\ Len(visible_rows) \in Nat
      BY <1>1, <1>2, <1>3, <2>1
    <3>4. top < row /\ row <= top + panes.tree
      BY ONLY <3>1, <3>3, PaneEnsures
    <3> HIDE DEF top
    <3>5. viewport_offset = top
      BY <3>2 DEF top
    <3> QED
      BY <3>4, <3>5
  <2>3. k \in DOMAIN w /\ w[k] = selection
    <3>1. /\ row - viewport_offset \in DOMAIN Window(visible_rows, viewport_offset, panes.tree)
          /\ Window(visible_rows, viewport_offset, panes.tree)[row - viewport_offset]
               = visible_rows[row]
      BY <1>1, <1>2, <2>1, <2>2, PaneWindow
    <3> QED
      BY <2>1, <3>1
  <2>4. Cp!Screen.tree = [i \in DOMAIN w |->
                            [path |-> w[i], kind |-> nodes[w[i]], mark |-> statuses[w[i]],
                             band |-> w[i] = selection]]
    BY PaneWindows
  <2> HIDE DEF w, k
  <2> DEFINE lit == w[k] = selection
  <2>5. k \in DOMAIN screen.tree
        /\ screen.tree[k] = [path |-> w[k], kind |-> nodes[w[k]], mark |-> statuses[w[k]],
                             band |-> lit]
    BY <1>1, <2>3, <2>4
  <2>6. lit
    BY <2>3
  <2> HIDE DEF lit
  <2>7. screen.tree[k].band
    BY <2>5, <2>6
  <2> QED
    BY <2>5, <2>7
<1>4. (screen.lit /\ changed_files # <<>>) => \E i \in DOMAIN screen.changed : screen.changed[i].band
  BY <1>1 DEF ListLit
<1> QED
  BY <1>2, <1>3, <1>4 DEF Cp!SelectionShown

(* In every run of the Files view, the rows of the tree are the nodes all  *)
(* of whose directories are open, each once, and the screen shows them,    *)
(* their marks and the list of changed files as they are (RowsTrue of      *)
(* ChangesPane): rebuild_visible_rows() and render() in src/src/runtime.rs.*)
THEOREM PanesRowsTrue == PaneAssumption => (Cp!Spec => []Cp!RowsTrue)
<1> SUFFICES ASSUME PaneAssumption
             PROVE  Cp!Spec => []Cp!RowsTrue
  OBVIOUS
<1>1. Cp!Init => PaneInv
  BY PaneStarts
<1>2. PaneInv /\ [Cp!Next]_(Cp!vars) => PaneInv'
  BY PaneNext
<1>3. PaneInv => Cp!RowsTrue
  BY PaneTrue
<1> QED
  BY <1>1, <1>2, <1>3, PTL DEF Cp!Spec

(* The row selected is on the screen in the pane that has the focus, and   *)
(* the panes, the rule and a notice fit the height of the view             *)
(* (SelectionShown of ChangesPane): ensure_selection_visible(),            *)
(* ensure_changed_selection_visible() and render() in src/src/runtime.rs.  *)
THEOREM PanesShowSelected == PaneAssumption => (Cp!Spec => []Cp!SelectionShown)
<1> SUFFICES ASSUME PaneAssumption
             PROVE  Cp!Spec => []Cp!SelectionShown
  OBVIOUS
<1>1. Cp!Init => PaneInv
  BY PaneStarts
<1>2. PaneInv /\ [Cp!Next]_(Cp!vars) => PaneInv'
  BY PaneNext
<1>3. PaneInv => Cp!SelectionShown
  BY PaneShows
<1> QED
  BY <1>1, <1>2, <1>3, PTL DEF Cp!Spec

-----------------------------------------------------------------------------
(* What a status command reports, and that the list and the marks tell it. *)
LEMMA VcsKinds ==
  /\ Cp!Kinds = {"Conflicted", "Renamed", "Copied", "TypeChanged", "Deleted", "Added", "Modified",
                 "Untracked"}
  /\ \A k \in Cp!Kinds : Cp!Order[k] \in Nat
  /\ \A k, l \in Cp!Kinds : Cp!Order[k] = Cp!Order[l] => k = l
  /\ \A k \in Cp!Kinds : Cp!Order["Conflicted"] <= Cp!Order[k]
  /\ \A k \in {"Modified", "Deleted", "TypeChanged"} :
       Cp!Order["Renamed"] <= Cp!Order[k] /\ Cp!Order["Copied"] <= Cp!Order[k]
BY DEF Cp!Kinds, Cp!Order

LEMMA VcsStrongest ==
  ASSUME NEW S \in SUBSET Cp!Kinds
  PROVE  /\ S # {} => /\ Cp!Strongest(S) \in S
                      /\ \A l \in S : Cp!Order[Cp!Strongest(S)] <= Cp!Order[l]
         /\ \A k \in S : (\A l \in S : Cp!Order[k] <= Cp!Order[l]) => k = Cp!Strongest(S)
<1> DEFINE ranks == {Cp!Order[k] : k \in S}
<1>1. S # {} => \E k \in S : \A l \in S : Cp!Order[k] <= Cp!Order[l]
  <2> SUFFICES ASSUME S # {} PROVE \E k \in S : \A l \in S : Cp!Order[k] <= Cp!Order[l]
    OBVIOUS
  <2>1. ranks \subseteq Nat /\ ranks # {}
    <3>1. \A k \in S : Cp!Order[k] \in Nat
      BY VcsKinds
    <3>2. PICK k \in S : TRUE
      OBVIOUS
    <3>3. Cp!Order[k] \in ranks
      OBVIOUS
    <3> QED
      BY <3>1, <3>3
  <2>2. PICK m \in ranks : \A j \in ranks : ~(<<j, m>> \in OpToRel(<, Nat))
    <3> HIDE DEF ranks
    <3> QED BY <2>1, WFMin, NatLessThanWellFounded
  <2>3. PICK k \in S : m = Cp!Order[k]
    BY <2>2
  <2>4. ASSUME NEW l \in S
        PROVE  Cp!Order[k] <= Cp!Order[l]
    <3>1. Cp!Order[l] \in ranks /\ Cp!Order[l] \in Nat /\ m \in Nat
      BY <2>1, VcsKinds
    <3>2. ~(Cp!Order[l] < m)
      BY <2>2, <3>1 DEF OpToRel
    <3> QED
      BY <2>3, <3>1, <3>2
  <2> QED
    BY <2>4
<1>2. S # {} => /\ Cp!Strongest(S) \in S
                /\ \A l \in S : Cp!Order[Cp!Strongest(S)] <= Cp!Order[l]
  BY <1>1 DEF Cp!Strongest
<1>3. ASSUME NEW k \in S, \A l \in S : Cp!Order[k] <= Cp!Order[l]
      PROVE  k = Cp!Strongest(S)
  <2> DEFINE s == Cp!Strongest(S)
  <2>1. s \in S /\ Cp!Order[s] <= Cp!Order[k] /\ Cp!Order[k] <= Cp!Order[s]
    BY <1>2, <1>3
  <2> HIDE DEF s
  <2>2. Cp!Order[s] = Cp!Order[k]
    BY <2>1, VcsKinds
  <2>3. s = k
    BY <2>1, <2>2, VcsKinds
  <2> QED
    BY <2>3 DEF s
<1> QED
  BY <1>2, <1>3

LEMMA VcsDominates ==
  ASSUME NEW S \in SUBSET Cp!Kinds, NEW T \in SUBSET Cp!Kinds, S \subseteq T,
         \A l \in T : \E k \in S : Cp!Order[k] <= Cp!Order[l]
  PROVE  /\ S = {} <=> T = {}
         /\ S # {} => Cp!Strongest(S) = Cp!Strongest(T)
<1>1. S = {} <=> T = {}
  OBVIOUS
<1>2. ASSUME S # {}
      PROVE  Cp!Strongest(S) = Cp!Strongest(T)
  <2> DEFINE s == Cp!Strongest(S)
  <2>1. s \in S /\ \A l \in S : Cp!Order[s] <= Cp!Order[l]
    BY <1>2, VcsStrongest
  <2> HIDE DEF s
  <2>2. ASSUME NEW l \in T
        PROVE  Cp!Order[s] <= Cp!Order[l]
    <3>1. PICK k \in S : Cp!Order[k] <= Cp!Order[l]
      OBVIOUS
    <3>2. /\ Cp!Order[s] \in Nat /\ Cp!Order[k] \in Nat /\ Cp!Order[l] \in Nat
          /\ Cp!Order[s] <= Cp!Order[k]
      BY <2>1, VcsKinds
    <3> QED
      BY <3>1, <3>2
  <2>3. s = Cp!Strongest(T)
    BY <2>1, <2>2, VcsStrongest
  <2> QED
    BY <2>3 DEF s
<1> QED
  BY <1>1, <1>2

(* The letters of a difference say what it is.                             *)
Contained(t) == t \in [WorkspaceFiles -> Cp!Contents]

LEMMA VcsSource ==
  ASSUME Nothing \notin WorkspaceFiles, NEW old, NEW new, NEW f
  PROVE  /\ Cp!SourceOf(old, new, f) \in WorkspaceFiles \cup {Nothing}
         /\ Cp!SourceOf(old, new, f) # Nothing =>
              old[f] = "absent" /\ new[f] # "absent" /\ new[Cp!SourceOf(old, new, f)] = "absent"
<1>1. CASE Cp!Sources(old, new, f) = {}
  BY <1>1 DEF Cp!SourceOf
<1>2. CASE Cp!Sources(old, new, f) # {}
  <2>1. Cp!SourceOf(old, new, f) \in Cp!Sources(old, new, f)
    BY <1>2 DEF Cp!SourceOf
  <2> QED
    BY <2>1 DEF Cp!Sources
<1> QED
  BY <1>1, <1>2

LEMMA VcsNewName ==
  ASSUME Nothing \notin WorkspaceFiles, NEW old, NEW new, NEW s,
         Cp!NewName(old, new, s) # Nothing
  PROVE  new[s] = "absent" \/ s = Nothing
<1> DEFINE heirs == {f \in WorkspaceFiles : Cp!SourceOf(old, new, f) = s}
<1>1. PICK f \in heirs : TRUE
  BY DEF Cp!NewName
<1> QED
  BY <1>1, VcsSource

LEMMA VcsLetters ==
  ASSUME Nothing \notin WorkspaceFiles, NEW old, NEW new, NEW f \in WorkspaceFiles,
         Contained(old), Contained(new)
  PROVE  /\ Cp!MoveLetter(old, new, f) \in {".", "A", "D", "T", "M", "R", "C"}
         /\ Cp!MoveLetter(old, new, f) = "." => Cp!Differences(old, new, f) = {}
         /\ Cp!MoveLetter(old, new, f) # "." =>
              Cp!Differences(old, new, f) = {Cp!MapState(Cp!MoveLetter(old, new, f))}
         /\ Cp!SourceOf(old, new, f) = Nothing =>
              Cp!MoveLetter(old, new, f) = Cp!Letter(old[f], new[f])
         /\ Cp!SourceOf(old, new, f) # Nothing =>
              Cp!MoveLetter(old, new, f) =
                IF Cp!NewName(old, new, Cp!SourceOf(old, new, f)) = f THEN "R" ELSE "C"
<1> DEFINE s == Cp!SourceOf(old, new, f)
           x == Cp!MoveLetter(old, new, f)
           D == Cp!Differences(old, new, f)
           named == Cp!NewName(old, new, s) = f
<1>1. x = IF s = Nothing THEN Cp!Letter(old[f], new[f]) ELSE IF named THEN "R" ELSE "C"
  BY DEF Cp!MoveLetter
<1>2. D = IF s = Nothing
          THEN IF old[f] = new[f] THEN {}
               ELSE IF old[f] = "absent" THEN {"Added"}
               ELSE IF new[f] = "absent" THEN {"Deleted"}
               ELSE IF Cp!FileType(old[f]) # Cp!FileType(new[f]) THEN {"TypeChanged"} ELSE {"Modified"}
          ELSE IF named THEN {"Renamed"} ELSE {"Copied"}
  BY DEF Cp!Differences
<1>3. Cp!Letter(old[f], new[f]) = IF old[f] = new[f] THEN "."
          ELSE IF old[f] = "absent" THEN "A"
          ELSE IF new[f] = "absent" THEN "D"
          ELSE IF Cp!FileType(old[f]) # Cp!FileType(new[f]) THEN "T" ELSE "M"
  BY DEF Cp!Letter
<1>4. /\ Cp!MapState("A") = "Added" /\ Cp!MapState("D") = "Deleted"
      /\ Cp!MapState("T") = "TypeChanged" /\ Cp!MapState("M") = "Modified"
      /\ Cp!MapState("R") = "Renamed" /\ Cp!MapState("C") = "Copied"
  BY DEF Cp!MapState
<1> HIDE DEF s, x, D, named
<1>5. /\ x \in {".", "A", "D", "T", "M", "R", "C"}
      /\ x = "." => D = {}
      /\ x # "." => D = {Cp!MapState(x)}
  BY <1>1, <1>2, <1>3, <1>4
<1> QED
  BY <1>1, <1>5 DEF s, x, D, named

LEMMA VcsMapState ==
  /\ Cp!MapState(".") = Nothing
  /\ Cp!MapState("M") = "Modified" /\ Cp!MapState("A") = "Added"
  /\ Cp!MapState("D") = "Deleted" /\ Cp!MapState("R") = "Renamed"
  /\ Cp!MapState("C") = "Copied" /\ Cp!MapState("T") = "TypeChanged"
BY DEF Cp!MapState

(* What git reports of a file.                                             *)
HeadOf(r) == [f \in WorkspaceFiles |-> r[f].head]
IndexOf(r) == [f \in WorkspaceFiles |-> r[f].index]
WorkOf(r) == [f \in WorkspaceFiles |-> r[f].work]
LetterX(r, f) == Cp!MoveLetter(HeadOf(r), IndexOf(r), f)
LetterY(r, f) == IF IndexOf(r)[f] = "absent" THEN "." ELSE Cp!Letter(IndexOf(r)[f], r[f].work)
IsTracked(r, f) ==
    /\ r[f].conflict = "no" /\ Cp!NewName(HeadOf(r), IndexOf(r), f) = Nothing
    /\ LetterX(r, f) # "." \/ LetterY(r, f) # "."
GitTold(r, f, n) ==
    LET from == Cp!SourceOf(HeadOf(r), IndexOf(r), f)
        x == Cp!MapState(LetterX(r, f))
        y == Cp!MapState(LetterY(r, f))
    IN  \/ /\ r[f].conflict # "no"
           /\ n = Cp!Entry(f, Nothing, "Conflicted", Cp!MapState(Cp!Stages(r[f].conflict)[1]),
                           Cp!MapState(Cp!Stages(r[f].conflict)[2]))
        \/ /\ IsTracked(r, f) /\ from = Nothing
           /\ n = Cp!Entry(f, Nothing, Cp!CombinedKind(x, y), x, y)
        \/ /\ IsTracked(r, f) /\ from # Nothing
           /\ n = Cp!Entry(f, from, x, x, y)
        \/ /\ r[f].conflict = "no" /\ IndexOf(r)[f] = "absent" /\ r[f].work # "absent"
           /\ n = Cp!Entry(f, Nothing, "Untracked", Nothing, "Untracked")

LEMMA VcsGitReport ==
  ASSUME NEW r
  PROVE  \A n : n \in {Cp!GitEntry(q) : q \in Cp!GitRecords(r)} <=>
                  \E f \in WorkspaceFiles : GitTold(r, f, n)
<1> DEFINE head == HeadOf(r)
           staged == IndexOf(r)
           unmerged(f) == [tag |-> "u", xy |-> r[f].conflict, x |-> ".", y |-> ".", path |-> f,
                           source |-> Nothing]
           changed(f) == [tag |-> IF Cp!SourceOf(head, staged, f) = Nothing THEN "1" ELSE "2",
                          xy |-> "no", x |-> LetterX(r, f), y |-> LetterY(r, f), path |-> f,
                          source |-> Cp!SourceOf(head, staged, f)]
           untracked(f) == [tag |-> "?", xy |-> "no", x |-> ".", y |-> ".", path |-> f,
                            source |-> Nothing]
<1>1. Cp!GitRecords(r) =
        {unmerged(f) : f \in {g \in WorkspaceFiles : r[g].conflict # "no"}}
        \cup {changed(f) : f \in {g \in WorkspaceFiles : IsTracked(r, g)}}
        \cup {untracked(f) : f \in {g \in WorkspaceFiles : r[g].conflict = "no" /\ staged[g] = "absent"
                                                             /\ r[g].work # "absent"}}
  BY DEF Cp!GitRecords, HeadOf, IndexOf, LetterX, LetterY, IsTracked
<1>2. ASSUME NEW f
      PROVE  /\ Cp!GitEntry(unmerged(f)) =
                  Cp!Entry(f, Nothing, "Conflicted", Cp!MapState(Cp!Stages(r[f].conflict)[1]),
                           Cp!MapState(Cp!Stages(r[f].conflict)[2]))
             /\ Cp!GitEntry(untracked(f)) = Cp!Entry(f, Nothing, "Untracked", Nothing, "Untracked")
             /\ Cp!SourceOf(head, staged, f) = Nothing =>
                  Cp!GitEntry(changed(f)) =
                    Cp!Entry(f, Nothing, Cp!CombinedKind(Cp!MapState(LetterX(r, f)),
                                                         Cp!MapState(LetterY(r, f))),
                             Cp!MapState(LetterX(r, f)), Cp!MapState(LetterY(r, f)))
             /\ Cp!SourceOf(head, staged, f) # Nothing =>
                  Cp!GitEntry(changed(f)) =
                    Cp!Entry(f, Cp!SourceOf(head, staged, f), Cp!MapState(LetterX(r, f)),
                             Cp!MapState(LetterX(r, f)), Cp!MapState(LetterY(r, f)))
  BY DEF Cp!GitEntry
<1> HIDE DEF unmerged, changed, untracked
<1>3. ASSUME NEW n
      PROVE  n \in {Cp!GitEntry(q) : q \in Cp!GitRecords(r)} <=>
               \E f \in WorkspaceFiles :
                 \/ r[f].conflict # "no" /\ n = Cp!GitEntry(unmerged(f))
                 \/ IsTracked(r, f) /\ n = Cp!GitEntry(changed(f))
                 \/ /\ r[f].conflict = "no" /\ staged[f] = "absent" /\ r[f].work # "absent"
                    /\ n = Cp!GitEntry(untracked(f))
  BY <1>1
<1>4. ASSUME NEW n, NEW f
      PROVE  GitTold(r, f, n) <=>
                 \/ r[f].conflict # "no" /\ n = Cp!GitEntry(unmerged(f))
                 \/ IsTracked(r, f) /\ n = Cp!GitEntry(changed(f))
                 \/ /\ r[f].conflict = "no" /\ staged[f] = "absent" /\ r[f].work # "absent"
                    /\ n = Cp!GitEntry(untracked(f))
  BY <1>2 DEF GitTold
<1> QED
  BY <1>3, <1>4

-----------------------------------------------------------------------------
(* The entries of a file in a report of git, and the mark it should bear.  *)
GitMaps(r, f) == <<Cp!MapState(LetterX(r, f)), Cp!MapState(LetterY(r, f))>>
IsUntracked(r, f) == r[f].conflict = "no" /\ IndexOf(r)[f] = "absent" /\ r[f].work # "absent"
GitTrackedKind(r, f) ==
    IF Cp!SourceOf(HeadOf(r), IndexOf(r), f) = Nothing
    THEN Cp!CombinedKind(GitMaps(r, f)[1], GitMaps(r, f)[2]) ELSE GitMaps(r, f)[1]
GitKinds(r, f) ==
    (IF r[f].conflict # "no" THEN {"Conflicted"} ELSE {})
    \cup (IF IsTracked(r, f) THEN {GitTrackedKind(r, f)} ELSE {})
    \cup (IF IsUntracked(r, f) THEN {"Untracked"} ELSE {})

LEMMA VcsGitTold ==
  ASSUME NEW r, NEW f
  PROVE  /\ \A n : GitTold(r, f, n) => n.path = f /\ n.kind \in GitKinds(r, f)
         /\ \A k \in GitKinds(r, f) : \E n : GitTold(r, f, n) /\ n.kind = k
<1> DEFINE from == Cp!SourceOf(HeadOf(r), IndexOf(r), f)
           x == Cp!MapState(LetterX(r, f))
           y == Cp!MapState(LetterY(r, f))
           n1 == Cp!Entry(f, Nothing, "Conflicted", Cp!MapState(Cp!Stages(r[f].conflict)[1]),
                          Cp!MapState(Cp!Stages(r[f].conflict)[2]))
           n2 == Cp!Entry(f, Nothing, Cp!CombinedKind(x, y), x, y)
           n3 == Cp!Entry(f, from, x, x, y)
           n4 == Cp!Entry(f, Nothing, "Untracked", Nothing, "Untracked")
           told(n) == \/ r[f].conflict # "no" /\ n = n1
                      \/ IsTracked(r, f) /\ from = Nothing /\ n = n2
                      \/ IsTracked(r, f) /\ from # Nothing /\ n = n3
                      \/ IsUntracked(r, f) /\ n = n4
<1>1. \A n : GitTold(r, f, n) <=> told(n)
  BY DEF GitTold, IsUntracked
<1>2. /\ n1.path = f /\ n2.path = f /\ n3.path = f /\ n4.path = f
      /\ n1.kind = "Conflicted" /\ n2.kind = Cp!CombinedKind(x, y) /\ n3.kind = x
      /\ n4.kind = "Untracked"
  BY DEF Cp!Entry
<1>3. GitTrackedKind(r, f) = IF from = Nothing THEN Cp!CombinedKind(x, y) ELSE x
  BY DEF GitTrackedKind, GitMaps
<1> HIDE DEF n1, n2, n3, n4, from, x, y
<1>4. ASSUME NEW n, told(n)
      PROVE  n.path = f /\ n.kind \in GitKinds(r, f)
  BY <1>2, <1>3, <1>4 DEF GitKinds
<1>5. ASSUME NEW k \in GitKinds(r, f)
      PROVE  \E n : told(n) /\ n.kind = k
  <2>1. CASE r[f].conflict # "no" /\ k = "Conflicted"
    <3>1. told(n1) /\ n1.kind = k
      BY <2>1, <1>2
    <3> QED
      BY <3>1
  <2>2. CASE IsTracked(r, f) /\ k = GitTrackedKind(r, f)
    <3>1. CASE from = Nothing
      <4>1. told(n2) /\ n2.kind = k
        BY <2>2, <3>1, <1>2, <1>3
      <4> QED
        BY <4>1
    <3>2. CASE from # Nothing
      <4>1. told(n3) /\ n3.kind = k
        BY <2>2, <3>2, <1>2, <1>3
      <4> QED
        BY <4>1
    <3> QED
      BY <3>1, <3>2
  <2>3. CASE IsUntracked(r, f) /\ k = "Untracked"
    <3>1. told(n4) /\ n4.kind = k
      BY <2>3, <1>2
    <3> QED
      BY <3>1
  <2> QED
    BY <2>1, <2>2, <2>3 DEF GitKinds
<1> HIDE DEF told
<1> QED
  BY <1>1, <1>4, <1>5

LEMMA VcsTrees ==
  ASSUME NEW r \in [WorkspaceFiles -> Cp!File]
  PROVE  /\ Contained(HeadOf(r)) /\ Contained(IndexOf(r)) /\ Contained(WorkOf(r))
         /\ \A f \in WorkspaceFiles :
              /\ HeadOf(r)[f] = r[f].head /\ IndexOf(r)[f] = r[f].index /\ WorkOf(r)[f] = r[f].work
              /\ r[f].conflict \in {"no"} \cup Cp!GitConflicts \cup Cp!JujutsuConflicts
<1>1. \A f \in WorkspaceFiles :
         /\ r[f].head \in Cp!Contents /\ r[f].index \in Cp!Contents /\ r[f].work \in Cp!Contents
         /\ r[f].conflict \in {"no"} \cup Cp!GitConflicts \cup Cp!JujutsuConflicts
  BY DEF Cp!File
<1> QED
  BY <1>1 DEF Contained, HeadOf, IndexOf, WorkOf

LEMMA VcsStages3 ==
  ASSUME NEW r
  PROVE  /\ Cp!Stages3("git", r) = <<HeadOf(r), IndexOf(r), WorkOf(r)>>
         /\ Cp!Stages3("Fresh", r) = <<HeadOf(r), WorkOf(r), WorkOf(r)>>
         /\ Cp!Stages3("Passive", r) = <<HeadOf(r), IndexOf(r), IndexOf(r)>>
BY DEF Cp!Stages3, HeadOf, IndexOf, WorkOf

(* Between the index and the disk nothing has moved.                       *)
LEMMA VcsGitLetters ==
  ASSUME Nothing \notin WorkspaceFiles, NEW r \in [WorkspaceFiles -> Cp!File],
         NEW f \in WorkspaceFiles
  PROVE  /\ LetterX(r, f) \in {".", "A", "D", "T", "M", "R", "C"}
         /\ LetterX(r, f) = "." => Cp!Differences(HeadOf(r), IndexOf(r), f) = {}
         /\ LetterX(r, f) # "." =>
              Cp!Differences(HeadOf(r), IndexOf(r), f) = {Cp!MapState(LetterX(r, f))}
         /\ LetterY(r, f) \in {".", "D", "T", "M"}
         /\ IndexOf(r)[f] = "absent" => LetterY(r, f) = "."
         /\ IndexOf(r)[f] # "absent" =>
              Cp!Differences(IndexOf(r), WorkOf(r), f) =
                IF LetterY(r, f) = "." THEN {} ELSE {Cp!MapState(LetterY(r, f))}
<1>1. /\ Contained(HeadOf(r)) /\ Contained(IndexOf(r)) /\ Contained(WorkOf(r))
      /\ WorkOf(r)[f] = r[f].work
  BY VcsTrees
<1>2. /\ LetterX(r, f) \in {".", "A", "D", "T", "M", "R", "C"}
      /\ LetterX(r, f) = "." => Cp!Differences(HeadOf(r), IndexOf(r), f) = {}
      /\ LetterX(r, f) # "." =>
           Cp!Differences(HeadOf(r), IndexOf(r), f) = {Cp!MapState(LetterX(r, f))}
  BY <1>1, VcsLetters DEF LetterX
<1>3. CASE IndexOf(r)[f] = "absent"
  <2>1. LetterY(r, f) = "."
    BY <1>3 DEF LetterY
  <2> QED
    BY <1>2, <1>3, <2>1
<1>4. CASE IndexOf(r)[f] # "absent"
  <2> DEFINE old == IndexOf(r)
             new == WorkOf(r)
  <2>1. Cp!SourceOf(old, new, f) = Nothing
    BY <1>4, VcsSource
  <2>2. LetterY(r, f) = Cp!Letter(old[f], new[f])
    BY <1>1, <1>4 DEF LetterY
  <2>3. LetterY(r, f) \in {".", "D", "T", "M"}
    BY <1>4, <2>2 DEF Cp!Letter
  <2>4. Cp!MoveLetter(old, new, f) = LetterY(r, f)
    BY <2>1, <2>2, <1>1, VcsLetters
  <2>5. Cp!Differences(old, new, f) =
          IF LetterY(r, f) = "." THEN {} ELSE {Cp!MapState(LetterY(r, f))}
    BY <2>4, <1>1, VcsLetters
  <2> QED
    BY <1>2, <1>4, <2>3, <2>5
<1> QED
  BY <1>3, <1>4

LEMMA VcsGitMark ==
  ASSUME Nothing \notin WorkspaceFiles \cup Cp!Kinds, NEW r \in [WorkspaceFiles -> Cp!File],
         NEW f \in WorkspaceFiles, r[f].conflict \in {"no"} \cup Cp!GitConflicts
  PROVE  /\ GitKinds(r, f) \subseteq Cp!Kinds
         /\ Cp!MarkOf("git", r, f) =
              IF GitKinds(r, f) = {} THEN Nothing ELSE Cp!Strongest(GitKinds(r, f))
<1> DEFINE head == HeadOf(r)
           staged == IndexOf(r)
           work == WorkOf(r)
           moved == Cp!NewName(head, staged, f) # Nothing
           x == Cp!MapState(LetterX(r, f))
           y == Cp!MapState(LetterY(r, f))
           X == IF LetterX(r, f) = "." THEN {} ELSE {x}
           Y == IF LetterY(r, f) = "." THEN {} ELSE {y}
           U == IF staged[f] = "absent" /\ work[f] # "absent" THEN {"Untracked"} ELSE {}
           marks == (IF moved THEN {} ELSE X) \cup Y \cup U
           from == Cp!SourceOf(head, staged, f)
           K == GitKinds(r, f)
<1>1. Cp!MarkOf("git", r, f) =
        IF r[f].conflict = "both" THEN Nothing
        ELSE IF r[f].conflict # "no" THEN "Conflicted"
        ELSE IF marks = {} THEN Nothing ELSE Cp!Strongest(marks)
  <2> DEFINE Dx == Cp!Differences(head, staged, f)
             Dy == Cp!Differences(staged, work, f)
             told == (IF moved THEN {} ELSE Dx) \cup (IF staged[f] = "absent" THEN {} ELSE Dy) \cup U
  <2>1. Cp!MarkOf("git", r, f) =
          IF r[f].conflict = "both" THEN Nothing
          ELSE IF r[f].conflict # "no" THEN "Conflicted"
          ELSE IF told = {} THEN Nothing ELSE Cp!Strongest(told)
    <3>1. /\ Cp!Stages3("git", r)[1] = head /\ Cp!Stages3("git", r)[2] = staged
          /\ Cp!Stages3("git", r)[3] = work
      BY VcsStages3
    <3> HIDE DEF head, staged, work
    <3> QED
      BY <3>1 DEF Cp!MarkOf
  <2>2. Dx = X /\ (IF staged[f] = "absent" THEN {} ELSE Dy) = Y
    BY VcsGitLetters
  <2>3. told = marks
    BY <2>2
  <2> QED
    BY ONLY <2>1, <2>3
<1>2. /\ r[f].conflict # "both"
      /\ K = (IF r[f].conflict # "no" THEN {"Conflicted"} ELSE {})
             \cup (IF IsTracked(r, f) THEN {GitTrackedKind(r, f)} ELSE {})
             \cup (IF r[f].conflict = "no" THEN U ELSE {})
  <2>1. r[f].conflict # "both"
    BY DEF Cp!GitConflicts
  <2>2. work[f] = r[f].work
    BY VcsTrees
  <2> QED
    BY <2>1, <2>2 DEF GitKinds, IsUntracked
<1>3. CASE r[f].conflict # "no"
  <2>1. K = {"Conflicted"}
    BY <1>2, <1>3 DEF IsTracked
  <2>2. "Conflicted" \in Cp!Kinds /\ Cp!Order["Conflicted"] <= Cp!Order["Conflicted"]
    BY VcsKinds
  <2>3. "Conflicted" = Cp!Strongest({"Conflicted"})
    BY <2>2, VcsStrongest
  <2> QED
    BY <1>1, <1>2, <1>3, <2>1, <2>2, <2>3
<1>4. CASE r[f].conflict = "no"
  <2>1. /\ X \subseteq Cp!Kinds /\ Y \subseteq Cp!Kinds /\ U \subseteq Cp!Kinds
        /\ Y # {} => staged[f] # "absent" /\ y \in {"Deleted", "TypeChanged", "Modified"}
        /\ X = {} => x = Nothing
        /\ Y = {} => y = Nothing
        /\ X # {} => x \in Cp!Kinds
        /\ Y # {} => y \in Cp!Kinds
    BY VcsGitLetters, VcsMapState, VcsKinds
  <2>2. IsTracked(r, f) <=> ~moved /\ (X # {} \/ Y # {})
    BY <1>4 DEF IsTracked
  <2>3. moved => staged[f] = "absent"
    BY VcsNewName
  <2>4. K = (IF IsTracked(r, f) THEN {GitTrackedKind(r, f)} ELSE {}) \cup U
    BY <1>2, <1>4
  <2>5. marks \in SUBSET Cp!Kinds
    BY <2>1
  <2>6. K \subseteq marks /\ \A l \in marks : \E k \in K : Cp!Order[k] <= Cp!Order[l]
    <3>1. CASE ~IsTracked(r, f)
      <4>1. K = U /\ marks = U
        BY <2>1, <2>2, <2>3, <2>4, <3>1
      <4>2. \A l \in U : Cp!Order[l] <= Cp!Order[l]
        BY <2>1, VcsKinds
      <4> QED
        BY <4>1, <4>2
    <3>2. CASE IsTracked(r, f) /\ from = Nothing
      <4> DEFINE k == Cp!Strongest(X \cup Y)
      <4>1. {x, y} \ {Nothing} = X \cup Y
        BY <2>1
      <4>2. GitTrackedKind(r, f) = k
        <5>1. GitTrackedKind(r, f) = Cp!CombinedKind(x, y)
          BY <3>2 DEF GitTrackedKind, GitMaps
        <5> QED
          BY <5>1, <4>1 DEF Cp!CombinedKind
      <4>3. k \in X \cup Y /\ \A l \in X \cup Y : Cp!Order[k] <= Cp!Order[l]
        BY <2>1, <2>2, <3>2, VcsStrongest
      <4>4. \A l \in U : Cp!Order[l] <= Cp!Order[l]
        BY <2>1, VcsKinds
      <4> HIDE DEF k, X, Y, U, moved, from, K
      <4> QED
        BY <2>2, <2>4, <3>2, <4>2, <4>3, <4>4
    <3>3. CASE IsTracked(r, f) /\ from # Nothing
      <4>1. x \in {"Renamed", "Copied"} /\ staged[f] # "absent" /\ X = {x}
        <5>1. LetterX(r, f) \in {"R", "C"}
          BY <3>3, VcsTrees, VcsLetters DEF LetterX
        <5> QED
          BY <5>1, <3>3, VcsSource, VcsMapState
      <4>2. GitTrackedKind(r, f) = x
        BY <3>3 DEF GitTrackedKind, GitMaps
      <4>3. U = {}
        BY <4>1
      <4>4. \A l \in Y : Cp!Order[x] <= Cp!Order[l]
        BY <2>1, <4>1, VcsKinds
      <4>5. Cp!Order[x] <= Cp!Order[x]
        BY <4>1, <2>1, VcsKinds
      <4> HIDE DEF x, y, X, Y, U, moved, from, K
      <4> QED
        BY <2>2, <2>4, <3>3, <4>1, <4>2, <4>3, <4>4, <4>5
    <3> QED
      BY <3>1, <3>2, <3>3
  <2> HIDE DEF marks, K
  <2>7. K \in SUBSET Cp!Kinds
    BY <2>5, <2>6
  <2>8. (K = {} <=> marks = {}) /\ (K # {} => Cp!Strongest(K) = Cp!Strongest(marks))
    BY <2>5, <2>6, <2>7, VcsDominates
  <2> QED
    BY <1>1, <1>2, <1>4, <2>7, <2>8 DEF K
<1> QED
  BY <1>3, <1>4

LEMMA VcsGitHeirs ==
  ASSUME Nothing \notin WorkspaceFiles, NEW r \in [WorkspaceFiles -> Cp!File],
         NEW f \in WorkspaceFiles
  PROVE  /\ \A k \in Cp!HeirMarks("git", r, f) :
              \E t \in WorkspaceFiles : \E n : GitTold(r, t, n) /\ n.source = f /\ n.kind = k
         /\ \A t \in WorkspaceFiles : \A n :
              GitTold(r, t, n) /\ n.source = f => n.kind \in Cp!HeirMarks("git", r, f)
<1> DEFINE head == HeadOf(r)
           staged == IndexOf(r)
           marked(t) == IF Cp!NewName(head, staged, f) = t THEN "Renamed" ELSE "Copied"
           heirs == {u \in WorkspaceFiles : r[u].conflict = "no" /\ Cp!SourceOf(head, staged, u) = f}
           x(t) == Cp!MapState(LetterX(r, t))
           y(t) == Cp!MapState(LetterY(r, t))
           n3(t) == Cp!Entry(t, Cp!SourceOf(head, staged, t), x(t), x(t), y(t))
<1>1. Cp!HeirMarks("git", r, f) = {marked(t) : t \in heirs}
  <2>1. Cp!Stages3("git", r)[1] = head /\ Cp!Stages3("git", r)[2] = staged
    BY VcsStages3
  <2> HIDE DEF head, staged
  <2> QED
    BY <2>1 DEF Cp!HeirMarks
<1>2. ASSUME NEW t \in WorkspaceFiles, Cp!SourceOf(head, staged, t) = f
      PROVE  LetterX(r, t) # "." /\ x(t) = marked(t) /\ Cp!NewName(head, staged, t) = Nothing
  <2>1. LetterX(r, t) = IF Cp!NewName(head, staged, f) = t THEN "R" ELSE "C"
    BY <1>2, VcsTrees, VcsLetters DEF LetterX
  <2>2. staged[t] # "absent"
    BY <1>2, VcsSource
  <2> QED
    BY <2>1, <2>2, VcsMapState, VcsNewName
<1>3. ASSUME NEW t \in heirs
      PROVE  \E n : GitTold(r, t, n) /\ n.source = f /\ n.kind = marked(t)
  <2>1. IsTracked(r, t)
    BY <1>2 DEF IsTracked
  <2>2. GitTold(r, t, n3(t))
    BY <2>1 DEF GitTold
  <2>3. n3(t).source = f /\ n3(t).kind = x(t)
    BY DEF Cp!Entry
  <2> HIDE DEF n3, x, marked
  <2>4. x(t) = marked(t)
    BY <1>2
  <2> QED
    BY <2>2, <2>3, <2>4
<1>4. ASSUME NEW t \in WorkspaceFiles, NEW n, GitTold(r, t, n), n.source = f
      PROVE  n.kind \in {marked(u) : u \in heirs}
  <2>1. IsTracked(r, t) /\ Cp!SourceOf(head, staged, t) = f /\ n.kind = x(t)
    BY <1>4 DEF GitTold, Cp!Entry
  <2>2. t \in heirs
    BY <2>1 DEF IsTracked
  <2>3. n.kind = marked(t)
    BY <2>1, <1>2
  <2> HIDE DEF heirs, marked
  <2> QED
    BY <2>2, <2>3
<1> QED
  BY <1>1, <1>3, <1>4

LEMMA VcsGitDeleted ==
  ASSUME Nothing \notin WorkspaceFiles \cup Cp!Kinds, NEW r \in [WorkspaceFiles -> Cp!File],
         NEW f \in WorkspaceFiles, r[f].conflict \in {"no", "DD", "DU", "UD"},
         Cp!Stages3("git", r)[3][f] = "absent", GitKinds(r, f) # {}
  PROVE  \E n : GitTold(r, f, n) /\ "Deleted" \in {n.kind, n.index, n.work}
<1> DEFINE head == HeadOf(r)
           staged == IndexOf(r)
           from == Cp!SourceOf(head, staged, f)
           x == Cp!MapState(LetterX(r, f))
           y == Cp!MapState(LetterY(r, f))
           n1 == Cp!Entry(f, Nothing, "Conflicted", Cp!MapState(Cp!Stages(r[f].conflict)[1]),
                          Cp!MapState(Cp!Stages(r[f].conflict)[2]))
           n2 == Cp!Entry(f, Nothing, Cp!CombinedKind(x, y), x, y)
           n3 == Cp!Entry(f, from, x, x, y)
<1>1. r[f].work = "absent" /\ Contained(head) /\ Contained(staged)
  BY VcsTrees, VcsStages3
<1>2. CASE r[f].conflict # "no"
  <2>1. GitTold(r, f, n1)
    BY <1>2 DEF GitTold
  <2>2. \/ Cp!Stages(r[f].conflict)[1] = "D"
        \/ Cp!Stages(r[f].conflict)[2] = "D"
    BY <1>2 DEF Cp!Stages
  <2>3. n1.index = "Deleted" \/ n1.work = "Deleted"
    BY <2>2, VcsMapState DEF Cp!Entry
  <2> HIDE DEF n1
  <2> QED
    BY <2>1, <2>3
<1>3. CASE r[f].conflict = "no"
  <2>1. IsTracked(r, f)
    BY <1>1, <1>3 DEF GitKinds, IsUntracked
  <2>2. x = "Deleted" \/ y = "Deleted"
    <3>1. CASE staged[f] = "absent"
      <4>1. LetterX(r, f) # "." /\ from = Nothing
        BY <2>1, <3>1, VcsGitLetters, VcsSource DEF IsTracked
      <4>2. LetterX(r, f) = Cp!Letter(head[f], staged[f])
        BY <4>1, <1>1, VcsLetters DEF LetterX
      <4>3. LetterX(r, f) = "D"
        BY <4>1, <4>2, <3>1 DEF Cp!Letter
      <4> QED
        BY <4>3, VcsMapState
    <3>2. CASE staged[f] # "absent"
      <4>1. LetterY(r, f) = "D"
        BY <1>1, <3>2 DEF LetterY, Cp!Letter
      <4> QED
        BY <4>1, VcsMapState
    <3> QED
      BY <3>1, <3>2
  <2>3. GitTold(r, f, IF from = Nothing THEN n2 ELSE n3)
    BY <2>1 DEF GitTold
  <2>4. n2.index = x /\ n2.work = y /\ n3.index = x /\ n3.work = y
    BY DEF Cp!Entry
  <2> HIDE DEF n2, n3, x, y, from
  <2> QED
    BY <2>2, <2>3, <2>4
<1> QED
  BY <1>2, <1>3

-----------------------------------------------------------------------------
(* What Jujutsu reports of a file: h and t are the trees compared, c the   *)
(* conflicts.                                                              *)
ConflictOf(r) == [f \in WorkspaceFiles |-> r[f].conflict]
OldConflict(c, f) == c[f] \in {"head", "both"}
NewConflict(c, f) == c[f] \in {"index", "both"}
JjRecord(h, t, c, f) ==
    [status |-> IF c[f] # "no" THEN "M" ELSE IF Cp!MoveLetter(h, t, f) = "T" THEN "M"
                ELSE Cp!MoveLetter(h, t, f),
     source |-> IF c[f] # "no" \/ Cp!SourceOf(h, t, f) = Nothing THEN f ELSE Cp!SourceOf(h, t, f),
     target |-> f,
     source_conflict |-> OldConflict(c, f), target_conflict |-> NewConflict(c, f),
     source_type |-> IF OldConflict(c, f) THEN "conflict" ELSE Cp!FileType(h[f]),
     target_type |-> IF NewConflict(c, f) THEN "conflict" ELSE Cp!FileType(t[f])]
JjMoved(h, t, c) == {f \in WorkspaceFiles : c[f] = "no" /\ Cp!NewName(h, t, f) # Nothing}
JjChanged(h, t, c) ==
    {f \in WorkspaceFiles : c[f] = "no" /\ f \notin JjMoved(h, t, c) /\ h[f] # t[f]}
    \cup {f \in WorkspaceFiles : c[f] # "no" /\ OldConflict(c, f) # NewConflict(c, f)}
JjRecords(h, t, c) == {JjRecord(h, t, c, f) : f \in JjChanged(h, t, c)}

LEMMA VcsJjRecords ==
  ASSUME NEW r, NEW mode
  PROVE  Cp!JujutsuRecords(r, mode) = JjRecords(HeadOf(r), Cp!JujutsuTree(r, mode), ConflictOf(r))
<1> DEFINE h == HeadOf(r)
           t == Cp!JujutsuTree(r, mode)
           c == ConflictOf(r)
           odd == {f \in WorkspaceFiles : r[f].conflict # "no"}
           old(f) == r[f].conflict \in {"head", "both"}
           new(f) == r[f].conflict \in {"index", "both"}
           moved == {f \in WorkspaceFiles \ odd : Cp!NewName(h, t, f) # Nothing}
           changed == {f \in WorkspaceFiles \ (odd \cup moved) : h[f] # t[f]}
                      \cup {f \in odd : old(f) # new(f)}
           record(f) == [status |-> IF f \in odd THEN "M" ELSE IF Cp!MoveLetter(h, t, f) = "T" THEN "M"
                                    ELSE Cp!MoveLetter(h, t, f),
                         source |-> IF f \in odd \/ Cp!SourceOf(h, t, f) = Nothing THEN f
                                    ELSE Cp!SourceOf(h, t, f),
                         target |-> f,
                         source_conflict |-> old(f), target_conflict |-> new(f),
                         source_type |-> IF old(f) THEN "conflict" ELSE Cp!FileType(h[f]),
                         target_type |-> IF new(f) THEN "conflict" ELSE Cp!FileType(t[f])]
<1>1. Cp!JujutsuRecords(r, mode) = {record(f) : f \in changed}
  BY DEF Cp!JujutsuRecords, HeadOf
<1>2. ASSUME NEW f \in WorkspaceFiles
      PROVE  /\ c[f] = r[f].conflict
             /\ OldConflict(c, f) = old(f) /\ NewConflict(c, f) = new(f)
             /\ f \in odd <=> c[f] # "no"
  BY DEF ConflictOf, OldConflict, NewConflict
<1> HIDE DEF h, t, c, odd, old, new
<1>3. changed = JjChanged(h, t, c)
  BY <1>2 DEF JjChanged, JjMoved, odd
<1>4. \A f \in changed : f \in WorkspaceFiles
  BY DEF odd
<1>5. \A f \in WorkspaceFiles : record(f) = JjRecord(h, t, c, f)
  BY <1>2 DEF JjRecord
<1> HIDE DEF record, changed
<1>6. {record(f) : f \in changed} = {JjRecord(h, t, c, f) : f \in JjChanged(h, t, c)}
  BY <1>3, <1>4, <1>5
<1> QED
  BY <1>1, <1>6 DEF JjRecords, h, t, c

(* The entry that is made of a record, and that none is passed over.       *)
JjTold(h, t, c, f, n) ==
    \/ c[f] = "head" /\ n = Cp!Entry(f, Nothing, "Conflicted", "Conflicted", Nothing)
    \/ c[f] = "index" /\ n = Cp!Entry(f, Nothing, "Conflicted", Nothing, "Conflicted")
    \/ /\ c[f] = "no" /\ Cp!NewName(h, t, f) = Nothing /\ h[f] # t[f]
       /\ n = Cp!Entry(f, Cp!SourceOf(h, t, f), Cp!MapState(Cp!MoveLetter(h, t, f)), Nothing, Nothing)

LEMMA VcsJjEntry ==
  ASSUME Nothing \notin WorkspaceFiles, NEW h, NEW t, NEW c, Contained(h), Contained(t),
         NEW f \in WorkspaceFiles, c[f] \in {"no"} \cup Cp!JujutsuConflicts
  PROVE  /\ f \in JjChanged(h, t, c) => ~Cp!NoFile(JjRecord(h, t, c, f))
         /\ \A n : JjTold(h, t, c, f, n) <=> /\ f \in JjChanged(h, t, c)
                                             /\ n = Cp!JujutsuEntry(JjRecord(h, t, c, f))
<1> DEFINE m == Cp!MoveLetter(h, t, f)
           from == Cp!SourceOf(h, t, f)
           r == JjRecord(h, t, c, f)
           told(n) == \/ c[f] = "head" /\ n = Cp!Entry(f, Nothing, "Conflicted", "Conflicted", Nothing)
                      \/ c[f] = "index" /\ n = Cp!Entry(f, Nothing, "Conflicted", Nothing, "Conflicted")
                      \/ /\ c[f] = "no" /\ Cp!NewName(h, t, f) = Nothing /\ h[f] # t[f]
                         /\ n = Cp!Entry(f, from, Cp!MapState(m), Nothing, Nothing)
<1>1. c[f] \in {"no", "head", "index", "both"}
  BY DEF Cp!JujutsuConflicts
<1>2. f \in JjChanged(h, t, c) <=>
        \/ c[f] = "head"
        \/ c[f] = "index"
        \/ c[f] = "no" /\ Cp!NewName(h, t, f) = Nothing /\ h[f] # t[f]
  BY <1>1 DEF JjChanged, JjMoved, OldConflict, NewConflict
<1>3. /\ r.status = IF c[f] # "no" \/ m = "T" THEN "M" ELSE m
      /\ r.source = IF c[f] # "no" \/ from = Nothing THEN f ELSE from
      /\ r.target = f
      /\ r.source_type = IF OldConflict(c, f) THEN "conflict" ELSE Cp!FileType(h[f])
      /\ r.target_type = IF NewConflict(c, f) THEN "conflict" ELSE Cp!FileType(t[f])
  BY DEF JjRecord
<1>4. r.source_conflict = OldConflict(c, f) /\ r.target_conflict = NewConflict(c, f)
  BY DEF JjRecord
<1> HIDE DEF r
<1>5. CASE c[f] = "head" \/ c[f] = "index"
  <2>1. (r.source_conflict <=> c[f] = "head") /\ (r.target_conflict <=> c[f] = "index")
    BY <1>4, <1>5 DEF OldConflict, NewConflict
  <2>2. "conflict" \in {r.source_type, r.target_type} /\ r.status = "M" /\ r.target = f
    BY <1>3, <1>5 DEF OldConflict, NewConflict
  <2>3. ~Cp!NoFile(r)
    BY <2>2 DEF Cp!NoFile
  <2>4. Cp!JujutsuEntry(r) =
          Cp!Entry(f, Nothing, "Conflicted", IF c[f] = "head" THEN "Conflicted" ELSE Nothing,
                   IF c[f] = "index" THEN "Conflicted" ELSE Nothing)
    <3>1. Cp!JujutsuKind(r) = "Conflicted"
      BY <2>2 DEF Cp!JujutsuKind
    <3>2. (IF r.source_conflict THEN "Conflicted" ELSE Nothing) =
            IF c[f] = "head" THEN "Conflicted" ELSE Nothing
      BY <2>1
    <3>3. (IF r.target_conflict THEN "Conflicted" ELSE Nothing) =
            IF c[f] = "index" THEN "Conflicted" ELSE Nothing
      BY <2>1
    <3> QED
      BY <2>2, <3>1, <3>2, <3>3 DEF Cp!JujutsuEntry
  <2>5. \A n : told(n) <=> n = Cp!JujutsuEntry(r)
    BY <1>5, <2>4
  <2> QED
    BY <1>2, <1>5, <2>3, <2>5 DEF JjTold, r
<1>6. CASE c[f] = "no" /\ Cp!NewName(h, t, f) = Nothing /\ h[f] # t[f]
  <2>1. ~r.source_conflict /\ ~r.target_conflict
    BY <1>4, <1>6 DEF OldConflict, NewConflict
  <2>2. /\ r.source_type = Cp!FileType(h[f]) /\ r.target_type = Cp!FileType(t[f])
        /\ r.status = (IF m = "T" THEN "M" ELSE m) /\ r.target = f
        /\ r.source = IF from = Nothing THEN f ELSE from
    BY <1>3, <1>6 DEF OldConflict, NewConflict
  <2>3. h[f] \in Cp!Contents /\ t[f] \in Cp!Contents
    BY DEF Contained
  <2>4. /\ r.source_type \in {"absent", "file", "symlink"} /\ r.target_type \in {"absent", "file", "symlink"}
        /\ r.source_type = "absent" <=> h[f] = "absent"
        /\ r.target_type = "absent" <=> t[f] = "absent"
    BY <2>2, <2>3 DEF Cp!FileType, Cp!Contents
  <2>5. ~Cp!NoFile(r)
    BY <2>4, <1>6 DEF Cp!NoFile
  <2>6. /\ m \in {"A", "D", "T", "M", "R", "C"}
        /\ m \in {"R", "C"} <=> from # Nothing
        /\ m = "T" => r.source_type # r.target_type /\ h[f] # "absent" /\ t[f] # "absent"
        /\ m = "M" => r.source_type = r.target_type
    BY <1>6, <2>2, VcsLetters DEF Cp!Letter
  <2>7. Cp!JujutsuKind(r) = Cp!MapState(m)
    <3>1. r.source_type # "conflict" /\ r.target_type # "conflict"
      BY <2>4
    <3>2. Cp!JujutsuKind(r) =
            IF /\ Cp!MapState(r.status) = "Modified" /\ r.source_type # "absent"
               /\ r.target_type # "absent" /\ r.source_type # r.target_type
            THEN "TypeChanged" ELSE Cp!MapState(r.status)
      BY <2>1, <3>1 DEF Cp!JujutsuKind
    <3> QED
      BY <2>2, <2>4, <2>6, <3>2, VcsMapState
  <2>8. (IF r.status \in {"R", "C"} THEN r.source ELSE Nothing) = from
    BY <2>2, <2>6
  <2>9. (IF r.source_conflict THEN "Conflicted" ELSE Nothing) = Nothing
        /\ (IF r.target_conflict THEN "Conflicted" ELSE Nothing) = Nothing
    BY <2>1
  <2>10. Cp!JujutsuEntry(r) = Cp!Entry(f, from, Cp!MapState(m), Nothing, Nothing)
    BY <2>2, <2>7, <2>8, <2>9 DEF Cp!JujutsuEntry
  <2>11. \A n : told(n) <=> n = Cp!JujutsuEntry(r)
    BY <1>6, <2>10
  <2> QED
    BY <1>2, <1>6, <2>5, <2>11 DEF JjTold, r
<1>7. CASE f \notin JjChanged(h, t, c)
  BY <1>2, <1>7 DEF JjTold
<1> QED
  BY <1>2, <1>5, <1>6, <1>7

LEMMA VcsJjReport ==
  ASSUME Nothing \notin WorkspaceFiles, NEW h, NEW t, NEW c, Contained(h), Contained(t),
         \A f \in WorkspaceFiles : c[f] \in {"no"} \cup Cp!JujutsuConflicts
  PROVE  \A n : n \in {Cp!JujutsuEntry(q) : q \in {p \in JjRecords(h, t, c) : ~Cp!NoFile(p)}} <=>
                  \E f \in WorkspaceFiles : JjTold(h, t, c, f, n)
<1>1. \A f \in JjChanged(h, t, c) : f \in WorkspaceFiles /\ ~Cp!NoFile(JjRecord(h, t, c, f))
  BY VcsJjEntry DEF JjChanged
<1>2. {p \in JjRecords(h, t, c) : ~Cp!NoFile(p)} = JjRecords(h, t, c)
  BY <1>1 DEF JjRecords
<1>3. ASSUME NEW n
      PROVE  n \in {Cp!JujutsuEntry(q) : q \in JjRecords(h, t, c)} <=>
               \E f \in WorkspaceFiles :
                 f \in JjChanged(h, t, c) /\ n = Cp!JujutsuEntry(JjRecord(h, t, c, f))
  BY <1>1 DEF JjRecords
<1> QED
  BY <1>2, <1>3, VcsJjEntry

(* The entries of a file, and the mark it should bear.                     *)
JjKinds(h, t, c, f) ==
    IF c[f] \in {"head", "index"} THEN {"Conflicted"}
    ELSE IF c[f] = "no" /\ Cp!NewName(h, t, f) = Nothing /\ h[f] # t[f]
    THEN {Cp!MapState(Cp!MoveLetter(h, t, f))} ELSE {}

LEMMA VcsJjTold ==
  ASSUME NEW h, NEW t, NEW c, NEW f
  PROVE  /\ \A n : JjTold(h, t, c, f, n) => n.path = f /\ n.kind \in JjKinds(h, t, c, f)
         /\ \A k \in JjKinds(h, t, c, f) : \E n : JjTold(h, t, c, f, n) /\ n.kind = k
<1> DEFINE m == Cp!MapState(Cp!MoveLetter(h, t, f))
           n1 == Cp!Entry(f, Nothing, "Conflicted", "Conflicted", Nothing)
           n2 == Cp!Entry(f, Nothing, "Conflicted", Nothing, "Conflicted")
           n3 == Cp!Entry(f, Cp!SourceOf(h, t, f), m, Nothing, Nothing)
           differs == c[f] = "no" /\ Cp!NewName(h, t, f) = Nothing /\ h[f] # t[f]
<1>1. \A n : JjTold(h, t, c, f, n) <=>
               \/ c[f] = "head" /\ n = n1
               \/ c[f] = "index" /\ n = n2
               \/ differs /\ n = n3
  BY DEF JjTold
<1>2. /\ n1.path = f /\ n2.path = f /\ n3.path = f
      /\ n1.kind = "Conflicted" /\ n2.kind = "Conflicted" /\ n3.kind = m
  BY DEF Cp!Entry
<1>3. JjKinds(h, t, c, f) = IF c[f] \in {"head", "index"} THEN {"Conflicted"}
                            ELSE IF differs THEN {m} ELSE {}
  BY DEF JjKinds
<1>4. differs => c[f] \notin {"head", "index"}
  OBVIOUS
<1> HIDE DEF n1, n2, n3, m, differs
<1>5. \A n : JjTold(h, t, c, f, n) => n.path = f /\ n.kind \in JjKinds(h, t, c, f)
  BY <1>1, <1>2, <1>3, <1>4
<1>6. ASSUME NEW k \in JjKinds(h, t, c, f)
      PROVE  \E n : JjTold(h, t, c, f, n) /\ n.kind = k
  BY <1>1, <1>2, <1>3
<1> QED
  BY <1>5, <1>6

JjTree(b, r) == IF b = "Fresh" THEN WorkOf(r) ELSE IndexOf(r)

LEMMA VcsJjMark ==
  ASSUME Nothing \notin WorkspaceFiles \cup Cp!Kinds, NEW b \in {"Fresh", "Passive"},
         NEW r \in [WorkspaceFiles -> Cp!File], NEW f \in WorkspaceFiles,
         r[f].conflict \in {"no"} \cup Cp!JujutsuConflicts
  PROVE  LET K == JjKinds(HeadOf(r), JjTree(b, r), ConflictOf(r), f)
         IN  /\ K \subseteq Cp!Kinds
             /\ Cp!MarkOf(b, r, f) = IF K = {} THEN Nothing ELSE Cp!Strongest(K)
<1> DEFINE h == HeadOf(r)
           t == JjTree(b, r)
           c == ConflictOf(r)
           K == JjKinds(h, t, c, f)
           moved == Cp!NewName(h, t, f) # Nothing
           D == Cp!Differences(h, t, f)
           m == Cp!MapState(Cp!MoveLetter(h, t, f))
           marks == IF moved THEN {} ELSE D
<1>1. /\ Cp!Stages3(b, r)[1] = h /\ Cp!Stages3(b, r)[2] = t /\ Cp!Stages3(b, r)[3] = t
      /\ Contained(h) /\ Contained(t) /\ c[f] = r[f].conflict
  BY VcsStages3, VcsTrees DEF JjTree, ConflictOf
<1> HIDE DEF h, t, c
<1>2. t[f] # "absent" => Cp!Differences(t, t, f) = {}
  <2>1. t[f] # "absent" => Cp!SourceOf(t, t, f) = Nothing
    BY VcsSource
  <2> QED
    BY <2>1 DEF Cp!Differences
<1>3. Cp!MarkOf(b, r, f) =
        IF c[f] = "both" THEN Nothing
        ELSE IF c[f] # "no" THEN "Conflicted"
        ELSE IF marks = {} THEN Nothing ELSE Cp!Strongest(marks)
  <2> DEFINE told == (IF moved THEN {} ELSE D)
                     \cup (IF t[f] = "absent" THEN {} ELSE Cp!Differences(t, t, f))
                     \cup (IF t[f] = "absent" /\ t[f] # "absent" THEN {"Untracked"} ELSE {})
  <2>1. Cp!MarkOf(b, r, f) =
          IF c[f] = "both" THEN Nothing
          ELSE IF c[f] # "no" THEN "Conflicted"
          ELSE IF told = {} THEN Nothing ELSE Cp!Strongest(told)
    BY <1>1 DEF Cp!MarkOf
  <2>2. told = marks
    BY <1>2
  <2> QED
    BY ONLY <2>1, <2>2
<1>4. c[f] \in {"no", "head", "index", "both"}
  BY <1>1 DEF Cp!JujutsuConflicts
<1>5. /\ m \in Cp!Kinds \/ D = {}
      /\ h[f] = t[f] => D = {}
      /\ h[f] # t[f] => D = {m} /\ m \in Cp!Kinds
  <2> DEFINE x == Cp!MoveLetter(h, t, f)
  <2>1. /\ x \in {".", "A", "D", "T", "M", "R", "C"}
        /\ x = "." => D = {}
        /\ x # "." => D = {m}
        /\ Cp!SourceOf(h, t, f) = Nothing => x = Cp!Letter(h[f], t[f])
        /\ Cp!SourceOf(h, t, f) # Nothing => x \in {"R", "C"} /\ h[f] = "absent" /\ t[f] # "absent"
    BY <1>1, VcsLetters, VcsSource
  <2>2. x = "." <=> h[f] = t[f]
    BY <2>1 DEF Cp!Letter
  <2>3. x # "." => m \in Cp!Kinds
    BY <2>1, VcsMapState, VcsKinds
  <2> QED
    BY <2>1, <2>2, <2>3
<1>6. K = IF c[f] \in {"head", "index"} THEN {"Conflicted"}
          ELSE IF c[f] = "no" /\ ~moved /\ h[f] # t[f] THEN {m} ELSE {}
  BY DEF JjKinds
<1>7. "Conflicted" \in Cp!Kinds
  BY VcsKinds
<1>8. \A k \in Cp!Kinds : k = Cp!Strongest({k})
  BY VcsKinds, VcsStrongest
<1>9. /\ K \subseteq Cp!Kinds
      /\ Cp!MarkOf(b, r, f) = IF K = {} THEN Nothing ELSE Cp!Strongest(K)
  <2> HIDE DEF K, D, m, moved
  <2>1. c[f] = "no" => K = marks
    BY <1>5, <1>6
  <2> QED
    BY <1>3, <1>4, <1>5, <1>6, <1>7, <1>8, <2>1
<1> QED
  BY <1>9 DEF h, t, c

LEMMA VcsJjHeirs ==
  ASSUME Nothing \notin WorkspaceFiles, NEW b \in {"Fresh", "Passive"},
         NEW r \in [WorkspaceFiles -> Cp!File], NEW f \in WorkspaceFiles
  PROVE  /\ \A k \in Cp!HeirMarks(b, r, f) :
              \E t \in WorkspaceFiles : \E n :
                 /\ JjTold(HeadOf(r), JjTree(b, r), ConflictOf(r), t, n)
                 /\ n.source = f /\ n.kind = k
         /\ \A t \in WorkspaceFiles : \A n :
              JjTold(HeadOf(r), JjTree(b, r), ConflictOf(r), t, n) /\ n.source = f
                => n.kind \in Cp!HeirMarks(b, r, f)
<1> DEFINE head == HeadOf(r)
           now == JjTree(b, r)
           c == ConflictOf(r)
           marked(t) == IF Cp!NewName(head, now, f) = t THEN "Renamed" ELSE "Copied"
           heirs == {u \in WorkspaceFiles : r[u].conflict = "no" /\ Cp!SourceOf(head, now, u) = f}
           m(t) == Cp!MapState(Cp!MoveLetter(head, now, t))
           n3(t) == Cp!Entry(t, Cp!SourceOf(head, now, t), m(t), Nothing, Nothing)
<1>1. /\ Cp!Stages3(b, r)[1] = head /\ Cp!Stages3(b, r)[2] = now
      /\ Contained(head) /\ Contained(now)
      /\ \A t \in WorkspaceFiles : c[t] = r[t].conflict
  BY VcsStages3, VcsTrees DEF JjTree, ConflictOf
<1> HIDE DEF head, now, c
<1>2. Cp!HeirMarks(b, r, f) = {marked(t) : t \in heirs}
  BY <1>1 DEF Cp!HeirMarks
<1>3. ASSUME NEW t \in WorkspaceFiles, Cp!SourceOf(head, now, t) = f
      PROVE  /\ m(t) = marked(t) /\ Cp!NewName(head, now, t) = Nothing
             /\ head[t] # now[t]
  <2>1. Cp!MoveLetter(head, now, t) = IF Cp!NewName(head, now, f) = t THEN "R" ELSE "C"
    BY <1>1, <1>3, VcsLetters
  <2>2. head[t] = "absent" /\ now[t] # "absent"
    BY <1>3, VcsSource
  <2> QED
    BY <2>1, <2>2, VcsMapState, VcsNewName
<1>4. ASSUME NEW t \in heirs
      PROVE  \E n : JjTold(head, now, c, t, n) /\ n.source = f /\ n.kind = marked(t)
  <2>1. JjTold(head, now, c, t, n3(t))
    BY <1>1, <1>3 DEF JjTold
  <2>2. n3(t).source = f /\ n3(t).kind = m(t)
    BY DEF Cp!Entry
  <2> HIDE DEF n3, m, marked
  <2>3. m(t) = marked(t)
    BY <1>3
  <2> QED
    BY <2>1, <2>2, <2>3
<1>5. ASSUME NEW t \in WorkspaceFiles, NEW n, JjTold(head, now, c, t, n), n.source = f
      PROVE  n.kind \in {marked(u) : u \in heirs}
  <2>1. c[t] = "no" /\ Cp!SourceOf(head, now, t) = f /\ n.kind = m(t)
    BY <1>5 DEF JjTold, Cp!Entry
  <2>2. t \in heirs
    BY <1>1, <2>1
  <2>3. n.kind = marked(t)
    BY <2>1, <1>3
  <2> HIDE DEF heirs, marked
  <2> QED
    BY <2>2, <2>3
<1> QED
  BY <1>2, <1>4, <1>5 DEF head, now, c

LEMMA VcsJjDeleted ==
  ASSUME Nothing \notin WorkspaceFiles \cup Cp!Kinds, NEW b \in {"Fresh", "Passive"},
         NEW r \in [WorkspaceFiles -> Cp!File], NEW f \in WorkspaceFiles,
         r[f].conflict \in {"no"} \cup Cp!JujutsuConflicts,
         r[f].conflict \in {"no", "DD", "DU", "UD"},
         Cp!Stages3(b, r)[3][f] = "absent",
         JjKinds(HeadOf(r), JjTree(b, r), ConflictOf(r), f) # {}
  PROVE  \E n : /\ JjTold(HeadOf(r), JjTree(b, r), ConflictOf(r), f, n)
                /\ "Deleted" \in {n.kind, n.index, n.work}
<1> DEFINE h == HeadOf(r)
           t == JjTree(b, r)
           c == ConflictOf(r)
           n3 == Cp!Entry(f, Cp!SourceOf(h, t, f), Cp!MapState(Cp!MoveLetter(h, t, f)), Nothing, Nothing)
<1>1. /\ Contained(h) /\ Contained(t) /\ c[f] = r[f].conflict /\ t[f] = "absent"
  BY VcsStages3, VcsTrees DEF JjTree, ConflictOf
<1>2. c[f] = "no"
  BY <1>1 DEF Cp!JujutsuConflicts
<1>3. Cp!NewName(h, t, f) = Nothing /\ h[f] # t[f]
  BY <1>2 DEF JjKinds
<1>4. Cp!MoveLetter(h, t, f) = "D"
  <2> HIDE DEF h, t
  <2>1. Cp!SourceOf(h, t, f) = Nothing
    BY <1>1, VcsSource
  <2>2. Cp!MoveLetter(h, t, f) = Cp!Letter(h[f], t[f])
    BY <2>1, <1>1, VcsLetters
  <2> QED
    BY <2>2, <1>1, <1>3 DEF Cp!Letter
<1>5. n3.kind = "Deleted"
  BY <1>4, VcsMapState DEF Cp!Entry
<1>6. JjTold(h, t, c, f, n3)
  BY <1>2, <1>3 DEF JjTold
<1> HIDE DEF n3
<1> QED
  BY <1>5, <1>6

-----------------------------------------------------------------------------
(* The entries E tell what backend b finds of repository r: of each file   *)
(* the mark it should bear, the marks of those that came from it, and that *)
(* it is deleted.                                                          *)
OwnKinds(E, f) == {n.kind : n \in {m \in E : m.path = f}}
HeirKinds(E, f) == {n.kind : n \in {m \in E : m.source = f}}
Told(E, b, r) ==
    \A f \in WorkspaceFiles :
       /\ OwnKinds(E, f) \subseteq Cp!Kinds
       /\ Cp!MarkOf(b, r, f) = IF OwnKinds(E, f) = {} THEN Nothing ELSE Cp!Strongest(OwnKinds(E, f))
       /\ Cp!HeirMarks(b, r, f) = HeirKinds(E, f)
       /\ (/\ r[f].conflict \in {"no", "DD", "DU", "UD"} /\ Cp!Stages3(b, r)[3][f] = "absent"
           /\ OwnKinds(E, f) # {})
             => \E n \in E : n.path = f /\ "Deleted" \in {n.kind, n.index, n.work}

LEMMA VcsGitSnapshot ==
  ASSUME Nothing \notin WorkspaceFiles \cup Cp!Kinds, NEW r \in [WorkspaceFiles -> Cp!File],
         Cp!Fits("git", r), Cp!Snapshot("git", r) # Nothing
  PROVE  Told(Cp!Snapshot("git", r).entries, "git", r)
<1> DEFINE E == {Cp!GitEntry(q) : q \in Cp!GitRecords(r)}
<1>1. Cp!Snapshot("git", r).entries = E
  BY DEF Cp!Snapshot, Cp!GitSnapshot
<1>2. \A n : n \in E <=> \E f \in WorkspaceFiles : GitTold(r, f, n)
  BY VcsGitReport
<1> HIDE DEF E
<1>3. \A f, n : GitTold(r, f, n) => n.path = f
  BY VcsGitTold
<1>4. ASSUME NEW f \in WorkspaceFiles
      PROVE  r[f].conflict \in {"no"} \cup Cp!GitConflicts
  BY DEF Cp!Fits
<1>5. ASSUME NEW f \in WorkspaceFiles
      PROVE  OwnKinds(E, f) = GitKinds(r, f)
  <2>1. \A n : n \in E /\ n.path = f <=> GitTold(r, f, n)
    BY <1>2, <1>3
  <2>2. \A k : k \in OwnKinds(E, f) <=> \E n : GitTold(r, f, n) /\ n.kind = k
    BY <2>1 DEF OwnKinds
  <2>3. \A k : k \in GitKinds(r, f) <=> \E n : GitTold(r, f, n) /\ n.kind = k
    BY VcsGitTold
  <2> QED
    BY <2>2, <2>3
<1>6. ASSUME NEW f \in WorkspaceFiles
      PROVE  Cp!HeirMarks("git", r, f) = HeirKinds(E, f)
  <2>1. \A k : k \in HeirKinds(E, f) <=>
                 \E t \in WorkspaceFiles : \E n : GitTold(r, t, n) /\ n.source = f /\ n.kind = k
    BY <1>2 DEF HeirKinds
  <2>2. \A k : k \in Cp!HeirMarks("git", r, f) <=>
                 \E t \in WorkspaceFiles : \E n : GitTold(r, t, n) /\ n.source = f /\ n.kind = k
    BY VcsGitHeirs
  <2> QED
    BY <2>1, <2>2
<1>7. ASSUME NEW f \in WorkspaceFiles, r[f].conflict \in {"no", "DD", "DU", "UD"},
             Cp!Stages3("git", r)[3][f] = "absent", OwnKinds(E, f) # {}
      PROVE  \E n \in E : n.path = f /\ "Deleted" \in {n.kind, n.index, n.work}
  <2>1. PICK n : GitTold(r, f, n) /\ "Deleted" \in {n.kind, n.index, n.work}
    BY <1>5, <1>7, VcsGitDeleted
  <2>2. n \in E /\ n.path = f
    BY <1>2, <1>3, <2>1
  <2> QED
    BY <2>1, <2>2
<1>8. ASSUME NEW f \in WorkspaceFiles
      PROVE  /\ OwnKinds(E, f) \subseteq Cp!Kinds
             /\ Cp!MarkOf("git", r, f) =
                  IF OwnKinds(E, f) = {} THEN Nothing ELSE Cp!Strongest(OwnKinds(E, f))
  BY <1>4, <1>5, VcsGitMark
<1>9. Told(E, "git", r)
  BY <1>6, <1>7, <1>8 DEF Told
<1> QED
  BY <1>1, <1>9

(* jj status reads the repository and takes a snapshot of it, the other    *)
(* way round.                                                              *)
LEMMA VcsJjSnapshot ==
  ASSUME Nothing \notin WorkspaceFiles \cup Cp!Kinds, NEW b \in {"Fresh", "Passive"},
         NEW r \in [WorkspaceFiles -> Cp!File], Cp!Fits(b, r), Cp!Snapshot(b, r) # Nothing
  PROVE  Told(Cp!Snapshot(b, r).entries, b, r)
<1> DEFINE h == HeadOf(r)
           t == JjTree(b, r)
           c == ConflictOf(r)
           E == {Cp!JujutsuEntry(q) : q \in {p \in JjRecords(h, t, c) : ~Cp!NoFile(p)}}
           given(f, n) == JjTold(h, t, c, f, n)
<1>1. Cp!Snapshot(b, r).entries = E
  <2>1. Cp!JujutsuTree(r, b) = t
    BY DEF Cp!JujutsuTree, JjTree, WorkOf, IndexOf
  <2>2. Cp!JujutsuRecords(r, b) = JjRecords(h, t, c)
    BY <2>1, VcsJjRecords
  <2> HIDE DEF h, t, c
  <2> QED
    BY <2>2 DEF Cp!Snapshot, Cp!JujutsuSnapshot
<1>2. /\ Contained(h) /\ Contained(t)
      /\ \A f \in WorkspaceFiles : c[f] = r[f].conflict /\ c[f] \in {"no"} \cup Cp!JujutsuConflicts
  BY VcsTrees DEF JjTree, ConflictOf, Cp!Fits
<1>3. \A n : n \in E <=> \E f \in WorkspaceFiles : given(f, n)
  BY <1>2, VcsJjReport
<1>4. \A f, n : given(f, n) => n.path = f
  <2> HIDE DEF h, t, c, E
  <2> QED
    BY DEF JjTold, Cp!Entry
<1>5. ASSUME NEW f \in WorkspaceFiles
      PROVE  OwnKinds(E, f) = JjKinds(h, t, c, f)
  <2>1. \A n : n \in E /\ n.path = f <=> given(f, n)
    <3> HIDE DEF E, given
    <3> QED
      BY <1>3, <1>4
  <2>2. \A k : k \in OwnKinds(E, f) <=> \E n : given(f, n) /\ n.kind = k
    <3> HIDE DEF E, given
    <3> QED
      BY <2>1 DEF OwnKinds
  <2>3. \A k : k \in JjKinds(h, t, c, f) <=> \E n : given(f, n) /\ n.kind = k
    BY VcsJjTold
  <2> QED
    BY <2>2, <2>3
<1>6. ASSUME NEW f \in WorkspaceFiles
      PROVE  Cp!HeirMarks(b, r, f) = HeirKinds(E, f)
  <2>1. \A k : k \in HeirKinds(E, f) <=>
                 \E u \in WorkspaceFiles : \E n : given(u, n) /\ n.source = f /\ n.kind = k
    <3> HIDE DEF E, given
    <3> QED
      BY <1>3 DEF HeirKinds
  <2>2. \A k : k \in Cp!HeirMarks(b, r, f) <=>
                 \E u \in WorkspaceFiles : \E n : given(u, n) /\ n.source = f /\ n.kind = k
    BY VcsJjHeirs
  <2> QED
    BY <2>1, <2>2
<1>7. ASSUME NEW f \in WorkspaceFiles, r[f].conflict \in {"no", "DD", "DU", "UD"},
             Cp!Stages3(b, r)[3][f] = "absent", OwnKinds(E, f) # {}
      PROVE  \E n \in E : n.path = f /\ "Deleted" \in {n.kind, n.index, n.work}
  <2>1. PICK n : given(f, n) /\ "Deleted" \in {n.kind, n.index, n.work}
    BY <1>2, <1>5, <1>7, VcsJjDeleted
  <2>2. n \in E /\ n.path = f
    <3> HIDE DEF E, given
    <3> QED
      BY <1>3, <1>4, <2>1
  <2> HIDE DEF E
  <2> QED
    BY <2>1, <2>2
<1>8. ASSUME NEW f \in WorkspaceFiles
      PROVE  /\ OwnKinds(E, f) \subseteq Cp!Kinds
             /\ Cp!MarkOf(b, r, f) =
                  IF OwnKinds(E, f) = {} THEN Nothing ELSE Cp!Strongest(OwnKinds(E, f))
  BY <1>2, <1>5, VcsJjMark
<1> HIDE DEF E
<1>9. Told(E, b, r)
  BY <1>6, <1>7, <1>8 DEF Told
<1> QED
  BY <1>1, <1>9

(* What a status command finds of the workspace, it finds of what jj makes *)
(* of the workspace as well.                                               *)
AfterRead(b, r) ==
    IF b = "Fresh" THEN [f \in WorkspaceFiles |-> [r[f] EXCEPT !.index = r[f].work]] ELSE r

LEMMA VcsAfterRead ==
  ASSUME NEW b \in Cp!Backends, NEW r \in [WorkspaceFiles -> Cp!File], Cp!Fits(b, r)
  PROVE  /\ AfterRead(b, r) \in [WorkspaceFiles -> Cp!File] /\ Cp!Fits(b, AfterRead(b, r))
         /\ Cp!Snapshot(b, r) = Cp!Snapshot(b, AfterRead(b, r))
<1>1. CASE b # "Fresh"
  BY <1>1 DEF AfterRead
<1>2. CASE b = "Fresh"
  <2> DEFINE s == AfterRead(b, r)
  <2>1. \A f \in WorkspaceFiles : /\ s[f] = [r[f] EXCEPT !.index = r[f].work]
                                  /\ r[f] \in Cp!File
    BY <1>2 DEF AfterRead
  <2>2. s = [f \in WorkspaceFiles |-> s[f]]
    BY <1>2 DEF AfterRead
  <2> HIDE DEF s
  <2>3. \A f \in WorkspaceFiles : /\ s[f] \in Cp!File /\ s[f].head = r[f].head
                                  /\ s[f].work = r[f].work /\ s[f].conflict = r[f].conflict
    BY <2>1 DEF Cp!File
  <2>4. s \in [WorkspaceFiles -> Cp!File]
    BY <2>2, <2>3
  <2>5. Cp!Fits(b, s)
    BY <2>3 DEF Cp!Fits
  <2>6. Cp!JujutsuTree(s, b) = Cp!JujutsuTree(r, b)
    BY <1>2, <2>3 DEF Cp!JujutsuTree
  <2>7. HeadOf(s) = HeadOf(r) /\ ConflictOf(s) = ConflictOf(r)
    BY <2>3 DEF HeadOf, ConflictOf
  <2>8. Cp!JujutsuRecords(s, b) = Cp!JujutsuRecords(r, b)
    BY <2>6, <2>7, VcsJjRecords
  <2>9. Cp!Snapshot(b, s) = Cp!Snapshot(b, r)
    BY <1>2, <2>8 DEF Cp!Snapshot, Cp!JujutsuSnapshot
  <2> QED
    BY <2>4, <2>5, <2>9 DEF s
<1> QED
  BY <1>1, <1>2

LEMMA VcsSnapshot ==
  ASSUME Nothing \notin WorkspaceFiles \cup Cp!Kinds, NEW b \in Cp!Backends,
         NEW r \in [WorkspaceFiles -> Cp!File], Cp!Fits(b, r), Cp!Snapshot(b, r) # Nothing
  PROVE  Told(Cp!Snapshot(b, r).entries, b, AfterRead(b, r))
<1>1. /\ AfterRead(b, r) \in [WorkspaceFiles -> Cp!File] /\ Cp!Fits(b, AfterRead(b, r))
      /\ Cp!Snapshot(b, r) = Cp!Snapshot(b, AfterRead(b, r))
  BY VcsAfterRead
<1>2. b = "git" \/ b \in {"Fresh", "Passive"}
  BY DEF Cp!Backends
<1> QED
  BY <1>1, <1>2, VcsGitSnapshot, VcsJjSnapshot

-----------------------------------------------------------------------------
(* What is made of the entries.                                            *)
Marked(E, gone) == Cp!Present(E) \cup Cp!Missing(E, gone)
PathsIn(marked) == {e.path : e \in marked}
IsLost(missing, f) == \E e \in missing : e.path = f
KindsOf(marked, f) == {e.kind : e \in {m \in marked : m.path = f}}
LeftKinds(E, gone, f) == IF f \in gone THEN HeirKinds(E, f) ELSE {}

LEMMA PaneHeirKinds ==
  ASSUME NEW E, NEW b, NEW r, NEW f \in WorkspaceFiles, Told(E, b, r)
  PROVE  HeirKinds(E, f) \subseteq {"Renamed", "Copied"}
<1>1. HeirKinds(E, f) = Cp!HeirMarks(b, r, f)
  BY DEF Told
<1> QED
  BY <1>1 DEF Cp!HeirMarks

LEMMA PaneMarkedKinds ==
  ASSUME PaneAssumption, NEW E, NEW b, NEW r, Told(E, b, r), NEW gone, NEW f \in Files
  PROVE  /\ KindsOf(Marked(E, gone), f) = OwnKinds(E, f) \cup LeftKinds(E, gone, f)
         /\ KindsOf(Marked(E, gone), f) \subseteq Cp!Kinds
         /\ f \in gone /\ LeftKinds(E, gone, f) # {} => \E e \in Cp!Missing(E, gone) : e.path = f
         /\ (f \in gone /\ \E n \in E : n.path = f /\ "Deleted" \in {n.kind, n.index, n.work})
              => \E e \in Cp!Missing(E, gone) : e.path = f
<1>1. f \in WorkspaceFiles
  BY DEF PaneAssumption, Cp!WorkspaceAssumption
<1>2. OwnKinds(E, f) \subseteq Cp!Kinds
  BY <1>1 DEF Told
<1>3. HeirKinds(E, f) \subseteq Cp!Kinds
  BY <1>1, PaneHeirKinds, VcsKinds
<1>4. ASSUME NEW n \in E, n.path = f
      PROVE  [path |-> f, kind |-> n.kind] \in Cp!Present(E) /\ n.kind \in Cp!Kinds
  <2>1. n.kind \in Cp!Kinds
    BY <1>2, <1>4 DEF OwnKinds
  <2> QED
    BY <1>4, <2>1 DEF Cp!Present
<1>5. ASSUME NEW n \in E, n.source = f, f \in gone
      PROVE  [path |-> f, kind |-> n.kind] \in Cp!Missing(E, gone)
  <2>1. n.kind \in Cp!Kinds
    BY <1>3, <1>5 DEF HeirKinds
  <2> QED
    BY <1>5, <2>1 DEF Cp!Missing, Cp!Candidates
<1>6. ASSUME NEW n \in E, n.path = f, "Deleted" \in {n.kind, n.index, n.work}, f \in gone
      PROVE  [path |-> f, kind |-> n.kind] \in Cp!Missing(E, gone)
  BY <1>4, <1>6 DEF Cp!Missing, Cp!Candidates
<1>7. ASSUME NEW e \in Marked(E, gone), e.path = f
      PROVE  e.kind \in OwnKinds(E, f) \cup LeftKinds(E, gone, f)
  BY <1>7 DEF Marked, Cp!Present, Cp!Missing, Cp!Candidates, OwnKinds, LeftKinds, HeirKinds
<1>8. ASSUME NEW k \in OwnKinds(E, f) \cup LeftKinds(E, gone, f)
      PROVE  \E e \in Marked(E, gone) : e.path = f /\ e.kind = k
  <2> DEFINE e == [path |-> f, kind |-> k]
  <2>1. e \in Marked(E, gone)
    <3>1. CASE k \in OwnKinds(E, f)
      BY <1>4, <3>1 DEF OwnKinds, Marked
    <3>2. CASE k \in LeftKinds(E, gone, f)
      BY <1>5, <3>2 DEF LeftKinds, HeirKinds, Marked
    <3> QED
      BY <3>1, <3>2
  <2>2. e.path = f /\ e.kind = k
    OBVIOUS
  <2> HIDE DEF e
  <2> QED
    BY <2>1, <2>2
<1>9. KindsOf(Marked(E, gone), f) = OwnKinds(E, f) \cup LeftKinds(E, gone, f)
  BY <1>7, <1>8 DEF KindsOf
<1>10. LeftKinds(E, gone, f) \subseteq Cp!Kinds
  BY <1>3 DEF LeftKinds
<1>11. f \in gone /\ LeftKinds(E, gone, f) # {} => \E e \in Cp!Missing(E, gone) : e.path = f
  BY <1>5 DEF LeftKinds, HeirKinds
<1>12. (f \in gone /\ \E n \in E : n.path = f /\ "Deleted" \in {n.kind, n.index, n.work})
         => \E e \in Cp!Missing(E, gone) : e.path = f
  BY <1>6
<1> QED
  BY <1>2, <1>9, <1>10, <1>11, <1>12

(* The list: a path once, with its strongest kind.                         *)
LEMMA PaneListedFiles ==
  ASSUME PaneAssumption, NEW marked, marked \subseteq [path : Files, kind : Cp!Kinds], NEW missing,
         NEW list, list = Cp!ChangedFiles(marked, missing)
  PROVE  /\ Cp!PathsOf(list) = Cp!InPathOrder(PathsIn(marked))
         /\ \A i \in DOMAIN list :
              /\ list[i].path \in PathsIn(marked)
              /\ list[i].kind = Cp!Strongest(KindsOf(marked, list[i].path))
              /\ list[i].missing <=> IsLost(missing, list[i].path)
<1> DEFINE S == {e.path : e \in marked}
           order == Cp!InPathOrder(S)
           lost(p) == \E e \in missing : e.path = p
           entry(p) == [path |-> p, kind |-> Cp!Strongest(KindsOf(marked, p)), missing |-> lost(p)]
<1>1. list = [i \in DOMAIN order |-> entry(order[i])]
  BY DEF Cp!ChangedFiles, KindsOf
<1>2. IsFiniteSet(S) /\ S \subseteq Seq(Nat)
  BY PaneTypes, PanePaths, FS_Subset
<1> HIDE DEF S
<1>3. order \in Seq(S)
  BY <1>2, PaneInPathOrder
<1> HIDE DEF order
<1>4. /\ DOMAIN order = 1..Len(order) /\ \A i \in DOMAIN order : order[i] \in S
      /\ order = [i \in DOMAIN order |-> order[i]]
  BY <1>3, LenProperties
<1>5. \A p : entry(p).path = p /\ entry(p).kind = Cp!Strongest(KindsOf(marked, p))
  OBVIOUS
<1>6. \A p : entry(p).missing = lost(p)
  OBVIOUS
<1> HIDE DEF entry, lost
<1>7. DOMAIN list = DOMAIN order /\ \A i \in DOMAIN list : list[i] = entry(order[i])
  BY <1>1
<1>8. Cp!PathsOf(list) = order
  BY <1>4, <1>5, <1>7 DEF Cp!PathsOf
<1>9. ASSUME NEW i \in DOMAIN list
      PROVE  /\ list[i].path \in S
             /\ list[i].kind = Cp!Strongest(KindsOf(marked, list[i].path))
             /\ list[i].missing <=> lost(list[i].path)
  <2>1. list[i].path = order[i] /\ order[i] \in S
    BY <1>4, <1>5, <1>7
  <2>2. list[i].missing = lost(order[i])
    BY <1>6, <1>7
  <2> QED
    BY <2>1, <2>2, <1>5, <1>7
<1> QED
  BY <1>8, <1>9 DEF S, order, lost, PathsIn, IsLost

LEMMA PaneNoFileBelow ==
  ASSUME PaneAssumption, NEW g \in Files, NEW f \in Files
  PROVE  ~Cp!Below(g, f)
<1>1. Cp!PathsAssumption /\ g \in Cp!Paths /\ f \in Cp!Paths /\ f \notin Cp!Places
  BY PaneTypes, PanePaths
<1> QED
  BY <1>1, PaneBelow

(* The marks: of a file its own, for no file is below a file; of a         *)
(* directory conflicted or modified.                                       *)
LEMMA PaneMarks ==
  ASSUME PaneAssumption, NEW marked, marked \subseteq [path : Files, kind : Cp!Kinds]
  PROVE  /\ \A f \in Files : Cp!Statuses(marked)[f] =
              IF KindsOf(marked, f) = {} THEN Nothing ELSE Cp!Strongest(KindsOf(marked, f))
         /\ \A d \in Folders : Cp!Statuses(marked)[d] =
              IF \A e \in marked : ~Cp!Below(e.path, d) THEN Nothing
              ELSE IF \E e \in marked : Cp!Below(e.path, d) /\ e.kind = "Conflicted"
              THEN "Conflicted" ELSE "Modified"
<1> DEFINE own(p) == KindsOf(marked, p)
           grade(e) == IF e.kind = "Conflicted" THEN "Conflicted" ELSE "Modified"
           above(p) == {grade(e) : e \in {m \in marked : Cp!Below(m.path, p)}}
<1>1. \A p \in Cp!Paths : Cp!Statuses(marked)[p] =
        IF own(p) \cup above(p) = {} THEN Nothing ELSE Cp!Strongest(own(p) \cup above(p))
  BY DEF Cp!Statuses, KindsOf
<1>2. ASSUME NEW f \in Files
      PROVE  above(f) = {}
  <2>1. \A e \in marked : e.path \in Files
    OBVIOUS
  <2>2. \A g \in Files : ~Cp!Below(g, f)
    BY PaneNoFileBelow
  <2> QED
    BY <2>1, <2>2
<1>3. Cp!Paths = Folders \cup Files /\ Folders \cap Files = {}
  BY PaneTypes, PanePaths
<1>4. ASSUME NEW d \in Folders
      PROVE  own(d) = {}
  <2>1. \A e \in marked : e.path # d
    BY <1>3
  <2> QED
    BY <2>1 DEF KindsOf
<1>5. ASSUME NEW d \in Folders
      PROVE  Cp!Statuses(marked)[d] =
              IF \A e \in marked : ~Cp!Below(e.path, d) THEN Nothing
              ELSE IF \E e \in marked : Cp!Below(e.path, d) /\ e.kind = "Conflicted"
              THEN "Conflicted" ELSE "Modified"
  <2>1. Cp!Statuses(marked)[d] = IF above(d) = {} THEN Nothing ELSE Cp!Strongest(above(d))
    BY <1>1, <1>3, <1>4
  <2>2. above(d) = {} <=> \A e \in marked : ~Cp!Below(e.path, d)
    OBVIOUS
  <2>3. "Conflicted" \in above(d) <=> \E e \in marked : Cp!Below(e.path, d) /\ e.kind = "Conflicted"
    OBVIOUS
  <2>4. above(d) \subseteq {"Conflicted", "Modified"}
    OBVIOUS
  <2> HIDE DEF above
  <2>5. above(d) \in SUBSET Cp!Kinds
    BY <2>4, VcsKinds
  <2>6. "Conflicted" \in above(d) => Cp!Strongest(above(d)) = "Conflicted"
    <3>1. \A l \in above(d) : Cp!Order["Conflicted"] <= Cp!Order[l]
      BY <2>5, VcsKinds
    <3> QED
      BY <2>5, <3>1, VcsStrongest
  <2>7. above(d) # {} /\ "Conflicted" \notin above(d) => Cp!Strongest(above(d)) = "Modified"
    BY <2>4, <2>5, VcsStrongest
  <2> QED
    BY <2>1, <2>2, <2>3, <2>6, <2>7
<1>6. ASSUME NEW f \in Files
      PROVE  Cp!Statuses(marked)[f] =
              IF KindsOf(marked, f) = {} THEN Nothing ELSE Cp!Strongest(KindsOf(marked, f))
  <2>1. own(f) \cup above(f) = own(f)
    BY <1>2
  <2> HIDE DEF own, above
  <2>2. f \in Cp!Paths
    BY <1>3
  <2>3. Cp!Statuses(marked)[f] = IF own(f) = {} THEN Nothing ELSE Cp!Strongest(own(f))
    BY <1>1, <2>1, <2>2
  <2> QED
    BY <2>3 DEF own
<1> QED
  BY <1>5, <1>6

(* What they say is what StatusTrue says.                                  *)
LEMMA PaneStatusTells ==
  ASSUME PaneAssumption, NEW E, read # Nothing, Told(E, read.backend, read.repo),
         statuses = Cp!Statuses(Marked(E, read.gone)),
         changed_files = Cp!ChangedFiles(Marked(E, read.gone), Cp!Missing(E, read.gone))
  PROVE  Cp!StatusTrue
<1> DEFINE own(f) == {Cp!MarkOf(read.backend, read.repo, f)} \ {Nothing}
           left(f) == IF f \in read.gone THEN Cp!HeirMarks(read.backend, read.repo, f) ELSE {}
           listed == {f \in Files : own(f) \cup left(f) # {}}
           mark == [f \in listed |-> Cp!Strongest(own(f) \cup left(f))]
           gone_now(f) == /\ read.repo[f].conflict \in {"no", "DD", "DU", "UD"}
                          /\ Cp!Stages3(read.backend, read.repo)[3][f] = "absent"
           deleted == {f \in listed \cap read.gone :
                         /\ read.repo[f].conflict \in {"no", "DD", "DU", "UD"}
                         /\ Cp!Stages3(read.backend, read.repo)[3][f] = "absent"}
           marked == Marked(E, read.gone)
           missing == Cp!Missing(E, read.gone)
           lost(f) == \E e \in missing : e.path = f
<1>1. Files \subseteq WorkspaceFiles /\ Nothing \notin Cp!Kinds
  BY DEF PaneAssumption, Cp!WorkspaceAssumption, Cp!NoneAssumption
<1>2. marked \subseteq [path : Files, kind : Cp!Kinds]
  BY DEF Marked, Cp!Present, Cp!Missing, Cp!Candidates
<1>3. ASSUME NEW f \in Files
      PROVE  /\ KindsOf(marked, f) = {} <=> own(f) \cup left(f) = {}
             /\ KindsOf(marked, f) # {} =>
                  Cp!Strongest(own(f) \cup left(f)) = Cp!Strongest(KindsOf(marked, f))
             /\ (f \in read.gone /\ gone_now(f) /\ own(f) \cup left(f) # {}) => lost(f)
             /\ KindsOf(marked, f) \subseteq Cp!Kinds
  <2> DEFINE O == OwnKinds(E, f)
             L == LeftKinds(E, read.gone, f)
  <2>1. /\ KindsOf(marked, f) = O \cup L /\ KindsOf(marked, f) \subseteq Cp!Kinds
        /\ f \in read.gone /\ L # {} => lost(f)
        /\ (f \in read.gone /\ \E n \in E : n.path = f /\ "Deleted" \in {n.kind, n.index, n.work})
             => lost(f)
    BY PaneMarkedKinds
  <2>2. /\ Cp!MarkOf(read.backend, read.repo, f) = IF O = {} THEN Nothing ELSE Cp!Strongest(O)
        /\ Cp!HeirMarks(read.backend, read.repo, f) = HeirKinds(E, f)
        /\ gone_now(f) /\ O # {} =>
             \E n \in E : n.path = f /\ "Deleted" \in {n.kind, n.index, n.work}
    BY <1>1 DEF Told
  <2>3. left(f) = L
    BY <2>2 DEF LeftKinds
  <2>4. O # {} => Cp!Strongest(O) \in O /\ \A l \in O : Cp!Order[Cp!Strongest(O)] <= Cp!Order[l]
    BY <2>1, VcsStrongest
  <2>5. own(f) = IF O = {} THEN {} ELSE {Cp!Strongest(O)}
    BY <1>1, <2>1, <2>2, <2>4
  <2> HIDE DEF own, left, O, L, gone_now, lost, marked
  <2>6. own(f) \cup left(f) \subseteq O \cup L
    BY <2>3, <2>4, <2>5
  <2>7. \A l \in O \cup L : \E k \in own(f) \cup left(f) : Cp!Order[k] <= Cp!Order[l]
    <3>1. \A l \in L : Cp!Order[l] <= Cp!Order[l]
      BY <2>1, VcsKinds
    <3> QED
      BY <2>3, <2>4, <2>5, <3>1
  <2>8. /\ own(f) \cup left(f) = {} <=> O \cup L = {}
        /\ own(f) \cup left(f) # {} => Cp!Strongest(own(f) \cup left(f)) = Cp!Strongest(O \cup L)
    BY <2>1, <2>6, <2>7, VcsDominates
  <2>9. (f \in read.gone /\ gone_now(f) /\ own(f) \cup left(f) # {}) => lost(f)
    BY <2>1, <2>2, <2>8
  <2> QED
    BY <2>1, <2>8, <2>9
<1>4. listed = {e.path : e \in marked}
  <2>1. \A f \in Files : KindsOf(marked, f) # {} <=> \E e \in marked : e.path = f
    BY DEF KindsOf
  <2>2. \A e \in marked : e.path \in Files
    BY <1>2
  <2>3. \A f \in Files : own(f) \cup left(f) # {} <=> KindsOf(marked, f) # {}
    BY <1>3
  <2> HIDE DEF own, left, marked
  <2> QED
    BY <2>1, <2>2, <2>3
<1>5. ASSUME NEW f \in listed
      PROVE  mark[f] = Cp!Strongest(KindsOf(marked, f)) /\ KindsOf(marked, f) # {}
  <2> HIDE DEF own, left, marked
  <2> QED
    BY <1>3
<1>6. /\ Cp!PathsOf(changed_files) = Cp!InPathOrder(listed)
      /\ \A i \in DOMAIN changed_files :
           /\ changed_files[i].path \in listed
           /\ changed_files[i].kind = Cp!Strongest(KindsOf(marked, changed_files[i].path))
           /\ changed_files[i].missing <=> lost(changed_files[i].path)
  <2>1. changed_files = Cp!ChangedFiles(marked, missing)
    OBVIOUS
  <2> HIDE DEF marked, missing
  <2>2. /\ Cp!PathsOf(changed_files) = Cp!InPathOrder(PathsIn(marked))
        /\ \A i \in DOMAIN changed_files :
             /\ changed_files[i].path \in PathsIn(marked)
             /\ changed_files[i].kind = Cp!Strongest(KindsOf(marked, changed_files[i].path))
             /\ changed_files[i].missing <=> IsLost(missing, changed_files[i].path)
    BY <1>2, <2>1, PaneListedFiles
  <2>3. listed = PathsIn(marked)
    BY <1>4 DEF PathsIn
  <2> HIDE DEF listed
  <2> QED
    BY ONLY <2>2, <2>3 DEF IsLost
<1>7. /\ \A f \in Files : statuses[f] =
              IF KindsOf(marked, f) = {} THEN Nothing ELSE Cp!Strongest(KindsOf(marked, f))
      /\ \A d \in Folders : statuses[d] =
              IF \A e \in marked : ~Cp!Below(e.path, d) THEN Nothing
              ELSE IF \E e \in marked : Cp!Below(e.path, d) /\ e.kind = "Conflicted"
              THEN "Conflicted" ELSE "Modified"
  BY <1>2, PaneMarks
<1>8. \A f \in Files : lost(f) => f \in read.gone
  BY DEF Cp!Missing, Cp!Candidates
<1>9. deleted = {f \in listed \cap read.gone : gone_now(f)}
  OBVIOUS
<1> HIDE DEF lost, gone_now, marked, missing
<1>10. listed \subseteq Files
  OBVIOUS
<1>11. \A f \in deleted : lost(f)
  <2>1. ASSUME NEW f \in deleted
        PROVE  lost(f)
    <3>1. f \in Files /\ own(f) \cup left(f) # {} /\ f \in read.gone /\ gone_now(f)
      BY <1>9
    <3> HIDE DEF own, left, deleted
    <3> QED
      BY <3>1, <1>3
  <2> QED
    BY <2>1
<1>12. ASSUME NEW f \in Files \ listed
       PROVE  statuses[f] = Nothing
  <2>1. own(f) \cup left(f) = {}
    OBVIOUS
  <2> HIDE DEF own, left
  <2> QED
    BY <1>3, <1>7, <2>1
<1> HIDE DEF own, left, listed, mark, deleted
<1>13. ASSUME NEW i \in DOMAIN changed_files
       PROVE  LET file == changed_files[i]
              IN  /\ file.kind = mark[file.path] /\ statuses[file.path] = mark[file.path]
                  /\ file.missing => file.path \in read.gone
                  /\ file.path \in deleted => file.missing
  BY <1>5, <1>6, <1>7, <1>8, <1>10, <1>11
<1>14. ASSUME NEW d \in Folders
       PROVE  LET below == {mark[f] : f \in {g \in listed : Cp!Below(g, d)}}
              IN  /\ statuses[d] = Nothing <=> below = {}
                  /\ statuses[d] = "Conflicted" <=> "Conflicted" \in below
                  /\ (below # {} /\ Cp!Strongest(below) = "Modified") => statuses[d] = "Modified"
  <2> DEFINE below == {mark[f] : f \in {g \in listed : Cp!Below(g, d)}}
  <2>1. below = {} <=> \A e \in marked : ~Cp!Below(e.path, d)
    BY <1>4
  <2>2. "Conflicted" \in below <=> \E e \in marked : Cp!Below(e.path, d) /\ e.kind = "Conflicted"
    <3>1. ASSUME NEW f \in listed
          PROVE  mark[f] = "Conflicted" <=> \E e \in marked : e.path = f /\ e.kind = "Conflicted"
      <4> DEFINE K == KindsOf(marked, f)
      <4>1. mark[f] = Cp!Strongest(K) /\ K # {} /\ K \in SUBSET Cp!Kinds
        BY <1>3, <1>5, <1>10
      <4>2. "Conflicted" \in K <=> \E e \in marked : e.path = f /\ e.kind = "Conflicted"
        BY DEF KindsOf
      <4> HIDE DEF K
      <4>3. Cp!Strongest(K) \in K
        BY <4>1, VcsStrongest
      <4>4. "Conflicted" \in K => Cp!Strongest(K) = "Conflicted"
        <5>1. \A l \in K : Cp!Order["Conflicted"] <= Cp!Order[l]
          BY <4>1, VcsKinds
        <5> QED
          BY <4>1, <5>1, VcsStrongest
      <4> QED
        BY <4>1, <4>2, <4>3, <4>4
    <3> QED
      BY <1>4, <3>1
  <2>3. below \subseteq Cp!Kinds
    <3>1. ASSUME NEW f \in listed
          PROVE  mark[f] \in Cp!Kinds
      <4> DEFINE K == KindsOf(marked, f)
      <4>1. mark[f] = Cp!Strongest(K) /\ K # {} /\ K \subseteq Cp!Kinds
        BY <1>3, <1>5, <1>10
      <4> HIDE DEF K
      <4> QED
        BY <4>1, VcsStrongest
    <3> QED
      BY <3>1
  <2> HIDE DEF below
  <2>4. ~("Conflicted" \in below /\ Cp!Strongest(below) = "Modified")
    <3>1. "Conflicted" \in below => Cp!Order[Cp!Strongest(below)] <= Cp!Order["Conflicted"]
      BY <2>3, VcsStrongest
    <3>2. ~(Cp!Order["Modified"] <= Cp!Order["Conflicted"])
      BY DEF Cp!Order
    <3> QED
      BY <3>1, <3>2
  <2>5. Nothing \notin {"Conflicted", "Modified"}
    BY <1>1, VcsKinds
  <2>6. statuses[d] = IF below = {} THEN Nothing
                      ELSE IF "Conflicted" \in below THEN "Conflicted" ELSE "Modified"
    BY <1>7, <2>1, <2>2
  <2>7. /\ statuses[d] = Nothing <=> below = {}
        /\ statuses[d] = "Conflicted" <=> "Conflicted" \in below
        /\ (below # {} /\ Cp!Strongest(below) = "Modified") => statuses[d] = "Modified"
    BY <2>6, <2>4, <2>5
  <2> QED
    BY <2>7 DEF below
<1>15. /\ Cp!PathsOf(changed_files) = Cp!InPathOrder(listed)
       /\ \A i \in DOMAIN changed_files :
             LET file == changed_files[i]
             IN  /\ file.kind = mark[file.path] /\ statuses[file.path] = mark[file.path]
                 /\ file.missing => file.path \in read.gone
                 /\ file.path \in deleted => file.missing
       /\ \A f \in Files \ listed : statuses[f] = Nothing
       /\ \A d \in Folders :
             LET below == {mark[f] : f \in {g \in listed : Cp!Below(g, d)}}
             IN  /\ statuses[d] = Nothing <=> below = {}
                 /\ statuses[d] = "Conflicted" <=> "Conflicted" \in below
                 /\ (below # {} /\ Cp!Strongest(below) = "Modified") => statuses[d] = "Modified"
  BY <1>6, <1>12, <1>13, <1>14
<1> QED
  BY <1>15 DEF Cp!StatusTrue, own, left, listed, mark, deleted

-----------------------------------------------------------------------------
(* What a status command has read is told by its entries, and what was     *)
(* applied is made of such entries.                                        *)
WorkspaceFit ==
    /\ repo \in [WorkspaceFiles -> Cp!File] /\ backend \in Cp!Backends /\ Cp!Fits(backend, repo)
RefreshTold ==
    refresh # Nothing =>
      /\ refresh = [backend |-> refresh.backend, outdated |-> refresh.outdated,
                    stage |-> refresh.stage, snapshot |-> refresh.snapshot,
                    seen |-> refresh.seen, gone |-> refresh.gone]
      /\ refresh.backend = backend
      /\ refresh.snapshot # Nothing =>
           Told(refresh.snapshot.entries, refresh.backend, refresh.seen)
ReadTold ==
    read # Nothing =>
      \E E : /\ Told(E, read.backend, read.repo)
             /\ statuses = Cp!Statuses(Marked(E, read.gone))
             /\ changed_files = Cp!ChangedFiles(Marked(E, read.gone), Cp!Missing(E, read.gone))
StatusInv == WorkspaceFit /\ RefreshTold /\ ReadTold
StatusAssumption == PaneAssumption /\ Cp!RepositoriesAssumption

LEMMA StatusStarted ==
  ASSUME refresh' = Cp!Started(backend), backend' = backend
  PROVE  RefreshTold'
BY DEF Cp!Started, RefreshTold

LEMMA StatusOutdated ==
  ASSUME RefreshTold, refresh # Nothing, refresh' = [refresh EXCEPT !.outdated = TRUE],
         backend' = backend
  PROVE  RefreshTold'
<1> DEFINE old == [backend |-> refresh.backend, outdated |-> refresh.outdated,
                   stage |-> refresh.stage, snapshot |-> refresh.snapshot,
                   seen |-> refresh.seen, gone |-> refresh.gone]
<1>1. refresh = old
  BY DEF RefreshTold
<1>2. refresh' = [old EXCEPT !.outdated = TRUE]
  BY <1>1
<1>3. refresh' = [backend |-> refresh.backend, outdated |-> TRUE,
                  stage |-> refresh.stage, snapshot |-> refresh.snapshot,
                  seen |-> refresh.seen, gone |-> refresh.gone]
  BY <1>2
<1>4. /\ refresh'.backend = refresh.backend /\ refresh'.outdated = TRUE
      /\ refresh'.stage = refresh.stage
      /\ refresh'.snapshot = refresh.snapshot /\ refresh'.seen = refresh.seen
      /\ refresh'.gone = refresh.gone
  BY <1>3
<1> HIDE DEF old
<1> QED
  BY <1>3, <1>4 DEF RefreshTold

LEMMA StatusRequested ==
  ASSUME RefreshTold, Cp!Request, backend' = backend
  PROVE  RefreshTold'
BY StatusStarted, StatusOutdated DEF Cp!Request

LEMMA StatusKept ==
  ASSUME StatusInv, UNCHANGED <<repo, backend, read, statuses, changed_files>>,
         \/ refresh' = refresh
         \/ Cp!Request
         \/ refresh # Nothing /\ refresh' = [refresh EXCEPT !.outdated = TRUE]
  PROVE  StatusInv'
<1>1. WorkspaceFit' /\ ReadTold'
  BY DEF StatusInv, WorkspaceFit, ReadTold
<1>2. refresh' = refresh => RefreshTold'
  BY DEF StatusInv, RefreshTold
<1>3. RefreshTold'
  BY <1>2, StatusRequested, StatusOutdated DEF StatusInv
<1> QED
  BY <1>1, <1>3 DEF StatusInv

LEMMA StatusStarts ==
  ASSUME StatusAssumption, Cp!Init
  PROVE  StatusInv
<1>1. /\ repo \in Repositories /\ backend \in Cp!Backends /\ Cp!Fits(backend, repo)
      /\ refresh = Cp!Started(backend) /\ read = Nothing
  BY DEF Cp!Init
<1>2. WorkspaceFit
  BY <1>1 DEF WorkspaceFit, StatusAssumption, Cp!RepositoriesAssumption
<1>3. RefreshTold
  BY <1>1 DEF RefreshTold, Cp!Started
<1> QED
  BY <1>1, <1>2, <1>3 DEF StatusInv, ReadTold

LEMMA StatusEdits ==
  ASSUME StatusAssumption, StatusInv, Cp!Edit
  PROVE  StatusInv'
<1>1. /\ repo' \in Repositories /\ Cp!Fits(backend, repo')
      /\ UNCHANGED <<backend, refresh, read, statuses, changed_files>>
  BY DEF Cp!Edit, Cp!tree, Cp!status
<1>2. WorkspaceFit'
  <2>1. Cp!Fits(backend, repo') => Cp!Fits(backend, repo)'
    BY <1>1 DEF Cp!Fits
  <2> QED
    BY <1>1, <2>1 DEF StatusInv, WorkspaceFit, StatusAssumption, Cp!RepositoriesAssumption
<1> QED
  BY <1>1, <1>2 DEF StatusInv, RefreshTold, ReadTold

LEMMA StatusReads ==
  ASSUME StatusAssumption, StatusInv, Cp!Reads
  PROVE  StatusInv'
<1> DEFINE b == refresh.backend
<1>1. /\ refresh # Nothing /\ b = backend /\ b \in Cp!Backends
      /\ repo \in [WorkspaceFiles -> Cp!File] /\ Cp!Fits(b, repo)
      /\ Nothing \notin WorkspaceFiles \cup Cp!Kinds
  BY DEF Cp!Reads, StatusInv, WorkspaceFit, RefreshTold, StatusAssumption, PaneAssumption,
         Cp!NoneAssumption
<1>2. repo' = AfterRead(b, repo)
  BY DEF Cp!Reads, AfterRead
<1>3. UNCHANGED <<backend, read, statuses, changed_files>>
  BY DEF Cp!Reads, Cp!tree, Cp!status
<1>4. PICK snapshot \in {Nothing, Cp!Snapshot(b, repo)} :
        refresh' = [refresh EXCEPT !.stage = "read", !.seen = repo', !.snapshot = snapshot]
  BY DEF Cp!Reads
<1> DEFINE old == [backend |-> refresh.backend, outdated |-> refresh.outdated,
                   stage |-> refresh.stage, snapshot |-> refresh.snapshot,
                   seen |-> refresh.seen, gone |-> refresh.gone]
<1>5. refresh' = [backend |-> b, outdated |-> refresh.outdated, stage |-> "read",
                  snapshot |-> snapshot, seen |-> repo', gone |-> refresh.gone]
  <2>1. refresh = old
    BY <1>1 DEF StatusInv, RefreshTold
  <2>2. refresh' = [old EXCEPT !.stage = "read", !.seen = repo', !.snapshot = snapshot]
    BY <1>4, <2>1
  <2> QED
    BY <2>2
<1>6. /\ AfterRead(b, repo) \in [WorkspaceFiles -> Cp!File] /\ Cp!Fits(b, AfterRead(b, repo))
      /\ snapshot # Nothing => Told(snapshot.entries, b, AfterRead(b, repo))
  BY <1>1, VcsAfterRead, VcsSnapshot
<1>7. WorkspaceFit'
  <2>1. Cp!Fits(b, repo') => Cp!Fits(backend, repo)'
    BY <1>1, <1>3 DEF Cp!Fits
  <2> QED
    BY <1>1, <1>2, <1>3, <1>6, <2>1 DEF WorkspaceFit
<1>8. /\ refresh'.backend = b /\ refresh'.outdated = refresh.outdated
      /\ refresh'.stage = "read"
      /\ refresh'.snapshot = snapshot /\ refresh'.seen = repo'
      /\ refresh'.gone = refresh.gone
  BY <1>5
<1>9. RefreshTold'
  <2> HIDE DEF b, old
  <2> QED
    BY <1>1, <1>2, <1>3, <1>5, <1>6, <1>8 DEF RefreshTold
<1> QED
  BY <1>3, <1>7, <1>9 DEF StatusInv, ReadTold

LEMMA StatusLooks ==
  ASSUME StatusInv, Cp!Looks
  PROVE  StatusInv'
<1> DEFINE lost == {f \in Files : ~Cp!OnDisk(f)}
           old == [backend |-> refresh.backend, outdated |-> refresh.outdated,
                   stage |-> refresh.stage, snapshot |-> refresh.snapshot,
                   seen |-> refresh.seen, gone |-> refresh.gone]
<1>1. /\ refresh # Nothing /\ refresh' = [refresh EXCEPT !.stage = "merged", !.gone = lost]
      /\ UNCHANGED <<repo, backend, read, statuses, changed_files>>
  BY DEF Cp!Looks, Cp!workspace, Cp!tree, Cp!status
<1>2. refresh = old
  BY <1>1 DEF StatusInv, RefreshTold
<1> HIDE DEF lost
<1>3. refresh' = [backend |-> refresh.backend, outdated |-> refresh.outdated, stage |-> "merged",
                  snapshot |-> refresh.snapshot, seen |-> refresh.seen, gone |-> lost]
  <2>1. refresh' = [old EXCEPT !.stage = "merged", !.gone = lost]
    BY <1>1, <1>2
  <2> QED
    BY <2>1
<1>4. /\ refresh'.backend = refresh.backend /\ refresh'.outdated = refresh.outdated
      /\ refresh'.stage = "merged" /\ refresh'.snapshot = refresh.snapshot
      /\ refresh'.seen = refresh.seen /\ refresh'.gone = lost
  BY <1>3
<1> HIDE DEF old
<1>5. RefreshTold'
  BY <1>1, <1>3, <1>4 DEF StatusInv, RefreshTold
<1> QED
  BY <1>1, <1>5 DEF StatusInv, WorkspaceFit, ReadTold

LEMMA StatusCompletes ==
  ASSUME StatusInv, Cp!Completes
  PROVE  StatusInv'
<1>1. CASE Cp!Overtaken
  <2>1. /\ refresh' = Cp!Started(backend)
        /\ UNCHANGED <<repo, backend, read, statuses, changed_files>>
    BY <1>1 DEF Cp!Overtaken, Cp!workspace, Cp!tree, Cp!status
  <2> QED
    BY <2>1, StatusStarted DEF StatusInv, WorkspaceFit, ReadTold
<1>2. CASE Cp!Failed
  BY <1>2 DEF Cp!Failed, Cp!workspace, Cp!tree, StatusInv, WorkspaceFit, RefreshTold, ReadTold
<1>3. CASE Cp!Applied
  <2> DEFINE E == refresh.snapshot.entries
             gone == refresh.gone
             b == refresh.backend
             r == refresh.seen
  <2>1. Told(E, b, r)
    BY <1>3 DEF Cp!Applied, Cp!Completes, StatusInv, RefreshTold
  <2>2. /\ statuses' = Cp!Statuses(Marked(E, gone))
        /\ changed_files' = Cp!ChangedFiles(Marked(E, gone), Cp!Missing(E, gone))
    BY <1>3 DEF Cp!Applied, Marked
  <2>3. /\ refresh' = Nothing /\ UNCHANGED <<repo, backend>>
        /\ read' = [repo |-> r, backend |-> b, gone |-> gone]
    BY <1>3 DEF Cp!Applied, Cp!workspace
  <2>4. read'.repo = r /\ read'.backend = b /\ read'.gone = gone
    BY <2>3
  <2> HIDE DEF E, gone, b, r
  <2>5. \E F : /\ Told(F, read'.backend, read'.repo)
               /\ statuses' = Cp!Statuses(Marked(F, read'.gone))
               /\ changed_files' = Cp!ChangedFiles(Marked(F, read'.gone), Cp!Missing(F, read'.gone))
    BY <2>1, <2>2, <2>4
  <2>6. ReadTold'
    BY <2>5 DEF ReadTold
  <2> QED
    BY <2>3, <2>6 DEF StatusInv, WorkspaceFit, RefreshTold
<1> QED
  BY <1>1, <1>2, <1>3 DEF Cp!Completes

(* The user leaves the status alone, or asks for another.                  *)
LEMMA StatusIntents ==
  ASSUME Cp!Intents
  PROVE  /\ UNCHANGED <<repo, backend, read, statuses, changed_files>>
         /\ refresh' = refresh \/ Cp!Request
<1>1. Cp!Intent => UNCHANGED <<repo, backend, read, statuses, changed_files>>
  BY DEF Cp!Intent, Cp!workspace, Cp!tree, Cp!status
<1>2. Cp!Intent /\ (refresh' = refresh \/ Cp!Request)
  <2>1. ASSUME NEW key \in Cp!Keys, Cp!Moves(key)
        PROVE  Cp!Intent /\ refresh' = refresh
    BY <2>1 DEF Cp!Moves
  <2>2. ASSUME NEW line \in Cp!Lines, Cp!Click(line)
        PROVE  Cp!Intent /\ refresh' = refresh
    BY <2>2 DEF Cp!Click
  <2>3. ASSUME NEW line \in Cp!Lines, Cp!RightClick(line)
        PROVE  Cp!Intent /\ refresh' = refresh
    BY <2>3 DEF Cp!RightClick, Cp!Untouched
  <2>4. Cp!ExpandOrDescend => Cp!Intent /\ refresh' = refresh
    BY DEF Cp!ExpandOrDescend, Cp!Untouched
  <2>5. Cp!CollapseOrAscend => Cp!Intent /\ refresh' = refresh
    BY DEF Cp!CollapseOrAscend, Cp!Untouched
  <2>6. Cp!ToggleTree => Cp!Intent /\ refresh' = refresh
    BY DEF Cp!ToggleTree, Cp!Untouched
  <2>7. Cp!ToggleChanged => Cp!Intent /\ refresh' = refresh
    BY DEF Cp!ToggleChanged
  <2>8. Cp!Reloads => Cp!Intent /\ Cp!Request
    BY DEF Cp!Reloads
  <2>9. Cp!SwitchFilesPane => Cp!Intent /\ refresh' = refresh
    BY DEF Cp!SwitchFilesPane
  <2>10. Cp!Resize => Cp!Intent /\ refresh' = refresh
    BY DEF Cp!Resize
  <2> QED
    BY <2>1, <2>2, <2>3, <2>4, <2>5, <2>6, <2>7, <2>8, <2>9, <2>10 DEF Cp!Intents
<1> QED
  BY <1>1, <1>2

LEMMA StatusNext ==
  ASSUME StatusAssumption, StatusInv, [Cp!Next]_(Cp!vars)
  PROVE  StatusInv'
<1>1. CASE UNCHANGED Cp!vars
  <2>1. UNCHANGED <<repo, backend, refresh, read, statuses, changed_files>>
    BY <1>1 DEF Cp!vars, Cp!workspace, Cp!tree, Cp!status
  <2> QED
    BY <2>1, StatusKept
<1>2. CASE Cp!Polls
  <2>1. Cp!Request /\ UNCHANGED <<repo, backend, read, statuses, changed_files>>
    BY <1>2 DEF Cp!Polls, Cp!workspace, Cp!tree, Cp!status
  <2> QED
    BY <2>1, StatusKept
<1>3. CASE Cp!FilesystemApplied
  <2>1. /\ UNCHANGED <<repo, backend, read, statuses, changed_files>>
        /\ \/ refresh' = refresh
           \/ refresh # Nothing /\ refresh' = [refresh EXCEPT !.outdated = TRUE]
    BY <1>3 DEF Cp!FilesystemApplied, Cp!workspace, Cp!status
  <2> QED
    BY <2>1, StatusKept
<1>4. CASE Cp!Inserted
  <2>1. UNCHANGED <<repo, backend, refresh, read, statuses, changed_files>>
    BY <1>4 DEF Cp!Inserted, Cp!workspace, Cp!tree, Cp!status
  <2> QED
    BY <2>1, StatusKept
<1>5. CASE Cp!Intents
  BY <1>5, StatusIntents, StatusKept
<1> QED
  BY <1>1, <1>2, <1>3, <1>4, <1>5, StatusEdits, StatusReads, StatusLooks, StatusCompletes
     DEF Cp!Next

(* In every run of the Files view, whatever becomes of the workspace, the  *)
(* list of changed files and the marks of the tree tell what the applied   *)
(* status command has found in git or Jujutsu (StatusTrue of ChangesPane): *)
(* parse_porcelain_v2() of src/src/vcs/git.rs, parse_templated_diff() of   *)
(* src/src/vcs/jj.rs, merge_workspace_status() of src/src/files/tree.rs.   *)
THEOREM PanesTellStatus == StatusAssumption => (Cp!Spec => []Cp!StatusTrue)
<1> SUFFICES ASSUME StatusAssumption
             PROVE  Cp!Spec => []Cp!StatusTrue
  OBVIOUS
<1>1. Cp!Init => StatusInv
  BY StatusStarts
<1>2. StatusInv /\ [Cp!Next]_(Cp!vars) => StatusInv'
  BY StatusNext
<1>3. StatusInv => Cp!StatusTrue
  <2>1. CASE read = Nothing
    BY <2>1 DEF Cp!StatusTrue
  <2>2. CASE read # Nothing
    BY <2>2, PaneStatusTells DEF StatusInv, ReadTold, StatusAssumption
  <2> QED
    BY <2>1, <2>2
<1> QED
  BY <1>1, <1>2, <1>3, PTL DEF Cp!Spec
=============================================================================
