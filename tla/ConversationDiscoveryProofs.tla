-------------------- MODULE ConversationDiscoveryProofs ---------------------
(***************************************************************************)
(* Proofs about ConversationDiscovery: what the index lists and what its   *)
(* watermark remembers agree, and a session whose file is as it was listed *)
(* stays on the list.  The last parts are about OpenCodeSource,            *)
(* ProjectLocalSource and StoreInventory.                                  *)
(*                                                                         *)
(* A page works on what it saw when it began, while the files change; all  *)
(* that keeps it from believing an old observation is that stamps grow.    *)
(* So the first invariant, DiscoveryInv, bounds every stamp that anything  *)
(* was noted at (Stamped), says what an unchanged finding and a failed one *)
(* leave of the old entry (Findings), keeps the batch tied to the findings *)
(* it was made of (Batched), and has two files that claim one session not  *)
(* hide it from each other (Distinct): without the last, the removal of    *)
(* one of them would take a session off the list whose other file is then  *)
(* passed over.  The second, StayInv, adds that what is known of a file    *)
(* makes every later scan reach the line that names its session.           *)
(***************************************************************************)
EXTENDS ConversationDiscovery, Sequences, TLAPS, FiniteSetTheorems, WellFoundedInduction

(***************************************************************************)
(* A file is chosen by its stamp, and stamps have a highest.               *)
(***************************************************************************)

LEMMA NewestIn ==
  ASSUME stamps \in [Files -> Stamps], NEW F \in SUBSET Files, F # {}
  PROVE  Newest(F) \in F
<1> DEFINE Gaps == {MaxEdits - stamps[f] : f \in F}
<1>1. \A f \in F : stamps[f] \in Nat /\ MaxEdits - stamps[f] \in Nat
  BY BoundsAssumption DEF Stamps
<1>2. Gaps \subseteq Nat /\ Gaps # {}
  BY <1>1
<1>3. PICK x \in Gaps : \A y \in Gaps : ~(<<y, x>> \in OpToRel(<, Nat))
  <2> HIDE DEF Gaps
  <2> QED
    BY <1>2, WFMin, NatLessThanWellFounded
<1>4. PICK f \in F : x = MaxEdits - stamps[f]
  OBVIOUS
<1>5. \A g \in F : stamps[g] <= stamps[f]
  <2>1. TAKE g \in F
  <2>2. MaxEdits - stamps[g] \in Gaps
    OBVIOUS
  <2>3. ~(MaxEdits - stamps[g] < MaxEdits - stamps[f])
    <3> HIDE DEF Gaps
    <3> QED
      BY <1>1, <1>3, <1>4, <2>2 DEF OpToRel
  <2> QED
    BY <1>1, <2>3, BoundsAssumption
<1> QED
  BY <1>5 DEF Newest

(***************************************************************************)
(* Types, by who changes them: the store (StoreTypes), the index           *)
(* (IndexTypes), and the page being read (PageTypes).                      *)
(***************************************************************************)

StoreTypes == /\ file \in [Files -> FileState \cup {None}]
              /\ hidden \subseteq Present \cap Hideable
              /\ edits \in Stamps
IndexTypes == /\ watermark \in [Files -> Entry \cup {None}]
              /\ list \in [Sessions -> Listing \cup {None}]
              /\ due \in BOOLEAN
              /\ strays \in SUBSET Sessions
              /\ contested \in SUBSET Sessions
PageTypes == /\ pc \in {"idle", "scanning", "extracting"}
             /\ todo \in SUBSET Files
             /\ stamps \in [Files -> Stamps]
             /\ unseen \in BOOLEAN
             /\ inspected \in 0..Limit
             /\ prepared \in [Files -> Finding \cup {None}]
             /\ page \in [candidates : SUBSET Files, next : [Files -> Entry \cup {None}],
                          removals : SUBSET Sessions, more : BOOLEAN]
             /\ extracted \in SUBSET Files
             /\ failed \in BOOLEAN
             /\ faults \in 0..MaxFaults

LEMMA TypesInParts == TypeOK <=> StoreTypes /\ IndexTypes /\ PageTypes
BY DEF TypeOK, StoreTypes, IndexTypes, PageTypes

LEMMA FileFields ==
  ASSUME StoreTypes, NEW f \in Present
  PROVE  /\ file[f] \in FileState
         /\ file[f].at \in Stamps /\ file[f].born \in Stamps
         /\ file[f].session \in Sessions \cup {NoSession}
         /\ file[f].len \in 0..2 /\ file[f].named \in 1..2
BY DEF StoreTypes, Present, FileState

LEMMA EntryFields ==
  ASSUME NEW e \in Entry
  PROVE  /\ e.at \in Stamps /\ e.born \in Stamps /\ e.offset \in 0..2
         /\ e.session \in Sessions \cup {NoSession}
         /\ e.complete \in BOOLEAN /\ e.rejected \in BOOLEAN
         /\ e.pending \in BOOLEAN /\ e.duplicate \in BOOLEAN
BY DEF Entry

LEMMA FoundFields ==
  ASSUME PageTypes, NEW f \in Looked
  PROVE  /\ prepared[f] \in Finding /\ prepared[f].entry \in Entry
         /\ prepared[f].at \in Stamps
         /\ prepared[f].changed \in BOOLEAN /\ prepared[f].error \in BOOLEAN
BY DEF PageTypes, Looked, Finding

LEMMA NextTypes ==
  ASSUME TypeOK
  PROVE  NextWatermark \in [Files -> Entry \cup {None}]
<1>1. ASSUME NEW f \in Looked, NEW d \in BOOLEAN
      PROVE  [prepared[f].entry EXCEPT !.duplicate = d] \in Entry
  BY <1>1, FoundFields, TypesInParts DEF Entry
<1>2. ASSUME NEW f \in Files
      PROVE  NextWatermark[f] \in Entry \cup {None}
  <2>1. CASE f \in Looked /\ Usable(f)
    <3> DEFINE d == prepared[f].entry.session \in Duplicates
    <3>1. d \in BOOLEAN
      OBVIOUS
    <3>2. [prepared[f].entry EXCEPT !.duplicate = d] \in Entry
      <4> HIDE DEF d
      <4> QED BY <1>1, <2>1, <3>1
    <3> QED
      BY <2>1, <3>2 DEF NextWatermark
  <2>2. CASE f \in Looked /\ ~Usable(f)
    BY <2>2, FoundFields, TypesInParts DEF NextWatermark
  <2>3. CASE f \notin Looked
    BY <2>3 DEF NextWatermark, TypeOK
  <2> QED
    BY <2>1, <2>2, <2>3
<1> QED
  BY <1>2 DEF NextWatermark

(***************************************************************************)
(* What a step does.                                                       *)
(***************************************************************************)

(* The job ends: nothing of the page is left.                              *)
LEMMA FinishEffect ==
  ASSUME TypeOK, Finish
  PROVE  /\ pc' = "idle" /\ Looked' = {} /\ todo' = {} /\ extracted' = {} /\ ~failed'
         /\ faults' \in 0..MaxFaults => PageTypes'
<1>1. NoPage \in [candidates : SUBSET Files, next : [Files -> Entry \cup {None}],
                  removals : SUBSET Sessions, more : BOOLEAN]
  BY DEF NoPage
<1>2. 0 \in Stamps /\ 0 \in 0..Limit
  BY BoundsAssumption, LimitAssumption DEF Stamps
<1>3. Looked' = {}
  BY DEF Finish, Looked
<1> QED
  BY <1>1, <1>2, <1>3 DEF Finish, PageTypes

(* An edit gives the file it makes a new stamp.                            *)
EditOf(f) == /\ edits' = edits + 1 /\ edits' \in Stamps
             /\ \A g \in Files \ {f} : file'[g] = file[g]
             /\ file'[f] = file[f] \/ file'[f] = None \/ file'[f].at = edits'

LEMMA EnvironmentEffect ==
  ASSUME TypeOK, Environment
  PROVE  /\ StoreTypes'
         /\ UNCHANGED <<index, pc, locals, faults>>
         /\ \E f \in Files : EditOf(f)
<1> USE DEF TypeOK
<1>1. PICK f \in Files : Write(f) \/ Grow(f) \/ Delete(f) \/ Hide(f) \/ Show(f)
  BY DEF Environment
<1>2. Edit
  BY <1>1 DEF Write, Grow, Delete, Hide, Show
<1>3. edits' = edits + 1 /\ edits' \in Stamps /\ edits + 1 \in Stamps
      /\ UNCHANGED <<index, pc, locals, faults>>
  BY <1>2, BoundsAssumption DEF Edit, Stamps
<1>4. PICK v \in FileState \cup {None} :
         /\ file' = [file EXCEPT ![f] = v]
         /\ v = file[f] \/ v = None \/ v.at = edits + 1
         /\ v = None => Delete(f) \/ v = file[f]
  <2>1. CASE Write(f)
    <3>1. PICK shape \in Shapes[f] :
             file' = [file EXCEPT ![f] = [session |-> shape.session, len |-> shape.len,
                                          named |-> shape.named,
                                          born |-> edits + 1, at |-> edits + 1]]
      BY <2>1 DEF Write
    <3>2. /\ shape.session \in Sessions \cup {NoSession}
          /\ shape.len \in 0..2 /\ shape.named \in 1..2
      BY StoreAssumption DEF Shape
    <3> DEFINE v == [session |-> shape.session, len |-> shape.len, named |-> shape.named,
                     born |-> edits + 1, at |-> edits + 1]
    <3>3. v \in FileState /\ v.at = edits + 1
      BY <1>3, <3>2 DEF FileState
    <3>4. v # None /\ file' = [file EXCEPT ![f] = v]
      BY <3>1, <3>3, NoneAssumption
    <3> HIDE DEF v
    <3> QED
      BY <3>3, <3>4
  <2>2. CASE Grow(f)
    <3>1. file[f] \in FileState /\ file[f].len = 1
      BY <2>2 DEF Grow, Present
    <3> DEFINE v == [file[f] EXCEPT !.len = @ + 1, !.at = edits + 1]
    <3>2. file' = [file EXCEPT ![f] = v]
      BY <2>2, <3>1 DEF Grow, FileState
    <3>3. v \in FileState /\ v.at = edits + 1
      <4>1. file[f].len + 1 \in 0..2 /\ edits + 1 \in Stamps
        BY <1>3, <3>1
      <4>2. \A n, m : n \in 0..2 /\ m \in Stamps =>
                /\ [file[f] EXCEPT !.len = n, !.at = m] \in FileState
                /\ [file[f] EXCEPT !.len = n, !.at = m].at = m
        BY <3>1 DEF FileState
      <4> QED
        BY <4>1, <4>2
    <3>4. v # None
      BY <3>3, NoneAssumption
    <3> HIDE DEF v
    <3> QED
      BY <3>2, <3>3, <3>4
  <2>3. CASE Delete(f)
    BY <2>3 DEF Delete
  <2>4. CASE Hide(f) \/ Show(f)
    <3>1. file' = [file EXCEPT ![f] = file[f]]
      BY <2>4 DEF Hide, Show
    <3> QED
      BY <3>1
  <2> QED
    BY <1>1, <2>1, <2>2, <2>3, <2>4
<1>5. EditOf(f) /\ file' \in [Files -> FileState \cup {None}]
  BY <1>3, <1>4 DEF EditOf
<1>6. hidden' \subseteq Present' \cap Hideable
  <2>1. CASE Delete(f)
    BY <1>4, <2>1 DEF Delete, Present
  <2>2. CASE ~Delete(f)
    <3>1. Present \subseteq Present'
      BY <1>4, <2>2 DEF Present
    <3> QED
      BY <1>1, <2>2, <3>1 DEF Write, Grow, Hide, Show, Readable
  <2> QED
    BY <2>1, <2>2
<1> QED
  BY <1>3, <1>5, <1>6 DEF StoreTypes
-----------------------------------------------------------------------------
(* Stamps grow.  What was noted of a file was noted at a stamp it had.     *)
Older(f, at) == at <= edits /\ (f \in Present => at <= file[f].at)
Stamped ==
    \A f \in Files :
        /\ f \in Present => file[f].at <= edits
        /\ Known(f) => Older(f, watermark[f].at)
        /\ f \in Looked \cup todo => /\ Older(f, stamps[f])
                                     /\ Known(f) => watermark[f].at <= stamps[f]
        /\ f \in Looked => Older(f, prepared[f].entry.at)

(* A page begins with nothing, and only with a watermark it can decode.    *)
Phases == /\ pc = "idle" => Looked = {}
          /\ pc # "extracting" => extracted = {} /\ ~failed
          /\ pc # "idle" => Decodable(watermark)

(* What is neither changed nor an error is as it was, and so is what an    *)
(* error names, whose file had changed.                                    *)
Faithful(f, r) ==
    IF r.error
    THEN r.entry.session # NoSession => /\ r.entry = watermark[f]
                                        /\ r.entry.complete => r.entry.at # stamps[f]
    ELSE ~r.changed /\ r.entry.complete => r.entry = watermark[f]
Findings == \A f \in Looked : Faithful(f, prepared[f])

(* The batch stays the page's until it is merged.                          *)
Batched ==
    pc = "extracting" =>
        /\ page.next = NextWatermark
        /\ page.removals = Removals
        /\ extracted \subseteq Candidates
        /\ page.candidates \subseteq Candidates
        /\ ~failed => Candidates = page.candidates \cup extracted

(* Two files that claim a session do not both hide it.                     *)
Distinct ==
    \A f \in Present : \A g \in Files \ {f} : \A s \in Sessions \ contested :
        PassesOver(f, s) => ~Names(watermark, g, s)


DiscoveryInv ==
    /\ TypeOK /\ Stamped /\ Phases /\ Findings /\ Batched
    /\ Distinct /\ Covered /\ Accounted

(***************************************************************************)
(* Looking at a file.                                                      *)
(***************************************************************************)

Sound(f, r) == r \in Finding /\ Older(f, r.entry.at) /\ Faithful(f, r)

LEMMA KnownEntry ==
  ASSUME TypeOK, NEW f \in Files, Known(f)
  PROVE  watermark[f] \in Entry
BY DEF TypeOK, Known

LEMMA FailingSound ==
  ASSUME TypeOK, NEW f \in Files, NEW e \in Entry, Older(f, e.at),
         e.session # NoSession => e = watermark[f] /\ (e.complete => e.at # stamps[f])
  PROVE  Sound(f, Failing(e, f))
BY DEF Failing, Sound, Finding, Faithful, TypeOK

LEMMA BlankSound ==
  ASSUME TypeOK, NEW f \in Files, NEW r \in BOOLEAN, Older(f, stamps[f])
  PROVE  Sound(f, Failing(Blank(f, r), f))
<1>1. Blank(f, r) \in Entry /\ Blank(f, r).at = stamps[f] /\ Blank(f, r).session = NoSession
  BY BoundsAssumption DEF Blank, Entry, TypeOK, Stamps
<1> QED
  BY <1>1, FailingSound

LEMMA KeptSound ==
  ASSUME TypeOK, NEW f \in Files, Known(f), Older(f, watermark[f].at)
  PROVE  Sound(f, Kept(f))
BY KnownEntry DEF Kept, Sound, Finding, Faithful, TypeOK

LEMMA ScannedEntry ==
  ASSUME TypeOK, NEW f \in Present
  PROVE  Scanned(f) \in Entry /\ Scanned(f).at = file[f].at
<1>1. f \in Files
  BY DEF Present
<1>2. file[f] \in FileState
  BY FileFields, TypesInParts
<1>3. Start(f) \in 0..1
  <2>1. CASE Known(f) /\ watermark[f].offset \in 1..(file[f].len - 1)
    <3>1. watermark[f].offset \in 0..2 /\ file[f].len \in 0..2
      BY <1>1, <1>2, <2>1, KnownEntry, EntryFields DEF FileState
    <3>2. watermark[f].offset \in 0..1
      BY <2>1, <3>1
    <3> QED
      BY <3>2 DEF Start
  <2>2. CASE ~(Known(f) /\ watermark[f].offset \in 1..(file[f].len - 1))
    BY <2>2 DEF Start
  <2> QED
    BY <2>1, <2>2
<1> DEFINE read == Start(f) + 1
           named == file[f].named <= read
           whole == read = file[f].len
<1>4. read \in 0..2 /\ named \in BOOLEAN /\ (~named) \in BOOLEAN /\ whole \in BOOLEAN
  BY <1>3
<1>5. Scanned(f) = [at |-> file[f].at, born |-> file[f].born, offset |-> read,
                    session |-> IF named THEN file[f].session ELSE NoSession,
                    pending |-> ~named, complete |-> whole,
                    rejected |-> FALSE, duplicate |-> FALSE]
  BY DEF Scanned
<1>6. (IF named THEN file[f].session ELSE NoSession) \in Sessions \cup {NoSession}
  BY <1>2 DEF FileState
<1>7. file[f].at \in Stamps /\ file[f].born \in Stamps
  BY <1>2 DEF FileState
<1> HIDE DEF read, named, whole
<1> QED
  BY <1>4, <1>5, <1>6, <1>7 DEF Entry

LEMMA LookEffect ==
  ASSUME TypeOK, Stamped, Phases, LookAtNext
  PROVE  /\ UNCHANGED <<store, index, pc, stamps, unseen, extracted, failed>>
         /\ pc = "scanning"
         /\ PageTypes'
         /\ \E f \in todo : /\ todo' = todo \ {f}
                            /\ \A g \in Files \ {f} : prepared'[g] = prepared[g]
                            /\ prepared'[f] # None => Sound(f, prepared'[f])
<1> DEFINE f == Newest(todo)
<1>1. f \in todo /\ f \in Files
  BY NewestIn DEF LookAtNext, TypeOK
<1>2. /\ UNCHANGED <<store, index, pc, stamps, unseen, extracted, failed>>
      /\ pc = "scanning"
      /\ \/ Skip(f) /\ UNCHANGED faults
         \/ Postpone(f) /\ UNCHANGED faults
         \/ Inspect(f)
  BY DEF LookAtNext
<1> HIDE DEF f
<1>3. Known(f) => Older(f, watermark[f].at)
  BY <1>1 DEF Stamped
<1>4. Older(f, stamps[f]) /\ (f \in Present => file[f].at <= edits)
  BY <1>1 DEF Stamped
<1>5. PICK r : Prepare(f, r) /\ (r # None => Sound(f, r))
  <2>1. CASE Skip(f)
    <3>1. CASE watermark[f].rejected
      <4>1. Known(f) /\ watermark[f] \in Entry /\ watermark[f].session = NoSession
        BY <1>1, <1>2, <2>1, <3>1, KnownEntry DEF Skip, Phases, Decodable, Decodes, Known
      <4>2. Prepare(f, Failing(watermark[f], f))
        BY <2>1, <3>1 DEF Skip
      <4> QED
        BY <1>1, <1>3, <4>1, <4>2, FailingSound
    <3>2. CASE ~watermark[f].rejected
      BY <1>1, <1>3, <2>1, <3>2, KeptSound DEF Skip
    <3> QED
      BY <3>1, <3>2
  <2>2. CASE Postpone(f)
    BY <1>1, <1>3, <2>2, KeptSound DEF Postpone
  <2>3. CASE Inspect(f) /\ ReadFails(f)
    <3>1. CASE Known(f)
      <4>1. ~Settles(watermark[f], stamps[f]) /\ watermark[f] \in Entry
        BY <1>1, <2>3, <3>1, KnownEntry DEF Inspect
      <4>2. watermark[f].complete => watermark[f].at # stamps[f]
        BY <4>1 DEF Settles
      <4>3. Prepare(f, Failing(watermark[f], f))
        BY <2>3, <3>1 DEF ReadFails
      <4> QED
        BY <1>1, <1>3, <3>1, <4>1, <4>2, <4>3, FailingSound
    <3>2. CASE ~Known(f)
      BY <1>1, <1>4, <2>3, <3>2, BlankSound DEF ReadFails
    <3> QED
      BY <3>1, <3>2
  <2>4. CASE Inspect(f) /\ ScanFile(f)
    <3>1. f \in Present
      BY <2>4 DEF ScanFile, Readable
    <3>2. CASE Prepare(f, Failing(Blank(f, FALSE), f)) \/ Prepare(f, Failing(Blank(f, TRUE), f))
      BY <1>1, <1>4, <3>2, BlankSound
    <3>3. CASE Prepare(f, [entry |-> Scanned(f), at |-> Scanned(f).at, error |-> FALSE,
                           changed |-> Scanned(f).complete])
      <4> DEFINE r == [entry |-> Scanned(f), at |-> Scanned(f).at, error |-> FALSE,
                       changed |-> Scanned(f).complete]
      <4>1. /\ Scanned(f) \in Entry /\ Scanned(f).at = file[f].at
            /\ Scanned(f).at \in Stamps /\ Scanned(f).complete \in BOOLEAN
        BY <3>1, ScannedEntry, EntryFields
      <4>2. r \in Finding
        BY <4>1 DEF Finding
      <4>3. Older(f, r.entry.at)
        BY <1>4, <3>1, <4>1, FileFields, TypesInParts DEF Older, Stamps
      <4>4. Faithful(f, r)
        BY <4>1 DEF Faithful
      <4> QED
        BY <3>3, <4>2, <4>3, <4>4 DEF Sound
    <3> QED
      BY <2>4, <3>2, <3>3 DEF ScanFile
  <2> QED
    BY <1>2, <2>1, <2>2, <2>3, <2>4 DEF Inspect
<1>6. todo' = todo \ {f} /\ prepared' = [prepared EXCEPT ![f] = r]
  BY <1>5 DEF Prepare
<1>7. prepared' \in [Files -> Finding \cup {None}]
  BY <1>5, <1>6 DEF TypeOK, Sound
<1>8. /\ inspected' \in 0..Limit /\ faults' \in 0..MaxFaults
      /\ page' \in [candidates : SUBSET Files, next : [Files -> Entry \cup {None}],
                    removals : SUBSET Sessions, more : BOOLEAN]
  <2>1. inspected' = inspected \/ (inspected' = inspected + 1 /\ inspected < Limit)
    BY <1>2 DEF Skip, Postpone, Inspect
  <2>2. faults' = faults \/ Fault
    BY <1>2 DEF Inspect, ReadFails
  <2>3. \/ UNCHANGED page
        \/ page' = [page EXCEPT !.more = TRUE]
        \/ page' = [page EXCEPT !.more = @ \/ ~Scanned(f).complete]
    BY <1>2 DEF Skip, Postpone, Inspect, ScanFile
  <2>4. (page.more \/ ~Scanned(f).complete) \in BOOLEAN
    OBVIOUS
  <2>5. page' \in [candidates : SUBSET Files, next : [Files -> Entry \cup {None}],
                   removals : SUBSET Sessions, more : BOOLEAN]
    BY <2>3, <2>4 DEF TypeOK
  <2> QED
    BY <2>1, <2>2, <2>5, LimitAssumption, BoundsAssumption DEF TypeOK, Fault
<1> QED
  BY <1>1, <1>2, <1>5, <1>6, <1>7, <1>8 DEF PageTypes, TypeOK

LEMMA TypesInPartsNext == TypeOK' <=> (StoreTypes' /\ IndexTypes' /\ PageTypes')
BY DEF TypeOK, StoreTypes, IndexTypes, PageTypes

(***************************************************************************)
(* The steps before the page is merged leave the index as it is.           *)
(***************************************************************************)

LEMMA SameIndex ==
  ASSUME UNCHANGED <<watermark, list, strays, contested>>, Distinct, Covered, Accounted,
         \A f \in Files, s \in Sessions :
            f \in Present' /\ PassesOver(f, s)' => f \in Present /\ PassesOver(f, s)
  PROVE  Distinct' /\ Covered' /\ Accounted'
<1>1. \A f \in Files, s \in Sessions : Names(watermark, f, s)' <=> Names(watermark, f, s)
  BY DEF Names
<1>2. \A f \in Present' : f \in Files
  BY DEF Present
<1>3. Distinct'
  BY <1>1, <1>2 DEF Distinct
<1>4. Covered'
  BY <1>2 DEF Covered, Listed
<1>5. Accounted'
  BY <1>1 DEF Accounted, Listed
<1> QED
  BY <1>3, <1>4, <1>5

LEMMA SameStore ==
  ASSUME UNCHANGED <<file, watermark, list, strays, contested>>, Distinct, Covered, Accounted
  PROVE  Distinct' /\ Covered' /\ Accounted'
<1>1. Present' = Present
  BY DEF Present
<1>2. \A f, s : PassesOver(f, s)' => PassesOver(f, s)
  BY DEF PassesOver, Names, Settles
<1> QED
  BY <1>1, <1>2, SameIndex

LEMMA SamePage ==
  ASSUME UNCHANGED <<watermark, pc, stamps, unseen, prepared, page, extracted, failed>>,
         Phases, Findings, Batched
  PROVE  Phases' /\ Findings' /\ Batched'
<1>1. Looked' = Looked /\ NextWatermark' = NextWatermark /\ Removals' = Removals
      /\ Candidates' = Candidates
  BY DEF Looked, NextWatermark, Removals, Candidates, Usable, Duplicates, Claims, Names
<1>2. Phases'
  BY <1>1 DEF Phases, Decodable
<1>3. Findings'
  BY <1>1 DEF Findings, Faithful
<1>4. Batched'
  BY <1>1 DEF Batched
<1> QED
  BY <1>2, <1>3, <1>4

(* An edit does not make an old entry current.                             *)
LEMMA EnvironmentInv ==
  ASSUME DiscoveryInv, Environment
  PROVE  DiscoveryInv'
<1> USE DEF DiscoveryInv
<1>1. PICK f \in Files : EditOf(f)
  BY EnvironmentEffect
<1>2. StoreTypes' /\ UNCHANGED <<index, pc, locals, faults>>
  BY EnvironmentEffect
<1>3. TypeOK'
  <2>1. IndexTypes' /\ PageTypes'
    BY <1>2, TypesInParts DEF index, history, locals, IndexTypes, PageTypes
  <2> QED
    BY <1>2, <2>1, TypesInPartsNext
<1>4. \A g \in Present : file[g].at \in Stamps
  BY FileFields, TypesInParts
<1>5. edits \in Nat /\ edits' = edits + 1
  BY <1>1 DEF EditOf, TypeOK, Stamps
<1>6. ASSUME NEW g \in Files, NEW at \in Stamps, Older(g, at) PROVE Older(g, at)'
  BY <1>1, <1>5, <1>6 DEF EditOf, Older, Present, Stamps
<1>7. Stamped'
  <2> SUFFICES ASSUME NEW g \in Files
               PROVE  /\ g \in Present' => file'[g].at <= edits'
                      /\ Known(g)' => Older(g, watermark[g].at)'
                      /\ g \in (Looked \cup todo)' =>
                            Older(g, stamps[g])' /\ (Known(g)' => watermark'[g].at <= stamps'[g])
                      /\ g \in Looked' => Older(g, prepared[g].entry.at)'
    BY DEF Stamped
  <2>1. UNCHANGED <<watermark, todo, stamps, prepared>> /\ Looked' = Looked
        /\ (Known(g)' <=> Known(g))
    BY <1>2 DEF index, locals, Looked, Known
  <2>2. g \in Present' => file'[g].at <= edits'
    BY <1>1, <1>4, <1>5 DEF EditOf, Present, Stamped, Stamps
  <2>3. Known(g)' => Older(g, watermark[g].at)'
    <3>1. Known(g) => watermark[g].at \in Stamps /\ Older(g, watermark[g].at)
      BY KnownEntry, EntryFields DEF Stamped
    <3>2. Known(g) => Older(g, watermark[g].at)'
      BY <1>6, <2>1, <3>1 DEF Older
    <3> QED
      BY <2>1, <3>2
  <2>4. g \in Looked \cup todo => Older(g, stamps[g])'
    <3>1. stamps[g] \in Stamps
      BY DEF TypeOK
    <3> QED
      BY <1>6, <2>1, <3>1 DEF Stamped, Older
  <2>5. g \in Looked => Older(g, prepared[g].entry.at)'
    <3>1. g \in Looked => prepared[g].entry.at \in Stamps
      BY FoundFields, EntryFields, TypesInParts
    <3> QED
      BY <1>6, <2>1, <3>1 DEF Stamped, Older
  <2> QED
    BY <2>1, <2>2, <2>3, <2>4, <2>5 DEF Stamped
<1>8. Phases' /\ Findings' /\ Batched'
  BY <1>2, SamePage DEF index, locals
<1>9. ASSUME NEW g \in Present', NEW s \in Sessions, PassesOver(g, s)'
      PROVE  g \in Present /\ PassesOver(g, s)
  <2>1. UNCHANGED watermark /\ g \in Files
    BY <1>2 DEF index, Present
  <2>2. Known(g) /\ watermark[g].at = file'[g].at
    BY <1>9, <2>1 DEF PassesOver, Names, Settles, Known
  <2>3. watermark[g].at <= edits /\ watermark[g].at \in Nat
    BY <2>1, <2>2, KnownEntry, EntryFields DEF Stamped, Older, Stamps
  <2>4. file'[g] = file[g]
    BY <1>1, <1>5, <1>9, <2>1, <2>2, <2>3 DEF EditOf, Present
  <2> QED
    BY <1>9, <2>1, <2>4 DEF PassesOver, Names, Settles, Present
<1>10. Distinct' /\ Covered' /\ Accounted'
  <2>1. UNCHANGED <<watermark, list, strays, contested>>
    BY <1>2 DEF index, history
  <2> QED
    BY <1>9, <2>1, SameIndex
<1> QED
  BY <1>3, <1>7, <1>8, <1>10

(* The file may be looked at again.                                        *)
LEMMA RefreshInv ==
  ASSUME DiscoveryInv, Refresh
  PROVE  DiscoveryInv'
<1> USE DEF DiscoveryInv
<1>1. UNCHANGED <<store, watermark, list, history, pc, locals, faults>> /\ due' = TRUE
  BY DEF Refresh
<1>2. TypeOK'
  BY <1>1 DEF TypeOK, store, history, locals, Present
<1>3. Stamped'
  BY <1>1 DEF Stamped, Older, Known, Looked, Present, store, locals
<1>4. Phases' /\ Findings' /\ Batched'
  BY <1>1, SamePage DEF locals
<1>5. Distinct' /\ Covered' /\ Accounted'
  BY <1>1, SameStore DEF store, history
<1> QED
  BY <1>2, <1>3, <1>4, <1>5

LEMMA StartPageInv ==
  ASSUME DiscoveryInv, StartPage
  PROVE  DiscoveryInv'
<1> USE DEF DiscoveryInv
<1>1. /\ pc = "idle" /\ pc' = "scanning" /\ todo' = Readable /\ Decodable(watermark)
      /\ stamps' = [f \in Files |-> IF f \in Readable THEN file[f].at ELSE 0]
      /\ unseen' = (hidden # {}) /\ due' = FALSE
      /\ UNCHANGED <<store, watermark, list, history, inspected, prepared, page, extracted,
                     failed, faults>>
  BY DEF StartPage
<1>2. Looked = {} /\ Looked' = {} /\ extracted = {} /\ ~failed
  BY <1>1 DEF Phases, Looked
<1>3. \A f \in Readable : f \in Files /\ f \in Present /\ file[f].at \in Stamps
  BY FileFields, TypesInParts DEF Readable, Present
<1>4. TypeOK'
  <2>1. StoreTypes' /\ IndexTypes'
    BY <1>1, TypesInParts DEF StoreTypes, IndexTypes, store, history, Present
  <2>2. stamps' \in [Files -> Stamps]
    BY <1>1, <1>3, BoundsAssumption DEF Stamps
  <2>3. unseen' \in BOOLEAN /\ todo' \in SUBSET Files
    BY <1>1, <1>3
  <2>4. PageTypes'
    BY <1>1, <2>2, <2>3, TypesInParts DEF PageTypes
  <2> QED
    BY <2>1, <2>4, TypesInPartsNext
<1>5. Stamped'
  <2> SUFFICES ASSUME NEW f \in Files
               PROVE  /\ f \in Present' => file'[f].at <= edits'
                      /\ Known(f)' => Older(f, watermark[f].at)'
                      /\ f \in todo' => /\ Older(f, stamps[f])'
                                        /\ Known(f)' => watermark'[f].at <= stamps'[f]
    BY <1>2 DEF Stamped
  <2>1. UNCHANGED <<file, edits, watermark>> /\ (Known(f)' <=> Known(f)) /\ Present' = Present
    BY <1>1 DEF store, Known, Present
  <2>2. f \in todo' => f \in Present /\ stamps'[f] = file[f].at /\ file[f].at \in Nat
    BY <1>1, <1>3 DEF Stamps
  <2> QED
    BY <2>1, <2>2 DEF Stamped, Older
<1>6. Phases' /\ Findings' /\ Batched'
  BY <1>1, <1>2 DEF Phases, Findings, Batched, Decodable
<1>7. Distinct' /\ Covered' /\ Accounted'
  BY <1>1, SameStore DEF store, history
<1> QED
  BY <1>4, <1>5, <1>6, <1>7

LEMMA PurgeInv ==
  ASSUME DiscoveryInv, Purge
  PROVE  DiscoveryInv'
<1> USE DEF DiscoveryInv
<1>1. /\ watermark' = [f \in Files |-> None] /\ list' = [s \in Sessions |-> None]
      /\ strays' = {} /\ contested' = {} /\ pc = "idle"
      /\ UNCHANGED <<store, due, pc, locals, faults>>
  BY DEF Purge
<1>2. Looked = {} /\ Looked' = {} /\ extracted = {} /\ ~failed
  BY <1>1 DEF Phases, Looked, locals
<1>3. TypeOK'
  BY <1>1 DEF TypeOK, store, locals, Present
<1>4. Stamped'
  BY <1>1, <1>2 DEF Stamped, Older, Known, Present, store, locals
<1>5. Phases' /\ Findings' /\ Batched'
  BY <1>1, <1>2 DEF Phases, Findings, Batched, locals
<1>6. \A f \in Files : \A s : ~Names(watermark', f, s)
  BY <1>1 DEF Names
<1>7. \A s \in Sessions : ~Listed(s)'
  BY <1>1 DEF Listed
<1>8. \A f \in Present' : f \in Files
  BY DEF Present
<1>9. Distinct'
  BY <1>6, <1>8 DEF Distinct, PassesOver
<1>10. Covered'
  BY <1>6, <1>8 DEF Covered, PassesOver
<1>11. Accounted'
  BY <1>7 DEF Accounted
<1> QED
  BY <1>3, <1>4, <1>5, <1>9, <1>10, <1>11

LEMMA LookInv ==
  ASSUME DiscoveryInv, LookAtNext
  PROVE  DiscoveryInv'
<1> USE DEF DiscoveryInv
<1>1. /\ UNCHANGED <<store, index, pc, stamps, unseen, extracted, failed>>
      /\ pc = "scanning" /\ PageTypes'
  BY LookEffect
<1>2. PICK f \in todo : /\ todo' = todo \ {f}
                        /\ \A g \in Files \ {f} : prepared'[g] = prepared[g]
                        /\ prepared'[f] # None => Sound(f, prepared'[f])
  BY LookEffect
<1>3. f \in Files
  BY DEF TypeOK
<1>4. TypeOK'
  <2>1. StoreTypes' /\ IndexTypes'
    BY <1>1, TypesInParts DEF StoreTypes, IndexTypes, store, index, history, Present
  <2> QED
    BY <1>1, <2>1, TypesInPartsNext
<1>5. /\ Looked' \subseteq Looked \cup {f}
      /\ f \in Looked' => Sound(f, prepared'[f])
      /\ \A g \in Looked' \ {f} : g \in Looked /\ prepared'[g] = prepared[g]
  <2>1. \A g \in Looked' : prepared'[g] # None
    BY DEF Looked
  <2>2. \A g \in Files : (prepared[g] # None) => (g \in Looked)
    BY DEF Looked
  <2>3. \A g \in Looked' : g \in Files
    BY DEF Looked
  <2>4. \A g \in Looked' \ {f} : g \in Looked /\ prepared'[g] = prepared[g]
    BY <1>2, <2>1, <2>2, <2>3
  <2>5. f \in Looked' => Sound(f, prepared'[f])
    BY <1>2, <1>3, <2>1
  <2> QED
    BY <2>4, <2>5
<1>6. Stamped'
  <2> SUFFICES ASSUME NEW g \in Files
               PROVE  /\ g \in Present' => file'[g].at <= edits'
                      /\ Known(g)' => Older(g, watermark[g].at)'
                      /\ g \in (Looked \cup todo)' =>
                            Older(g, stamps[g])' /\ (Known(g)' => watermark'[g].at <= stamps'[g])
                      /\ g \in Looked' => Older(g, prepared[g].entry.at)'
    BY DEF Stamped
  <2>1. UNCHANGED <<file, edits, watermark, stamps>> /\ Present' = Present
        /\ (Known(g)' <=> Known(g))
    BY <1>1 DEF store, index, Known, Present
  <2>2. g \in (Looked \cup todo)' => g \in Looked \cup todo
    BY <1>2, <1>5
  <2>3. \A at : Older(g, at) => Older(g, at)'
    BY <2>1 DEF Older
  <2>4. g \in Looked' => Older(g, prepared'[g].entry.at)
    BY <1>5 DEF Stamped, Sound
  <2>5. g \in Looked' => Older(g, prepared[g].entry.at)'
    BY <2>1, <2>4 DEF Older
  <2> QED
    BY <2>1, <2>2, <2>5 DEF Stamped, Older
<1>7. Phases' /\ Batched'
  BY <1>1 DEF Phases, Batched, Decodable, index
<1>8. Findings'
  <2> SUFFICES ASSUME NEW g \in Looked' PROVE Faithful(g, prepared[g])'
    BY DEF Findings
  <2>1. Faithful(g, prepared'[g])
    BY <1>5 DEF Findings, Sound
  <2> QED
    BY <1>1, <2>1 DEF Faithful, index
<1>9. Distinct' /\ Covered' /\ Accounted'
  BY <1>1, SameStore DEF store, index, history
<1> QED
  BY <1>4, <1>6, <1>7, <1>8, <1>9

LEMMA BatchInv ==
  ASSUME DiscoveryInv, Batch
  PROVE  DiscoveryInv'
<1> USE DEF DiscoveryInv
<1>1. /\ pc = "scanning" /\ pc' = "extracting"
      /\ page' = [candidates |-> Candidates, next |-> NextWatermark, removals |-> Removals,
                  more |-> page.more]
      /\ UNCHANGED <<store, index, todo, stamps, unseen, inspected, prepared, extracted,
                     failed, faults>>
  BY DEF Batch
<1>2. page.more \in BOOLEAN /\ Candidates \in SUBSET Files /\ Removals \in SUBSET Sessions
  BY DEF TypeOK, Candidates, Looked, Removals
<1>3. /\ page'.candidates = Candidates /\ page'.next = NextWatermark
      /\ page'.removals = Removals
      /\ page' \in [candidates : SUBSET Files, next : [Files -> Entry \cup {None}],
                    removals : SUBSET Sessions, more : BOOLEAN]
  BY <1>1, <1>2, NextTypes
<1>4. TypeOK'
  <2>1. StoreTypes' /\ IndexTypes'
    BY <1>1, TypesInParts DEF StoreTypes, IndexTypes, store, index, history, Present
  <2>2. PageTypes'
    BY <1>1, <1>3, TypesInParts DEF PageTypes
  <2> QED
    BY <2>1, <2>2, TypesInPartsNext
<1>5. Stamped'
  BY <1>1 DEF Stamped, Older, Known, Looked, Present, store, index
<1>6. Looked' = Looked /\ NextWatermark' = NextWatermark /\ Removals' = Removals
      /\ Candidates' = Candidates
  BY <1>1 DEF Looked, NextWatermark, Removals, Candidates, Usable, Duplicates, Claims, Names,
              index
<1>7. Phases'
  BY <1>1, <1>6 DEF Phases, Decodable, index
<1>8. Findings'
  BY <1>1, <1>6 DEF Findings, Faithful, index
<1>9. Batched'
  BY <1>1, <1>3, <1>6 DEF Batched, Phases
<1>10. Distinct' /\ Covered' /\ Accounted'
  BY <1>1, SameStore DEF store, index, history
<1> QED
  BY <1>4, <1>5, <1>7, <1>8, <1>9, <1>10

LEMMA ExtractInv ==
  ASSUME DiscoveryInv, Extract
  PROVE  DiscoveryInv'
<1> USE DEF DiscoveryInv
<1> DEFINE f == Newest(page.candidates)
<1>1. f \in page.candidates /\ f \in Files
  <2>1. page.candidates \in SUBSET Files /\ page.candidates # {}
    BY DEF Extract, TypeOK
  <2> QED
    BY <2>1, NewestIn DEF TypeOK
<1>2. /\ pc = "extracting" /\ pc' = pc
      /\ page' = [page EXCEPT !.candidates = @ \ {f}]
      /\ \/ extracted' = extracted \cup {f} /\ failed' = failed
         \/ failed' = TRUE /\ extracted' = extracted
      /\ UNCHANGED <<store, index, todo, stamps, unseen, inspected, prepared, faults>>
  BY DEF Extract
<1> HIDE DEF f
<1>3. /\ page'.candidates = page.candidates \ {f}
      /\ page'.next = page.next /\ page'.removals = page.removals
      /\ page' \in [candidates : SUBSET Files, next : [Files -> Entry \cup {None}],
                    removals : SUBSET Sessions, more : BOOLEAN]
  BY <1>2 DEF TypeOK
<1>4. TypeOK'
  <2>1. StoreTypes' /\ IndexTypes'
    BY <1>2, TypesInParts DEF StoreTypes, IndexTypes, store, index, history, Present
  <2>2. PageTypes'
    BY <1>1, <1>2, <1>3, TypesInParts DEF PageTypes
  <2> QED
    BY <2>1, <2>2, TypesInPartsNext
<1>5. Stamped'
  BY <1>2 DEF Stamped, Older, Known, Looked, Present, store, index
<1>6. Looked' = Looked /\ NextWatermark' = NextWatermark /\ Removals' = Removals
      /\ Candidates' = Candidates
  BY <1>2 DEF Looked, NextWatermark, Removals, Candidates, Usable, Duplicates, Claims, Names,
              index
<1>7. Phases'
  BY <1>2, <1>6 DEF Phases, Decodable, index
<1>8. Findings'
  BY <1>2, <1>6 DEF Findings, Faithful, index
<1>9. Batched'
  BY <1>1, <1>2, <1>3, <1>6 DEF Batched
<1>10. Distinct' /\ Covered' /\ Accounted'
  BY <1>2, SameStore DEF store, index, history
<1> QED
  BY <1>4, <1>5, <1>7, <1>8, <1>9, <1>10

LEMMA AbandonInv ==
  ASSUME DiscoveryInv, Abandon
  PROVE  DiscoveryInv'
<1> USE DEF DiscoveryInv
<1>1. /\ Finish /\ due' = TRUE /\ Fault /\ UNCHANGED <<store, watermark, list, history>>
  BY DEF Abandon
<1>2. /\ pc' = "idle" /\ Looked' = {} /\ todo' = {} /\ extracted' = {} /\ ~failed'
      /\ faults' \in 0..MaxFaults => PageTypes'
  BY <1>1, FinishEffect
<1>3. faults' \in 0..MaxFaults
  BY <1>1, BoundsAssumption DEF Fault, TypeOK
<1>4. TypeOK'
  <2>1. StoreTypes' /\ IndexTypes'
    BY <1>1, TypesInParts DEF StoreTypes, IndexTypes, store, history, Present
  <2> QED
    BY <1>2, <1>3, <2>1, TypesInPartsNext
<1>5. Stamped'
  BY <1>1, <1>2 DEF Stamped, Older, Known, Present, store
<1>6. Phases' /\ Findings' /\ Batched'
  BY <1>2 DEF Phases, Findings, Batched
<1>7. Distinct' /\ Covered' /\ Accounted'
  BY <1>1, SameStore DEF store, history
<1> QED
  BY <1>4, <1>5, <1>6, <1>7
-----------------------------------------------------------------------------
(***************************************************************************)
(* Merging the page.                                                       *)
(***************************************************************************)

(* What the page will remember of a file.                                  *)
LEMMA NextEntry ==
  ASSUME TypeOK, NEW f \in Looked
  PROVE  /\ NextWatermark[f] # None
         /\ NextWatermark[f].session = prepared[f].entry.session
         /\ NextWatermark[f].at = prepared[f].entry.at
         /\ NextWatermark[f].complete = prepared[f].entry.complete
         /\ NextWatermark[f].born = prepared[f].entry.born
         /\ NextWatermark[f].offset = prepared[f].entry.offset
         /\ Usable(f) => NextWatermark[f].duplicate = (prepared[f].entry.session \in Duplicates)
         /\ ~Usable(f) => NextWatermark[f] = prepared[f].entry
<1>1. prepared[f].entry \in Entry /\ f \in Files
  BY FoundFields, TypesInParts DEF Looked
<1>2. NextWatermark[f] =
        IF Usable(f)
        THEN [prepared[f].entry EXCEPT !.duplicate = prepared[f].entry.session \in Duplicates]
        ELSE prepared[f].entry
  BY <1>1 DEF NextWatermark
<1> DEFINE d == prepared[f].entry.session \in Duplicates
<1>3. d \in BOOLEAN
  OBVIOUS
<1>4. ASSUME NEW x \in BOOLEAN
      PROVE  LET e == [prepared[f].entry EXCEPT !.duplicate = x] IN
             /\ e \in Entry /\ e.duplicate = x
             /\ e.session = prepared[f].entry.session /\ e.at = prepared[f].entry.at
             /\ e.complete = prepared[f].entry.complete
             /\ e.born = prepared[f].entry.born /\ e.offset = prepared[f].entry.offset
  BY <1>1 DEF Entry
<1>5. CASE Usable(f)
  <2>1. NextWatermark[f] = [prepared[f].entry EXCEPT !.duplicate = d]
    BY <1>2, <1>5
  <2> HIDE DEF d
  <2>2. /\ NextWatermark[f] \in Entry /\ NextWatermark[f].duplicate = d
        /\ NextWatermark[f].session = prepared[f].entry.session
        /\ NextWatermark[f].at = prepared[f].entry.at
        /\ NextWatermark[f].complete = prepared[f].entry.complete
        /\ NextWatermark[f].born = prepared[f].entry.born
        /\ NextWatermark[f].offset = prepared[f].entry.offset
    BY <1>3, <1>4, <2>1
  <2> QED
    BY <1>5, <2>2, NoneAssumption DEF d
<1>6. CASE ~Usable(f)
  BY <1>1, <1>2, <1>6, NoneAssumption
<1> QED
  BY <1>5, <1>6

LEMMA UnlookedEntry ==
  ASSUME NEW f \in Files, f \notin Looked
  PROVE  NextWatermark[f] = IF unseen THEN watermark[f] ELSE None
BY DEF NextWatermark

(* Two of the files looked at that claim a session make it a duplicate.    *)
LEMMA TwoClaims ==
  ASSUME NEW s \in Sessions, NEW f \in Looked, NEW g \in Looked, f # g,
         prepared[f].entry.session = s, prepared[g].entry.session = s
  PROVE  s \in Duplicates
<1>1. {f, g} \subseteq Claims(s) /\ Claims(s) \subseteq Files
  BY DEF Claims, Looked
<1>2. IsFiniteSet(Claims(s))
  BY <1>1, FS_Subset, StoreAssumption
<1>3. Cardinality({f, g}) = 2
  <2>1. IsFiniteSet({g}) /\ Cardinality({g}) = 1
    BY FS_Singleton
  <2>2. {f, g} = {g} \cup {f} /\ f \notin {g}
    OBVIOUS
  <2>3. Cardinality({g} \cup {f}) = Cardinality({g}) + 1
    BY <2>1, <2>2, FS_AddElement
  <2> QED
    BY <2>1, <2>2, <2>3
<1>4. Cardinality({f, g}) <= Cardinality(Claims(s))
  BY <1>1, <1>2, FS_Subset
<1>5. Cardinality(Claims(s)) \in Nat
  BY <1>2, FS_CardinalityType
<1> QED
  BY <1>3, <1>4, <1>5 DEF Duplicates

LEMMA MergeEffect ==
  ASSUME DiscoveryInv, Merge
  PROVE  /\ list' = Merged
         /\ watermark' = IF failed THEN watermark ELSE NextWatermark
         /\ page.removals = Removals
         /\ extracted \subseteq Candidates /\ (~failed => extracted = Candidates)
         /\ Finish /\ UNCHANGED <<store, faults>> /\ due' \in BOOLEAN
  <1>1. pc = "extracting" /\ page.candidates = {}
    BY DEF Merge
  <1>2. page.more \in BOOLEAN /\ failed \in BOOLEAN
    BY DEF DiscoveryInv, TypeOK
  <1> QED
    BY <1>1, <1>2 DEF Merge, DiscoveryInv, Batched

(* What was taken is listed from a candidate that claims it.               *)
LEMMA TakenFrom ==
  ASSUME DiscoveryInv, Merge, NEW s \in Sessions, s \in Taken
  PROVE  /\ Source(s) \in extracted /\ Source(s) \in Looked /\ Usable(Source(s))
         /\ prepared[Source(s)].entry.session = s
         /\ s \notin Duplicates
         /\ Names(NextWatermark, Source(s), s)
         /\ Merged[s].file = Source(s) /\ Merged[s].at = prepared[Source(s)].entry.at
         /\ Merged[s] \in Listing
<1>1. \E f \in extracted : prepared[f].entry.session = s
  BY DEF Taken
<1>2. Source(s) \in extracted /\ prepared[Source(s)].entry.session = s
  BY <1>1 DEF Source
<1>3. /\ Source(s) \in Looked /\ Usable(Source(s)) /\ s \notin Duplicates
  BY <1>2, MergeEffect DEF Candidates
<1>4. Source(s) \in Files /\ prepared[Source(s)].entry.at \in Stamps
  BY <1>3, FoundFields, EntryFields, TypesInParts DEF DiscoveryInv, Looked
<1>5. Names(NextWatermark, Source(s), s)
  BY <1>2, <1>3, NextEntry DEF Names, DiscoveryInv
<1>6. Merged[s] = [file |-> Source(s), at |-> prepared[Source(s)].entry.at]
  BY DEF Merged
<1> QED
  BY <1>2, <1>3, <1>4, <1>5, <1>6 DEF Listing

(* An entry that passes over its file after a page that succeeded either   *)
(* is new and its session was taken, or it did so before.                  *)
LEMMA PassedBefore ==
  ASSUME DiscoveryInv, Merge, ~failed, NEW f \in Present, NEW s \in Sessions,
         PassesOver(f, s)', s \notin Taken
  PROVE  /\ PassesOver(f, s)
         /\ f \in Looked => prepared[f].entry.session = s /\ s \notin Duplicates
         /\ f \notin Looked => unseen
<1>1. watermark' = NextWatermark /\ f \in Files /\ UNCHANGED file
  BY MergeEffect DEF Present, store
<1>2. /\ NextWatermark[f] # None /\ NextWatermark[f].session = s
      /\ NextWatermark[f].complete /\ NextWatermark[f].at = file[f].at
      /\ ~NextWatermark[f].duplicate
  BY <1>1 DEF PassesOver, Names, Settles
<1>3. CASE f \in Looked /\ Usable(f)
  <2>1. /\ prepared[f].entry.session = s /\ prepared[f].entry.complete
        /\ prepared[f].entry.at = file[f].at /\ s \notin Duplicates
    BY <1>2, <1>3, NextEntry DEF DiscoveryInv
  <2>2. f \notin Candidates
    BY <2>1, MergeEffect DEF Taken
  <2>3. ~prepared[f].changed /\ ~prepared[f].entry.duplicate /\ ~prepared[f].error
    BY <1>3, <2>1, <2>2 DEF Candidates, Usable
  <2>4. prepared[f].entry = watermark[f]
    BY <1>3, <2>1, <2>3 DEF DiscoveryInv, Findings, Faithful
  <2>5. watermark[f] # None
    BY <1>3, <2>4, FoundFields, TypesInParts, NoneAssumption DEF DiscoveryInv
  <2> QED
    BY <1>3, <2>1, <2>3, <2>4, <2>5 DEF PassesOver, Names, Settles
<1>4. CASE f \in Looked /\ ~Usable(f)
  <2>1. NextWatermark[f] = prepared[f].entry
    BY <1>4, NextEntry DEF DiscoveryInv
  <2>2. prepared[f].error /\ s # NoSession
    BY <1>2, <1>4, <2>1, StoreAssumption DEF Usable
  <2>3. prepared[f].entry = watermark[f] /\ prepared[f].entry.at # stamps[f]
    BY <1>2, <1>4, <2>1, <2>2 DEF DiscoveryInv, Findings, Faithful
  <2>4. Known(f)
    BY <1>2, <2>1, <2>3 DEF Known
  <2>5. watermark[f].at <= stamps[f] /\ stamps[f] <= file[f].at
    BY <1>1, <1>4, <2>4 DEF DiscoveryInv, Stamped, Older
  <2>6. watermark[f].at \in Nat /\ stamps[f] \in Nat /\ file[f].at \in Nat
    <3>1. TypeOK
      BY DEF DiscoveryInv
    <3>2. watermark[f].at \in Stamps /\ file[f].at \in Stamps
      BY <1>1, <2>4, <3>1, KnownEntry, EntryFields, FileFields, TypesInParts
    <3>3. stamps[f] \in Stamps
      BY <1>1, <3>1 DEF TypeOK
    <3> QED
      BY <3>2, <3>3 DEF Stamps
  <2> QED
    BY <1>2, <2>1, <2>3, <2>5, <2>6
<1>5. CASE f \notin Looked
  <2>1. unseen /\ NextWatermark[f] = watermark[f]
    BY <1>1, <1>2, <1>5, UnlookedEntry
  <2> QED
    BY <1>2, <1>5, <2>1 DEF PassesOver, Names, Settles
<1> QED
  BY <1>3, <1>4, <1>5

(* Whoever was contested and is named still stays so, unless it was taken. *)
LEMMA StillContested ==
  ASSUME DiscoveryInv, Merge, NEW f \in Files, NEW s \in Sessions \ contested',
         Names(watermark, f, s) \/ Names(watermark', f, s), failed \/ s \notin Taken
  PROVE  s \notin contested
BY DEF Merge

(* Nor does one of two rivals go unseen.                                   *)
LEMMA RivalsSeen ==
  ASSUME DiscoveryInv, Merge, NEW s \in Sessions \ contested', unseen,
         NEW f \in Files, Names(watermark, f, s) \/ Names(watermark', f, s),
         NEW g \in Files, Names(watermark, g, s) \/ Names(watermark', g, s)
  PROVE  f \in Looked <=> g \in Looked
BY DEF Merge

LEMMA MergeDistinct ==
  ASSUME DiscoveryInv, Merge
  PROVE  Distinct'
<1> SUFFICES ASSUME NEW f \in Present, NEW g \in Files \ {f},
                    NEW s \in Sessions \ contested',
                    PassesOver(f, s)', Names(watermark', g, s)
             PROVE  FALSE
  <2>1. Present' = Present
    BY MergeEffect DEF Present, store
  <2> QED
    BY <2>1 DEF Distinct, Names
<1>1. f \in Files /\ Names(watermark', f, s)
  BY DEF Present, PassesOver, Names
<1>2. CASE failed
  <2>1. watermark' = watermark /\ UNCHANGED file
    BY <1>2, MergeEffect DEF store
  <2>2. PassesOver(f, s) /\ Names(watermark, g, s)
    BY <2>1 DEF PassesOver, Names, Settles
  <2>3. s \notin contested
    BY <1>1, <1>2, StillContested
  <2> QED
    BY <2>2, <2>3 DEF DiscoveryInv, Distinct
<1>3. CASE ~failed
  <2>1. watermark' = NextWatermark
    BY <1>3, MergeEffect
  <2>2. ASSUME NEW h \in Files, Names(NextWatermark, h, s)
        PROVE  IF h \in Looked THEN prepared[h].entry.session = s
               ELSE unseen /\ Names(watermark, h, s)
    <3>1. CASE h \in Looked
      BY <2>2, <3>1, NextEntry DEF Names, DiscoveryInv
    <3>2. CASE h \notin Looked
      BY <2>2, <3>2, UnlookedEntry DEF Names
    <3> QED
      BY <3>1, <3>2
  <2>3. CASE s \in Taken
    <3> DEFINE h == Source(s)
    <3>1. h \in Looked /\ prepared[h].entry.session = s /\ s \notin Duplicates
          /\ Names(NextWatermark, h, s)
      BY <2>3, TakenFrom
    <3>2. h \in Files
      BY <3>1 DEF Looked
    <3> HIDE DEF h
    <3>3. f \in Looked
      BY <1>1, <2>1, <2>2, <3>1, <3>2, RivalsSeen
    <3>4. g \in Looked
      BY <2>1, <2>2, <3>1, <3>2, RivalsSeen
    <3> QED
      BY <1>1, <2>1, <2>2, <3>1, <3>3, <3>4, TwoClaims
  <2>4. CASE s \notin Taken
    <3>1. /\ PassesOver(f, s)
          /\ f \in Looked => prepared[f].entry.session = s /\ s \notin Duplicates
          /\ f \notin Looked => unseen
      BY <1>3, <2>4, PassedBefore
    <3>2. s \notin contested
      BY <1>1, <2>4, StillContested
    <3>3. f \in Looked <=> g \in Looked
      BY <1>1, <2>1, <2>2, <3>1, RivalsSeen
    <3>4. f \notin Looked
      BY <2>1, <2>2, <3>1, <3>3, TwoClaims
    <3>5. Names(watermark, g, s)
      BY <2>1, <2>2, <3>3, <3>4
    <3> QED
      BY <3>1, <3>2, <3>5 DEF DiscoveryInv, Distinct
  <2> QED
    BY <2>3, <2>4
<1> QED
  BY <1>2, <1>3

LEMMA MergeCovered ==
  ASSUME DiscoveryInv, Merge
  PROVE  Covered'
<1> SUFFICES ASSUME NEW f \in Present, NEW s \in Sessions \ contested', PassesOver(f, s)'
             PROVE  Merged[s] # None
  <2>1. Present' = Present /\ list' = Merged
    BY MergeEffect DEF Present, store
  <2> QED
    BY <2>1 DEF Covered, Listed
<1>1. f \in Files /\ Names(watermark', f, s)
  BY DEF Present, PassesOver, Names
<1>2. CASE s \in Taken
  BY <1>2, TakenFrom, NoneAssumption
<1>3. CASE s \notin Taken
  <2>1. s \notin contested
    BY <1>1, <1>3, StillContested
  <2>2. CASE failed
    <3>1. watermark' = watermark /\ UNCHANGED file
      BY <2>2, MergeEffect DEF store
    <3>2. PassesOver(f, s)
      BY <3>1 DEF PassesOver, Names, Settles
    <3>3. Merged[s] = list[s]
      BY <1>3, <2>2 DEF Merged
    <3> QED
      BY <2>1, <3>2, <3>3 DEF DiscoveryInv, Covered, Listed
  <2>3. CASE ~failed
    <3>1. /\ PassesOver(f, s)
          /\ f \in Looked => s \notin Duplicates
          /\ f \notin Looked => unseen
      BY <1>3, <2>3, PassedBefore
    <3>2. list[s] # None
      BY <2>1, <3>1 DEF DiscoveryInv, Covered, Listed
    <3>3. s \notin Removals
      <4> SUFFICES ASSUME NEW g \in Files, Names(watermark, g, s), unseen => g \in Looked,
                          ~Names(NextWatermark, g, s) \/ s \in Duplicates
                   PROVE  FALSE
        BY DEF Removals
      <4>1. g = f
        BY <2>1, <3>1 DEF DiscoveryInv, Distinct
      <4>2. Names(NextWatermark, f, s)
        BY <1>1, <2>3, MergeEffect
      <4> QED
        BY <3>1, <4>1, <4>2
    <3>4. Merged[s] = list[s]
      BY <1>3, <3>3, MergeEffect DEF Merged
    <3> QED
      BY <3>2, <3>4
  <2> QED
    BY <2>2, <2>3
<1> QED
  BY <1>2, <1>3

LEMMA MergeAccounted ==
  ASSUME DiscoveryInv, Merge
  PROVE  Accounted'
<1> SUFFICES ASSUME NEW s \in Sessions, Merged[s] # None,
                    \A f \in Files : ~Names(watermark', f, s)
             PROVE  s \in strays'
  <2>1. list' = Merged
    BY MergeEffect
  <2> QED
    BY <2>1 DEF Accounted, Listed, Names
<1> SUFFICES s \in strays \/ (s \in Taken /\ failed)
  BY MergeEffect DEF Merge
<1>1. CASE failed
  <2>1. watermark' = watermark
    BY <1>1, MergeEffect
  <2>2. s \in Taken \/ list[s] # None
    BY <1>1 DEF Merged
  <2> QED
    BY <1>1, <2>1, <2>2 DEF DiscoveryInv, Accounted, Listed
<1>2. CASE ~failed
  <2>1. watermark' = NextWatermark
    BY <1>2, MergeEffect
  <2>2. s \notin Taken
    <3> SUFFICES ASSUME s \in Taken PROVE FALSE
      OBVIOUS
    <3>1. Names(NextWatermark, Source(s), s) /\ Source(s) \in Looked
      BY TakenFrom
    <3> QED
      BY <2>1, <3>1 DEF Looked
  <2>3. list[s] # None /\ s \notin Removals
    BY <1>2, <2>2, MergeEffect DEF Merged
  <2>4. ASSUME NEW g \in Files, Names(watermark, g, s) PROVE FALSE
    <3>1. unseen /\ g \notin Looked
      BY <2>1, <2>3, <2>4 DEF Removals
    <3>2. Names(NextWatermark, g, s)
      BY <2>4, <3>1, UnlookedEntry DEF Names
    <3> QED
      BY <2>1, <3>2
  <2> QED
    BY <2>3, <2>4 DEF DiscoveryInv, Accounted, Listed
<1> QED
  BY <1>1, <1>2

LEMMA MergeInv ==
  ASSUME DiscoveryInv, Merge
  PROVE  DiscoveryInv'
<1>1. /\ pc' = "idle" /\ Looked' = {} /\ todo' = {} /\ extracted' = {} /\ ~failed'
      /\ faults' \in 0..MaxFaults => PageTypes'
  BY MergeEffect, FinishEffect DEF DiscoveryInv
<1>2. UNCHANGED <<file, hidden, edits, faults>> /\ Present' = Present
  BY MergeEffect DEF store, Present
<1>3. watermark' \in [Files -> Entry \cup {None}]
  BY MergeEffect, NextTypes DEF DiscoveryInv, TypeOK
<1>4. TypeOK'
  <2>1. ASSUME NEW s \in Sessions PROVE Merged[s] \in Listing \cup {None}
    <3>1. CASE s \in Taken
      BY <3>1, TakenFrom
    <3>2. CASE s \notin Taken
      BY <3>2 DEF Merged, DiscoveryInv, TypeOK
    <3> QED
      BY <3>1, <3>2
  <2>2. Merged \in [Sessions -> Listing \cup {None}]
    BY <2>1 DEF Merged
  <2>3. strays' \in SUBSET Sessions /\ contested' \in SUBSET Sessions
    BY DEF Merge
  <2>4. IndexTypes'
    BY <1>3, <2>2, <2>3, MergeEffect DEF IndexTypes
  <2>5. StoreTypes'
    BY <1>2, TypesInParts DEF DiscoveryInv, StoreTypes
  <2>6. PageTypes'
    BY <1>1, <1>2 DEF DiscoveryInv, TypeOK
  <2> QED
    BY <2>4, <2>5, <2>6, TypesInPartsNext
<1>5. Stamped'
  <2> SUFFICES ASSUME NEW f \in Files, watermark'[f] # None
               PROVE  Older(f, watermark'[f].at)
    BY <1>1, <1>2 DEF Stamped, DiscoveryInv, Older, Known
  <2>1. CASE watermark'[f] = watermark[f]
    BY <2>1 DEF DiscoveryInv, Stamped, Known
  <2>2. CASE watermark'[f] # watermark[f]
    <3>1. f \in Looked /\ watermark'[f] = NextWatermark[f]
      BY <2>2, MergeEffect, UnlookedEntry
    <3> QED
      BY <3>1, NextEntry DEF DiscoveryInv, Stamped
  <2> QED
    BY <2>1, <2>2
<1>6. Phases' /\ Findings' /\ Batched'
  BY <1>1 DEF Phases, Findings, Batched
<1> QED
  BY <1>4, <1>5, <1>6, MergeDistinct, MergeCovered, MergeAccounted DEF DiscoveryInv

LEMMA InitInv == Init => DiscoveryInv
<1> SUFFICES ASSUME Init PROVE DiscoveryInv
  OBVIOUS
<1> USE DEF Init
<1>1. 0 \in Stamps /\ 0 \in 0..Limit /\ 0 \in 0..MaxFaults
  BY BoundsAssumption, LimitAssumption DEF Stamps
<1>2. Present = {} /\ Looked = {} /\ \A f \in Files : ~Known(f)
  BY DEF Present, Looked, Known
<1>3. TypeOK
  BY <1>1, <1>2 DEF TypeOK, NoPage
<1>4. Stamped /\ Phases /\ Findings /\ Batched
  BY <1>2 DEF Stamped, Phases, Findings, Batched
<1>5. Distinct /\ Covered /\ Accounted
  BY <1>2 DEF Distinct, Covered, Accounted, Listed
<1> QED
  BY <1>3, <1>4, <1>5 DEF DiscoveryInv

LEMMA StutterInv ==
  ASSUME DiscoveryInv, UNCHANGED vars
  PROVE  DiscoveryInv'
<1> USE DEF DiscoveryInv, vars
<1>1. TypeOK'
  BY DEF TypeOK, store, index, history, locals, Present
<1>2. Stamped'
  BY DEF Stamped, Older, Known, Looked, Present, store, index, locals
<1>3. Phases' /\ Findings' /\ Batched'
  BY SamePage DEF index, locals
<1>4. Distinct' /\ Covered' /\ Accounted'
  BY SameStore DEF store, index, history
<1> QED
  BY <1>1, <1>2, <1>3, <1>4

LEMMA StepInv == DiscoveryInv /\ [Next]_vars => DiscoveryInv'
BY EnvironmentInv, RefreshInv, StartPageInv, PurgeInv, LookInv, BatchInv, ExtractInv,
   MergeInv, AbandonInv, StutterInv DEF Next, Work

LEMMA DiscoveryInvariant == Spec => []DiscoveryInv
BY InitInv, StepInv, PTL DEF Spec

(* Type correctness: every part of the index and of the page being read    *)
(* stays within its bounds, among them the changed files a page may scan.  *)
THEOREM DiscoveryTypes == Spec => []TypeOK
<1>1. DiscoveryInv => TypeOK
  BY DEF DiscoveryInv
<1> QED
  BY <1>1, DiscoveryInvariant, PTL

(* A file that discovery passes over, because the watermark has it as read *)
(* to its end and unchanged, has its session on the list: whatever the     *)
(* agents write between two steps of a page, whichever reads fail and      *)
(* whenever a page is given up (index.rs, refresh_page_cancellable()).     *)
THEOREM PassedOverIsListed == Spec => []Covered
<1>1. DiscoveryInv => Covered
  BY DEF DiscoveryInv
<1> QED
  BY <1>1, DiscoveryInvariant, PTL

(* Conversely a listed session is named by an entry of the watermark, the  *)
(* only thing that lets a later page remove it, or was taken from a page   *)
(* whose other candidates failed.                                          *)
THEOREM ListedIsNamed == Spec => []Accounted
<1>1. DiscoveryInv => Accounted
  BY DEF DiscoveryInv
<1> QED
  BY <1>1, DiscoveryInvariant, PTL
-----------------------------------------------------------------------------
(***************************************************************************)
(* That sessions stay.                                                     *)
(***************************************************************************)

(* An entry whose file has not changed since says what is in it.           *)
Reads ==
    \A f \in Present :
        /\ Known(f) /\ watermark[f].at = file[f].at /\ watermark[f].session # NoSession
           => file[f].session = watermark[f].session /\ file[f].named <= file[f].len
        /\ f \in Looked =>
              LET e == prepared[f].entry IN
              e.session # NoSession /\ e.at = file[f].at /\ e # watermark[f]
              => e = Scanned(f) /\ file[f].len > 0

(* The next scan of the file, if there is one, reads far enough to find    *)
(* its session.                                                            *)
Resumes(f) == \/ watermark[f].complete /\ watermark[f].at = file[f].at
              \/ file[f].named <= Start(f) + 1

(* A session whose file is as it was listed is found again by every page.  *)
Current ==
    \A s \in Sessions : Listed(s) /\ StillThere(s) =>
        LET f == list[s].file IN
        /\ file[f].session = s /\ file[f].named <= file[f].len
        /\ f \in Looked /\ prepared[f].entry.session # NoSession
           => prepared[f].entry = watermark[f] \/ prepared[f].entry.at = file[f].at
        /\ Names(watermark, f, s) =>
              /\ Resumes(f)
              /\ f \in Looked => prepared[f].entry.session = s
              /\ pc # "idle" /\ ~unseen => f \in Looked \cup todo

Ages == /\ \A s \in Sessions : Listed(s) => list[s].at <= edits
        /\ \A f \in Looked : prepared[f].changed => prepared[f].entry.complete
        /\ pc = "extracting" => todo = {}

StayInv == Reads /\ Current /\ Ages

LEMMA ListingFields ==
  ASSUME TypeOK, NEW s \in Sessions, Listed(s)
  PROVE  list[s].file \in Files /\ list[s].at \in Stamps
BY DEF TypeOK, Listed, Listing

(* What one scan finds of a file that names its session.                   *)
LEMMA ScannedFinds ==
  ASSUME TypeOK, NEW f \in Present
  PROVE  /\ Start(f) \in Nat
         /\ Scanned(f).session # NoSession => /\ Scanned(f).session = file[f].session
                                              /\ file[f].named <= Start(f) + 1
         /\ file[f].named <= Start(f) + 1 => /\ Scanned(f).session = file[f].session
                                             /\ ~Scanned(f).pending
         /\ Scanned(f).at = file[f].at /\ Scanned(f).born = file[f].born
         /\ Scanned(f).offset = Start(f) + 1
         /\ Scanned(f).complete = (Start(f) + 1 = file[f].len)
         /\ file[f].len > 0 => Start(f) + 1 <= file[f].len
<1>1. f \in Files /\ file[f] \in FileState
  BY FileFields, TypesInParts DEF Present
<1>2. file[f].len \in Nat
  BY <1>1 DEF FileState
<1>3. Start(f) \in Nat /\ (file[f].len > 0 => Start(f) + 1 <= file[f].len)
  <2>1. CASE Known(f) /\ watermark[f].offset \in 1..(file[f].len - 1)
    <3>1. watermark[f].offset \in Nat /\ watermark[f].offset <= file[f].len - 1
      BY <1>1, <1>2, <2>1, KnownEntry, EntryFields
    <3> QED
      BY <1>2, <3>1 DEF Start
  <2>2. CASE ~(Known(f) /\ watermark[f].offset \in 1..(file[f].len - 1))
    BY <1>2, <2>2 DEF Start
  <2> QED
    BY <2>1, <2>2
<1>4. Scanned(f).pending = ~(file[f].named <= Start(f) + 1)
  BY DEF Scanned
<1> QED
  BY <1>3, <1>4 DEF Scanned

(* Steps that leave the index, the files and the page alone.               *)
LEMMA SameReads ==
  ASSUME UNCHANGED <<file, watermark, prepared>>, Reads
  PROVE  Reads'
BY DEF Reads, Present, Known, Looked, Scanned, Start

LEMMA SameCurrent ==
  ASSUME UNCHANGED <<file, watermark, list>>, Current,
         (pc' # "idle" /\ ~unseen') => (pc # "idle" /\ ~unseen),
         Looked \cup todo \subseteq (Looked \cup todo)',
         \A f \in Looked' : f \in Looked /\ prepared'[f] = prepared[f]
  PROVE  Current'
<1> SUFFICES ASSUME NEW s \in Sessions, Listed(s)', StillThere(s)'
             PROVE  LET f == list[s].file IN
                    /\ file[f].session = s /\ file[f].named <= file[f].len
                    /\ f \in Looked' /\ prepared'[f].entry.session # NoSession
                       => prepared'[f].entry = watermark[f] \/ prepared'[f].entry.at = file[f].at
                    /\ Names(watermark, f, s) =>
                          /\ Resumes(f)
                          /\ f \in Looked' => prepared'[f].entry.session = s
                          /\ pc' # "idle" /\ ~unseen' => f \in (Looked \cup todo)'
  BY DEF Current, Names, Resumes, Start, Known
<1>1. Listed(s) /\ StillThere(s)
  BY DEF Listed, StillThere, Present
<1> QED
  BY <1>1 DEF Current

LEMMA EnvironmentStay ==
  ASSUME DiscoveryInv, StayInv, Environment
  PROVE  StayInv'
<1> USE DEF StayInv
<1>1. PICK f \in Files : EditOf(f)
  BY EnvironmentEffect DEF DiscoveryInv
<1>2. UNCHANGED <<watermark, list, pc, todo, stamps, unseen, prepared>>
  BY EnvironmentEffect DEF DiscoveryInv, index, locals
<1>3. TypeOK
  BY DEF DiscoveryInv
<1>4. edits \in Nat /\ edits' = edits + 1 /\ Looked' = Looked
  BY <1>1, <1>2, <1>3 DEF EditOf, TypeOK, Stamps, Looked
<1>5. ASSUME NEW g \in Present', NEW at \in Stamps, at <= edits, file'[g].at = at
      PROVE  g \in Present /\ file'[g] = file[g]
  <2>1. g \in Files
    BY DEF Present
  <2>2. at # edits'
    BY <1>4, <1>5 DEF Stamps
  <2> QED
    BY <1>1, <1>5, <2>1, <2>2 DEF EditOf, Present
<1>6. Reads'
  <2> SUFFICES ASSUME NEW g \in Present'
               PROVE  /\ Known(g) /\ watermark[g].at = file'[g].at
                         /\ watermark[g].session # NoSession
                         => /\ file'[g].session = watermark[g].session
                            /\ file'[g].named <= file'[g].len
                      /\ g \in Looked =>
                            LET e == prepared[g].entry IN
                            e.session # NoSession /\ e.at = file'[g].at /\ e # watermark[g]
                            => e = Scanned(g)' /\ file'[g].len > 0
    BY <1>2, <1>4 DEF Reads, Known
  <2>1. g \in Files
    BY DEF Present
  <2>2. Known(g) => watermark[g].at \in Stamps /\ watermark[g].at <= edits
    BY <1>3, <2>1, KnownEntry, EntryFields DEF DiscoveryInv, Stamped, Older
  <2>3. g \in Looked => prepared[g].entry.at \in Stamps /\ prepared[g].entry.at <= edits
    BY <1>3, <2>1, FoundFields, EntryFields, TypesInParts DEF DiscoveryInv, Stamped, Older
  <2>4. file'[g] = file[g] => Scanned(g)' = Scanned(g)
    BY <1>2 DEF Scanned, Start, Known
  <2>5. Known(g) /\ watermark[g].at = file'[g].at => g \in Present /\ file'[g] = file[g]
    BY <1>5, <2>2
  <2>6. g \in Looked /\ prepared[g].entry.at = file'[g].at
        => g \in Present /\ file'[g] = file[g]
    BY <1>5, <2>3
  <2> QED
    BY <2>4, <2>5, <2>6 DEF Reads
<1>7. Current'
  <2> SUFFICES ASSUME NEW s \in Sessions, Listed(s)', StillThere(s)'
               PROVE  LET g == list[s].file IN
                      /\ file'[g].session = s /\ file'[g].named <= file'[g].len
                      /\ g \in Looked /\ prepared[g].entry.session # NoSession
                         => prepared[g].entry = watermark[g] \/ prepared[g].entry.at = file'[g].at
                      /\ Names(watermark, g, s) =>
                            /\ Resumes(g)'
                            /\ g \in Looked => prepared[g].entry.session = s
                            /\ pc # "idle" /\ ~unseen => g \in Looked \cup todo
    BY <1>2, <1>4 DEF Current, Names, Resumes, Start, Known
  <2> DEFINE g == list[s].file
  <2>1. Listed(s) /\ g \in Present' /\ file'[g].at = list[s].at
    BY <1>2 DEF Listed, StillThere
  <2>2. list[s].at \in Stamps /\ list[s].at <= edits
    BY <1>3, <2>1, ListingFields DEF Ages
  <2>3. g \in Present /\ file'[g] = file[g]
    BY <1>5, <2>1, <2>2
  <2>4. StillThere(s)
    BY <2>1, <2>3 DEF StillThere
  <2>5. Resumes(g) => Resumes(g)'
    BY <1>2, <2>3 DEF Resumes, Start, Known
  <2> QED
    BY <2>1, <2>3, <2>4, <2>5 DEF Current
<1>8. Ages'
  <2>1. ASSUME NEW s \in Sessions, Listed(s) PROVE list[s].at <= edits'
    BY <1>3, <1>4, <2>1, ListingFields DEF Ages, Stamps
  <2> QED
    BY <1>2, <1>4, <2>1 DEF Ages, Listed
<1> QED
  BY <1>6, <1>7, <1>8

LEMMA RefreshStay ==
  ASSUME StayInv, Refresh
  PROVE  StayInv'
<1>1. UNCHANGED <<file, watermark, list, edits, pc, todo, stamps, unseen, prepared>>
  BY DEF Refresh, store, locals
<1>2. Looked' = Looked
  BY <1>1 DEF Looked
<1>3. Ages'
  BY <1>1, <1>2 DEF StayInv, Ages, Listed
<1> QED
  BY <1>1, <1>2, <1>3, SameReads, SameCurrent DEF StayInv

LEMMA StartPageStay ==
  ASSUME DiscoveryInv, StayInv, StartPage
  PROVE  StayInv'
<1>1. /\ pc = "idle" /\ pc' = "scanning" /\ todo' = Readable /\ unseen' = (hidden # {})
      /\ UNCHANGED <<file, watermark, list, edits, prepared>>
  BY DEF StartPage, store
<1>2. Looked = {} /\ Looked' = {}
  BY <1>1 DEF DiscoveryInv, Phases, Looked
<1>3. Current'
  <2> SUFFICES ASSUME NEW s \in Sessions, Listed(s)', StillThere(s)'
               PROVE  LET f == list[s].file IN
                      /\ file[f].session = s /\ file[f].named <= file[f].len
                      /\ Names(watermark, f, s) =>
                            /\ Resumes(f)
                            /\ ~unseen' => f \in todo'
    BY <1>1, <1>2 DEF Current, Names, Resumes, Start, Known
  <2>1. Listed(s) /\ StillThere(s)
    BY <1>1 DEF Listed, StillThere, Present
  <2>2. ~unseen' => list[s].file \in todo'
    BY <1>1, <2>1 DEF StillThere, Readable
  <2> QED
    BY <2>1, <2>2 DEF StayInv, Current
<1>4. Ages'
  BY <1>1, <1>2 DEF StayInv, Ages, Listed
<1> QED
  BY <1>1, <1>3, <1>4, SameReads DEF StayInv

LEMMA PurgeStay ==
  ASSUME DiscoveryInv, Purge
  PROVE  StayInv'
<1>1. /\ watermark' = [f \in Files |-> None] /\ list' = [s \in Sessions |-> None]
      /\ pc' = "idle" /\ prepared' = prepared /\ pc = "idle"
  BY DEF Purge, locals
<1>2. Looked' = {}
  BY <1>1 DEF DiscoveryInv, Phases, Looked
<1>3. \A f \in Present' : f \in Files /\ ~Known(f)'
  BY <1>1 DEF Present, Known
<1>4. \A s \in Sessions : ~Listed(s)'
  BY <1>1 DEF Listed
<1> QED
  BY <1>1, <1>2, <1>3, <1>4 DEF StayInv, Reads, Current, Ages

LEMMA BatchStay ==
  ASSUME StayInv, Batch
  PROVE  StayInv'
<1>1. /\ pc = "scanning" /\ pc' = "extracting" /\ todo = {}
      /\ UNCHANGED <<file, watermark, list, edits, todo, stamps, unseen, prepared>>
  BY DEF Batch, store, index
<1>2. Looked' = Looked
  BY <1>1 DEF Looked
<1>3. Ages'
  BY <1>1, <1>2 DEF StayInv, Ages, Listed
<1> QED
  BY <1>1, <1>2, <1>3, SameReads, SameCurrent DEF StayInv

LEMMA ExtractStay ==
  ASSUME StayInv, Extract
  PROVE  StayInv'
<1>1. UNCHANGED <<file, watermark, list, edits, pc, todo, stamps, unseen, prepared>>
  BY DEF Extract, store, index
<1>2. Looked' = Looked
  BY <1>1 DEF Looked
<1>3. Ages'
  BY <1>1, <1>2 DEF StayInv, Ages, Listed
<1> QED
  BY <1>1, <1>2, <1>3, SameReads, SameCurrent DEF StayInv

LEMMA AbandonStay ==
  ASSUME DiscoveryInv, StayInv, Abandon
  PROVE  StayInv'
<1>1. /\ UNCHANGED <<file, edits, watermark, list>>
      /\ pc' = "idle" /\ Looked' = {} /\ todo' = {}
  BY FinishEffect DEF Abandon, store, DiscoveryInv
<1>2. Reads'
  BY <1>1 DEF StayInv, Reads, Present, Known
<1>3. Current'
  <2> SUFFICES ASSUME NEW s \in Sessions, Listed(s)', StillThere(s)'
               PROVE  LET f == list[s].file IN
                      /\ file[f].session = s /\ file[f].named <= file[f].len
                      /\ Names(watermark, f, s) => Resumes(f)
    BY <1>1 DEF Current, Names, Resumes, Start, Known
  <2>1. Listed(s) /\ StillThere(s)
    BY <1>1 DEF Listed, StillThere, Present
  <2> QED
    BY <2>1 DEF StayInv, Current
<1>4. Ages'
  BY <1>1, <1>2 DEF StayInv, Ages, Listed
<1> QED
  BY <1>2, <1>3, <1>4 DEF StayInv

(* What looking at a file may find: what is known of it, nothing as it is  *)
(* not known, what one scan reads, or nothing that names a session.        *)
KnownFound(f, r) == Known(f) /\ r \in Finding /\ r.entry = watermark[f] /\ ~r.changed
NothingFound(f, r) == ~Known(f) /\ r = None
ScanFound(f, r) == /\ f \in Present /\ file[f].len > 0 /\ r \in Finding
                   /\ Known(f) => ~Settles(watermark[f], stamps[f])
                   /\ r.entry = Scanned(f) /\ r.changed = Scanned(f).complete
BlankFound(f, r) == /\ r \in Finding /\ r.entry.session = NoSession /\ ~r.changed
                    /\ Known(f) => /\ f \in Present /\ ~Settles(watermark[f], stamps[f])
                                   /\ file[f].len = 0 \/ Unsupported(f)

LEMMA LookFinds ==
  ASSUME TypeOK, LookAtNext
  PROVE  \E f \in todo : \E r :
            /\ f \in Files /\ todo' = todo \ {f} /\ prepared' = [prepared EXCEPT ![f] = r]
            /\ \/ KnownFound(f, r) \/ NothingFound(f, r)
               \/ ScanFound(f, r) \/ BlankFound(f, r)
<1> DEFINE f == Newest(todo)
<1>1. f \in todo /\ f \in Files
  BY NewestIn DEF LookAtNext, TypeOK
<1>2. \/ Skip(f)
      \/ Postpone(f)
      \/ Inspect(f) /\ (ReadFails(f) \/ ScanFile(f))
  BY DEF LookAtNext, Inspect
<1> HIDE DEF f
<1>3. stamps[f] \in Stamps
  BY <1>1 DEF TypeOK
<1>4. Known(f) => watermark[f] \in Entry
  BY <1>1, KnownEntry
<1>5. \A e \in Entry : /\ Failing(e, f) \in Finding /\ Failing(e, f).entry = e
                       /\ ~Failing(e, f).changed
  BY <1>3 DEF Failing, Finding
<1>6. Known(f) => /\ Kept(f) \in Finding /\ Kept(f).entry = watermark[f] /\ ~Kept(f).changed
  BY <1>3, <1>4 DEF Kept, Finding
<1>7. \A b \in BOOLEAN : Blank(f, b) \in Entry /\ Blank(f, b).session = NoSession
  BY <1>3, BoundsAssumption DEF Blank, Entry, Stamps
<1>8. \E r : Prepare(f, r) /\ (\/ KnownFound(f, r) \/ NothingFound(f, r)
                               \/ ScanFound(f, r) \/ BlankFound(f, r))
  <2>1. CASE Skip(f)
    <3>1. Known(f) /\ Prepare(f, IF watermark[f].rejected THEN Failing(watermark[f], f)
                                 ELSE Kept(f))
      BY <2>1 DEF Skip
    <3> QED
      BY <1>4, <1>5, <1>6, <3>1 DEF KnownFound
  <2>2. CASE Postpone(f)
    BY <1>6, <2>2 DEF Postpone, KnownFound, NothingFound
  <2>3. CASE ReadFails(f)
    <3>1. Prepare(f, Failing(IF Known(f) THEN watermark[f] ELSE Blank(f, FALSE), f))
      BY <2>3 DEF ReadFails
    <3>2. CASE Known(f)
      BY <1>4, <1>5, <3>1, <3>2 DEF KnownFound
    <3>3. CASE ~Known(f)
      BY <1>5, <1>7, <3>1, <3>3 DEF BlankFound
    <3> QED
      BY <3>2, <3>3
  <2>4. CASE Inspect(f) /\ ScanFile(f)
    <3>1. f \in Present
      BY <2>4 DEF ScanFile, Readable
    <3>2. Known(f) => ~Settles(watermark[f], stamps[f])
      BY <2>4 DEF Inspect
    <3>3. CASE /\ file[f].len = 0 \/ Unsupported(f)
               /\ Prepare(f, Failing(Blank(f, FALSE), f)) \/ Prepare(f, Failing(Blank(f, TRUE), f))
      BY <1>5, <1>7, <3>1, <3>2, <3>3 DEF BlankFound
    <3>4. CASE /\ file[f].len > 0
               /\ Prepare(f, [entry |-> Scanned(f), at |-> Scanned(f).at, error |-> FALSE,
                              changed |-> Scanned(f).complete])
      <4> DEFINE r == [entry |-> Scanned(f), at |-> Scanned(f).at, error |-> FALSE,
                       changed |-> Scanned(f).complete]
      <4>1. Scanned(f) \in Entry /\ Scanned(f).at \in Stamps /\ Scanned(f).complete \in BOOLEAN
        BY <3>1, ScannedEntry, EntryFields
      <4>2. r \in Finding
        BY <4>1 DEF Finding
      <4> QED
        BY <3>1, <3>2, <3>4, <4>2 DEF ScanFound
    <3> QED
      BY <2>4, <3>3, <3>4 DEF ScanFile
  <2> QED
    BY <1>2, <2>1, <2>2, <2>3, <2>4
<1> QED
  BY <1>1, <1>8 DEF Prepare

LEMMA LookStay ==
  ASSUME DiscoveryInv, StayInv, LookAtNext
  PROVE  StayInv'
<1>1. TypeOK /\ Stamped
  BY DEF DiscoveryInv
<1>2. PICK f \in todo : \E r :
            /\ f \in Files /\ todo' = todo \ {f} /\ prepared' = [prepared EXCEPT ![f] = r]
            /\ \/ KnownFound(f, r) \/ NothingFound(f, r)
               \/ ScanFound(f, r) \/ BlankFound(f, r)
  BY <1>1, LookFinds
<1>3. PICK r :
            /\ f \in Files /\ todo' = todo \ {f} /\ prepared' = [prepared EXCEPT ![f] = r]
            /\ \/ KnownFound(f, r) \/ NothingFound(f, r)
               \/ ScanFound(f, r) \/ BlankFound(f, r)
  BY <1>2
<1>4. UNCHANGED <<file, edits, watermark, list, pc, stamps, unseen>> /\ pc = "scanning"
  BY DEF LookAtNext, store, index
<1>5. prepared'[f] = r /\ \A g \in Files \ {f} : prepared'[g] = prepared[g]
  BY <1>1, <1>3 DEF TypeOK
<1>6. /\ f \in Looked' <=> r # None
      /\ \A g \in Files \ {f} : g \in Looked' <=> g \in Looked
  BY <1>3, <1>5 DEF Looked
<1>7. \A g \in Looked \cup Looked' : g \in Files
  BY DEF Looked
<1>8. Present' = Present /\ \A g : Scanned(g)' = Scanned(g)
  BY <1>4 DEF Present, Scanned, Start, Known
<1>9. Reads'
  <2> SUFFICES ASSUME NEW g \in Present
               PROVE  g \in Looked' =>
                         LET e == prepared'[g].entry IN
                         e.session # NoSession /\ e.at = file[g].at /\ e # watermark[g]
                         => e = Scanned(g) /\ file[g].len > 0
    BY <1>4, <1>8 DEF StayInv, Reads, Known
  <2>1. g \in Files
    BY DEF Present
  <2>2. CASE g # f
    BY <1>5, <1>6, <2>1, <2>2 DEF StayInv, Reads
  <2>3. CASE g = f
    BY <1>3, <1>5, <1>6, <2>3 DEF KnownFound, NothingFound, ScanFound, BlankFound
  <2> QED
    BY <2>2, <2>3
<1>10. Current'
  <2> SUFFICES ASSUME NEW s \in Sessions, Listed(s), StillThere(s)
               PROVE  LET g == list[s].file IN
                      /\ file[g].session = s /\ file[g].named <= file[g].len
                      /\ g \in Looked' /\ prepared'[g].entry.session # NoSession
                         => prepared'[g].entry = watermark[g] \/ prepared'[g].entry.at = file[g].at
                      /\ Names(watermark, g, s) =>
                            /\ Resumes(g)
                            /\ g \in Looked' => prepared'[g].entry.session = s
                            /\ pc # "idle" /\ ~unseen => g \in Looked' \cup todo'
    BY <1>4, <1>8 DEF Current, Names, Resumes, Start, Known, Listed, StillThere
  <2> DEFINE g == list[s].file
  <2>1. g \in Files /\ g \in Present /\ file[g] \in FileState
    BY <1>1, ListingFields, FileFields, TypesInParts DEF StillThere
  <2>2. /\ file[g].session = s /\ file[g].named <= file[g].len
        /\ g \in Looked /\ prepared[g].entry.session # NoSession
           => prepared[g].entry = watermark[g] \/ prepared[g].entry.at = file[g].at
        /\ Names(watermark, g, s) =>
              /\ Resumes(g)
              /\ g \in Looked => prepared[g].entry.session = s
              /\ pc # "idle" /\ ~unseen => g \in Looked \cup todo
    BY DEF StayInv, Current
  <2> HIDE DEF g
  <2>3. CASE g # f
    BY <1>3, <1>5, <1>6, <2>1, <2>2, <2>3 DEF g
  <2>4. CASE g = f
    <3>1. CASE KnownFound(f, r)
      <4>1. r # None
        BY <3>1, NoneAssumption DEF KnownFound
      <4> QED
        BY <1>5, <1>6, <2>2, <2>4, <3>1, <4>1 DEF KnownFound, Names, g
    <3>2. CASE NothingFound(f, r)
      BY <1>6, <2>2, <2>4, <3>2 DEF NothingFound, Names, Known, g
    <3>3. CASE ScanFound(f, r) \/ BlankFound(f, r)
      <4>1. r # None /\ f \in Looked'
        BY <1>6, <3>3, NoneAssumption DEF ScanFound, BlankFound
      <4>2. r.entry.session # NoSession => r.entry.at = file[f].at
        BY <1>1, <2>1, <2>4, <3>3, ScannedFinds DEF ScanFound, BlankFound
      <4>3. ASSUME Names(watermark, f, s) PROVE r.entry.session = s
        <5>1. Known(f) /\ ~Settles(watermark[f], stamps[f])
          BY <3>3, <4>3 DEF Names, Known, ScanFound, BlankFound
        <5>2. /\ watermark[f].at <= stamps[f] /\ stamps[f] <= file[f].at
              /\ watermark[f].at \in Nat /\ stamps[f] \in Nat /\ file[f].at \in Nat
          <6>1. watermark[f].at <= stamps[f] /\ stamps[f] <= file[f].at
            BY <1>1, <1>3, <2>1, <2>4, <5>1 DEF Stamped, Older
          <6>2. watermark[f].at \in Stamps
            BY <1>1, <1>3, <5>1, KnownEntry, EntryFields
          <6>3. stamps[f] \in Stamps /\ file[f].at \in Stamps
            BY <1>1, <1>3, <2>1, <2>4 DEF TypeOK, FileState
          <6> QED
            BY <6>1, <6>2, <6>3 DEF Stamps
        <5>3. file[f].named <= Start(f) + 1
          BY <2>2, <2>4, <4>3, <5>1, <5>2 DEF Resumes, Settles
        <5>4. Scanned(f).session = s /\ ~Scanned(f).pending
          BY <1>1, <2>1, <2>2, <2>4, <5>3, ScannedFinds
        <5>5. ~BlankFound(f, r)
          <6>1. file[f].len # 0
            BY <2>1, <2>2, <2>4 DEF FileState
          <6>2. ~Unsupported(f)
            BY <2>2, <2>4, <5>4, StoreAssumption DEF Unsupported
          <6> QED
            BY <5>1, <6>1, <6>2 DEF BlankFound
        <5> QED
          BY <3>3, <5>4, <5>5 DEF ScanFound
      <4> QED
        BY <1>5, <2>2, <2>4, <4>1, <4>2, <4>3 DEF g
    <3> QED
      BY <1>3, <3>1, <3>2, <3>3
  <2> QED
    BY <2>3, <2>4 DEF g
<1>11. Ages'
  <2> SUFFICES ASSUME NEW g \in Looked' PROVE prepared'[g].changed => prepared'[g].entry.complete
    BY <1>4 DEF StayInv, Ages, Listed
  <2>1. CASE g # f
    BY <1>5, <1>6, <1>7, <2>1 DEF StayInv, Ages
  <2>2. CASE g = f
    BY <1>3, <1>5, <1>6, <2>2 DEF KnownFound, NothingFound, ScanFound, BlankFound
  <2> QED
    BY <2>1, <2>2
<1> QED
  BY <1>9, <1>10, <1>11 DEF StayInv

(***************************************************************************)
(* Merging the page.                                                       *)
(***************************************************************************)

LEMMA MergeReads ==
  ASSUME DiscoveryInv, StayInv, Merge
  PROVE  Reads'
<1>1. TypeOK /\ Reads
  BY DEF DiscoveryInv, StayInv
<1>2. Looked' = {} /\ file' = file /\ Present' = Present
  BY <1>1, MergeEffect, FinishEffect DEF store, Present
<1> SUFFICES ASSUME NEW f \in Present, watermark'[f] # None,
                    watermark'[f].at = file[f].at, watermark'[f].session # NoSession
             PROVE  file[f].session = watermark'[f].session /\ file[f].named <= file[f].len
  BY <1>2 DEF Reads, Known
<1>3. f \in Files
  BY DEF Present
<1>4. CASE watermark'[f] = watermark[f]
  BY <1>1, <1>4 DEF Reads, Known
<1>5. CASE watermark'[f] # watermark[f]
  <2>1. f \in Looked /\ watermark'[f] = NextWatermark[f]
    BY <1>3, <1>5, MergeEffect, UnlookedEntry
  <2>2. /\ prepared[f].entry.session = watermark'[f].session
        /\ prepared[f].entry.at = file[f].at
    BY <1>1, <2>1, NextEntry
  <2>3. CASE prepared[f].entry = watermark[f]
    <3>1. watermark[f] # None
      BY <1>1, <2>1, <2>3, FoundFields, TypesInParts, NoneAssumption
    <3> QED
      BY <1>1, <2>2, <2>3, <3>1 DEF Reads, Known
  <2>4. CASE prepared[f].entry # watermark[f]
    <3>1. prepared[f].entry = Scanned(f) /\ file[f].len > 0
      BY <1>1, <2>1, <2>2, <2>4 DEF Reads
    <3>2. Scanned(f).session = file[f].session /\ file[f].named <= Start(f) + 1
          /\ Start(f) + 1 <= file[f].len /\ Start(f) \in Nat
      BY <1>1, <2>2, <3>1, ScannedFinds
    <3>3. file[f].named \in Nat /\ file[f].len \in Nat
      BY <1>1, FileFields, TypesInParts
    <3> QED
      BY <2>2, <3>1, <3>2, <3>3
  <2> QED
    BY <2>3, <2>4
<1> QED
  BY <1>4, <1>5

(* What a candidate was read as is what its file says, if the file is as   *)
(* it was then.                                                            *)
LEMMA TakenReads ==
  ASSUME DiscoveryInv, StayInv, Merge, NEW f \in Candidates, f \in Present,
         prepared[f].entry.at = file[f].at
  PROVE  /\ file[f].session = prepared[f].entry.session /\ file[f].named <= file[f].len
         /\ prepared[f].entry.complete
         /\ prepared[f].entry = watermark[f] \/ file[f].named <= Start(f) + 1
<1>1. TypeOK /\ Reads
  BY DEF DiscoveryInv, StayInv
<1>2. /\ f \in Looked /\ f \in Files /\ prepared[f].entry.session # NoSession
      /\ prepared[f].changed \/ prepared[f].entry.duplicate
  BY DEF Candidates, Usable, Looked
<1>3. CASE prepared[f].entry = watermark[f]
  <2>1. watermark[f] # None
    BY <1>1, <1>2, <1>3, FoundFields, TypesInParts, NoneAssumption
  <2>2. Decodes(watermark[f])
    BY <1>2, <2>1 DEF DiscoveryInv, Phases, Decodable, Merge
  <2>3. prepared[f].entry.complete
    BY <1>2, <1>3, <2>2 DEF Decodes, StayInv, Ages
  <2> QED
    BY <1>1, <1>2, <1>3, <2>1, <2>3 DEF Reads, Known
<1>4. CASE prepared[f].entry # watermark[f]
  <2>1. prepared[f].entry = Scanned(f) /\ file[f].len > 0
    BY <1>1, <1>2, <1>4 DEF Reads
  <2>2. /\ Scanned(f).session = file[f].session /\ file[f].named <= Start(f) + 1
        /\ Start(f) + 1 <= file[f].len /\ Start(f) \in Nat
    BY <1>1, <1>2, <2>1, ScannedFinds
  <2>3. file[f].named \in Nat /\ file[f].len \in Nat
    BY <1>1, FileFields, TypesInParts
  <2>4. ~prepared[f].entry.duplicate
    BY <2>1 DEF Scanned
  <2>5. prepared[f].entry.complete
    BY <1>2, <2>4 DEF StayInv, Ages
  <2> QED
    BY <2>1, <2>2, <2>3, <2>5
<1> QED
  BY <1>3, <1>4

LEMMA MergeCurrent ==
  ASSUME DiscoveryInv, StayInv, Merge
  PROVE  Current'
<1>1. TypeOK
  BY DEF DiscoveryInv
<1>2. Looked' = {} /\ pc' = "idle" /\ file' = file /\ Present' = Present /\ list' = Merged
  BY <1>1, MergeEffect, FinishEffect DEF store, Present
<1> SUFFICES ASSUME NEW s \in Sessions, Listed(s)', StillThere(s)',
                    NEW f, f = Merged[s].file
             PROVE  /\ file[f].session = s /\ file[f].named <= file[f].len
                    /\ Names(watermark', f, s) => Resumes(f)'
  BY <1>2 DEF Current, Names, Resumes, Start, Known
<1>3. Merged[s] # None /\ f \in Present /\ file[f].at = Merged[s].at
  BY <1>2 DEF Listed, StillThere
<1>4. f \in Files
  BY <1>3 DEF Present
<1>5. CASE s \in Taken
  <2>1. /\ f \in Candidates /\ f \in Looked /\ prepared[f].entry.session = s
        /\ prepared[f].entry.at = file[f].at
    BY <1>3, <1>5, TakenFrom, MergeEffect
  <2>2. /\ file[f].session = s /\ file[f].named <= file[f].len /\ prepared[f].entry.complete
        /\ prepared[f].entry = watermark[f] \/ file[f].named <= Start(f) + 1
    BY <1>3, <2>1, TakenReads
  <2>3. CASE failed
    <3>1. watermark' = watermark
      BY <2>3, MergeEffect
    <3>2. Start(f)' = Start(f)
      BY <1>2, <3>1 DEF Start, Known
    <3>3. Resumes(f)'
      BY <1>2, <2>1, <2>2, <3>1, <3>2 DEF Resumes
    <3> QED
      BY <2>2, <3>3
  <2>4. CASE ~failed
    <3>1. watermark' = NextWatermark
      BY <2>4, MergeEffect
    <3>2. Resumes(f)'
      BY <1>1, <1>2, <2>1, <2>2, <3>1, NextEntry DEF Resumes
    <3> QED
      BY <2>2, <3>2
  <2> QED
    BY <2>3, <2>4
<1>6. CASE s \notin Taken
  <2>1. list[s] = Merged[s]
    BY <1>3, <1>6 DEF Merged
  <2>2. Listed(s) /\ StillThere(s)
    BY <1>3, <2>1 DEF Listed, StillThere
  <2>3. /\ file[f].session = s /\ file[f].named <= file[f].len
        /\ f \in Looked /\ prepared[f].entry.session # NoSession
           => prepared[f].entry = watermark[f] \/ prepared[f].entry.at = file[f].at
        /\ Names(watermark, f, s) => Resumes(f)
    BY <2>1, <2>2 DEF StayInv, Current
  <2> SUFFICES ASSUME Names(watermark', f, s) PROVE Resumes(f)'
    BY <2>3
  <2>4. CASE watermark'[f] = watermark[f]
    <3>1. Start(f)' = Start(f) /\ Names(watermark, f, s)
      BY <1>2, <2>4 DEF Start, Known, Names
    <3> QED
      BY <1>2, <2>3, <2>4, <3>1 DEF Resumes
  <2>5. CASE watermark'[f] # watermark[f]
    <3>0. s # NoSession
      BY StoreAssumption
    <3>1. f \in Looked /\ watermark'[f] = NextWatermark[f]
      BY <1>4, <2>5, MergeEffect, UnlookedEntry DEF Names
    <3>2. prepared[f].entry.session = s
      BY <1>1, <3>1, NextEntry DEF Names
    <3>3. CASE prepared[f].entry = watermark[f]
      <4>1. /\ watermark'[f].complete = watermark[f].complete
            /\ watermark'[f].at = watermark[f].at /\ watermark'[f].born = watermark[f].born
            /\ watermark'[f].offset = watermark[f].offset
        BY <1>1, <3>1, <3>3, NextEntry
      <4>2. watermark[f] # None /\ watermark'[f] # None
        BY <1>1, <3>1, <3>3, FoundFields, NextEntry, TypesInParts, NoneAssumption
      <4>3. Names(watermark, f, s)
        BY <3>2, <3>3, <4>2 DEF Names
      <4>4. Start(f)' = Start(f)
        BY <1>2, <4>1, <4>2 DEF Start, Known
      <4> QED
        BY <1>2, <2>3, <4>1, <4>3, <4>4 DEF Resumes
    <3>4. CASE prepared[f].entry # watermark[f]
      <4>1. prepared[f].entry = Scanned(f) /\ file[f].len > 0
        BY <1>3, <2>3, <3>0, <3>1, <3>2, <3>4 DEF StayInv, Reads
      <4>2. /\ watermark'[f] # None /\ watermark'[f].at = file[f].at
            /\ watermark'[f].born = file[f].born /\ watermark'[f].offset = Start(f) + 1
            /\ watermark'[f].complete = (Start(f) + 1 = file[f].len)
            /\ Start(f) + 1 <= file[f].len /\ Start(f) \in Nat
            /\ file[f].named <= Start(f) + 1
        BY <1>1, <1>3, <3>0, <3>1, <3>2, <4>1, NextEntry, ScannedFinds
      <4>3. CASE Start(f) + 1 = file[f].len
        BY <1>2, <4>2, <4>3 DEF Resumes
      <4>4. CASE Start(f) + 1 # file[f].len
        <5>1. file[f].len \in Nat /\ file[f].named \in Nat
          BY <1>1, <1>3, FileFields, TypesInParts
        <5>2. Start(f)' = Start(f) + 1
          BY <1>2, <4>2, <4>4, <5>1 DEF Start, Known
        <5> QED
          BY <1>2, <4>2, <5>1, <5>2 DEF Resumes
      <4> QED
        BY <4>3, <4>4
    <3> QED
      BY <3>3, <3>4
  <2> QED
    BY <2>4, <2>5
<1> QED
  BY <1>5, <1>6

LEMMA MergeAges ==
  ASSUME DiscoveryInv, StayInv, Merge
  PROVE  Ages'
<1>1. pc' = "idle" /\ Looked' = {} /\ edits' = edits /\ list' = Merged
  BY MergeEffect, FinishEffect DEF DiscoveryInv, store
<1>2. ASSUME NEW s \in Sessions, Merged[s] # None PROVE Merged[s].at <= edits
  <2>1. CASE s \in Taken
    <3>1. /\ Source(s) \in Looked /\ Source(s) \in Files
          /\ Merged[s].at = prepared[Source(s)].entry.at
      BY <2>1, TakenFrom DEF Looked
    <3> QED
      BY <3>1 DEF DiscoveryInv, Stamped, Older
  <2>2. CASE s \notin Taken
    BY <1>2, <2>2 DEF Merged, StayInv, Ages, Listed
  <2> QED
    BY <2>1, <2>2
<1> QED
  BY <1>1, <1>2 DEF Ages, Listed

LEMMA StayStep == DiscoveryInv /\ StayInv /\ [Next]_vars => StayInv'
<1> SUFFICES ASSUME DiscoveryInv, StayInv, [Next]_vars PROVE StayInv'
  OBVIOUS
<1>1. CASE Merge
  BY <1>1, MergeReads, MergeCurrent, MergeAges DEF StayInv
<1>2. CASE UNCHANGED vars
  <2>1. UNCHANGED <<file, watermark, list, edits, pc, todo, stamps, unseen, prepared>>
    BY <1>2 DEF vars, store, index, locals
  <2>2. Looked' = Looked
    BY <2>1 DEF Looked
  <2>3. Ages'
    BY <2>1, <2>2 DEF StayInv, Ages, Listed
  <2> QED
    BY <2>1, <2>2, <2>3, SameReads, SameCurrent DEF StayInv
<1> QED
  BY <1>1, <1>2, EnvironmentStay, RefreshStay, StartPageStay, PurgeStay, LookStay, BatchStay,
     ExtractStay, AbandonStay DEF Next, Work

LEMMA InitStay == Init => StayInv
BY DEF Init, StayInv, Reads, Current, Ages, Present, Looked, Listed

LEMMA StayInvariant == Spec => [](DiscoveryInv /\ StayInv)
<1>1. Init => DiscoveryInv /\ StayInv
  BY InitInv, InitStay
<1>2. DiscoveryInv /\ StayInv /\ [Next]_vars => (DiscoveryInv /\ StayInv)'
  BY StepInv, StayStep
<1> QED
  BY <1>1, <1>2, PTL DEF Spec

(* A duplicate has a second claim.                                         *)
LEMMA OtherClaim ==
  ASSUME NEW s \in Duplicates, NEW f
  PROVE  \E g \in Claims(s) : g # f
<1> SUFFICES ASSUME Claims(s) \subseteq {f} PROVE FALSE
  OBVIOUS
<1>1. IsFiniteSet({f}) /\ Cardinality({f}) = 1
  BY FS_Singleton
<1>2. IsFiniteSet(Claims(s)) /\ Cardinality(Claims(s)) <= 1
  BY <1>1, FS_Subset
<1>3. Cardinality(Claims(s)) \in Nat
  BY <1>2, FS_CardinalityType
<1> QED
  BY <1>2, <1>3 DEF Duplicates

LEMMA MergeStays ==
  ASSUME DiscoveryInv, StayInv, Merge
  PROVE  Stays
<1> SUFFICES ASSUME NEW s \in Sessions, Listed(s), StillThere(s), Merged[s] = None,
                    \A g \in Files \ {list[s].file} : /\ ~Names(watermark, g, s)
                                                     /\ ~Names(watermark', g, s)
             PROVE  FALSE
  BY MergeEffect DEF Stays
<1> DEFINE f == list[s].file
<1>1. TypeOK /\ todo = {} /\ pc # "idle"
  BY DEF DiscoveryInv, StayInv, Ages, Merge
<1>2. s \notin Taken
  BY TakenFrom, NoneAssumption
<1>3. ~failed /\ s \in Removals
  BY <1>2, MergeEffect DEF Merged, Listed
<1>4. watermark' = NextWatermark
  BY <1>3, MergeEffect
<1>5. PICK g \in Files : /\ Names(watermark, g, s)
                         /\ unseen => g \in Looked
                         /\ ~Names(NextWatermark, g, s) \/ s \in Duplicates
  BY <1>3 DEF Removals
<1>6. g = f
  BY <1>5
<1>7. Names(watermark, f, s)
  BY <1>5, <1>6
<1>8. /\ f \in Looked => prepared[f].entry.session = s
      /\ ~unseen => f \in Looked
  BY <1>1, <1>7 DEF StayInv, Current
<1>9. f \in Looked /\ prepared[f].entry.session = s
  BY <1>5, <1>6, <1>8
<1>10. Names(NextWatermark, f, s)
  BY <1>1, <1>9, NextEntry DEF Names
<1>11. s \in Duplicates
  BY <1>5, <1>6, <1>10
<1>12. PICK h \in Claims(s) : h # f
  BY <1>11, OtherClaim
<1>13. h \in Looked /\ h \in Files /\ prepared[h].entry.session = s
  BY DEF Claims, Looked
<1>14. Names(NextWatermark, h, s)
  BY <1>1, <1>13, NextEntry DEF Names
<1> QED
  BY <1>4, <1>12, <1>13, <1>14

(* No page, refresh or abandonment takes a session off the list whose file *)
(* is as it was when it was listed, unless another file claims the same    *)
(* session, as long as the watermark can be decoded.                       *)
THEOREM ReadableSessionsStay == Spec => SessionsStayDecoded
<1>1. DiscoveryInv /\ StayInv /\ [Next]_vars => [Decodable(watermark) => Stays]_list
  <2> SUFFICES ASSUME DiscoveryInv, StayInv, [Next]_vars, Decodable(watermark), list' # list
               PROVE  Stays
    OBVIOUS
  <2>1. ~Purge
    BY DEF Purge
  <2>2. Environment => UNCHANGED list
    BY EnvironmentEffect DEF DiscoveryInv, index
  <2>3. Merge
    BY <2>1, <2>2 DEF Next, Work, Refresh, StartPage, LookAtNext, Batch, Extract, Abandon, vars, index
  <2> QED
    BY <2>3, MergeStays
<1> QED
  BY <1>1, StayInvariant, PTL DEF Spec, SessionsStayDecoded

-----------------------------------------------------------------------------
(***************************************************************************)
(* OpenCode: the same page of discovery, over a database (OpenCodeSource). *)
(* What a page hands over was read some steps after the marks were taken.  *)
(* Every edit leaves marks that the database never had (Marked), so marks  *)
(* that the database still has when the page ends vouch for all that was   *)
(* read in between (ReadAsMarked).                                         *)
(***************************************************************************)

CONSTANTS Conversations, PageLimit, MostEdits, MostReplacements, MostFaults
VARIABLES disk, memory, titles, step, captured, rows, changes, replacements, mishaps

DB == INSTANCE OpenCodeSource
        WITH Sessions <- Conversations, Limit <- PageLimit, MaxEdits <- MostEdits,
             MaxReplacements <- MostReplacements, MaxFaults <- MostFaults,
             watermark <- memory, list <- titles, pc <- step, edits <- changes,
             faults <- mishaps

(* An edit leaves marks that were not there before.                        *)
LEMMA OpenCodeEdits ==
  ASSUME DB!TypeOK, DB!Marked, DB!Commit \/ DB!Checkpoint \/ DB!Replace
  PROVE  /\ disk' \in [id : Nat, main : DB!Image, wal : DB!Image]
         /\ (disk.main.at <= changes /\ disk.wal.at <= changes)'
         /\ (disk = DB!Absent \/ disk.id # 0)'
         /\ changes' = changes + 1
         /\ \A m \in DB!Mark : DB!Past(m) => DB!Past(m)' /\ m # DB!MarksOf(disk)'
<1> USE DEF DB!TypeOK, DB!Marked, DB!Edit, DB!Mark, DB!Past, DB!MarksOf
<1>1. /\ DB!Absent \in [id : Nat, main : DB!Image, wal : DB!Image]
      /\ DB!Committed \in [Conversations -> DB!Row]
      /\ DB!Absent.id = 0 /\ DB!Absent.main.at = 0 /\ DB!Absent.wal.at = 0 /\ DB!Null \in DB!Row
  BY DEF DB!Absent, DB!Nothing, DB!Image, DB!Row, DB!Null, DB!Committed, DB!HasWal
<1>2. CASE DB!Commit
  <2>1. PICK s \in Conversations,
             row \in {DB!Null} \cup [at : {changes + 1}, is : {"valid", "long", "newer"}] :
           disk' = [disk EXCEPT !.wal = [at |-> changes + 1,
                                         rows |-> [DB!Committed EXCEPT ![s] = row]]]
    BY <1>2 DEF DB!Commit
  <2>2. changes' = changes + 1 /\ disk # DB!Absent
    BY <1>2 DEF DB!Commit
  <2>3. row \in DB!Row
    BY DEF DB!Row
  <2>4. [at |-> changes + 1, rows |-> [DB!Committed EXCEPT ![s] = row]] \in DB!Image
    BY <1>1, <2>3 DEF DB!Image
  <2>5. /\ disk' \in [id : Nat, main : DB!Image, wal : DB!Image]
        /\ disk'.id = disk.id /\ disk'.main = disk.main /\ disk'.wal.at = changes + 1
    BY <2>1, <2>4
  <2> QED
    BY <1>1, <2>2, <2>5 DEF DB!Image
<1>3. CASE DB!Checkpoint
  <2>1. PICK wal \in {disk.wal, DB!Absent.wal} :
           disk' = [disk EXCEPT !.main = [at |-> changes + 1, rows |-> disk.wal.rows],
                                !.wal = wal]
    BY <1>3 DEF DB!Checkpoint
  <2>2. changes' = changes + 1 /\ disk.wal.at # 0
    BY <1>3 DEF DB!Checkpoint, DB!HasWal
  <2>3. wal \in DB!Image /\ wal.at <= changes
    BY <1>1 DEF DB!Image
  <2>4. [at |-> changes + 1, rows |-> disk.wal.rows] \in DB!Image
    BY DEF DB!Image
  <2>5. /\ disk' \in [id : Nat, main : DB!Image, wal : DB!Image]
        /\ disk'.id = disk.id /\ disk'.main.at = changes + 1 /\ disk'.wal = wal
    BY <2>1, <2>3, <2>4
  <2>6. disk.id # 0
    BY <1>1, <2>2
  <2>7. disk'.main.at <= changes' /\ disk'.wal.at <= changes' /\ disk'.id # 0
    BY <2>2, <2>3, <2>5, <2>6 DEF DB!Image
  <2>8. \A m \in DB!Mark : DB!Past(m) => DB!Past(m)' /\ m # DB!MarksOf(disk)'
    BY <2>2, <2>5
  <2> QED
    BY <2>2, <2>5, <2>7, <2>8
<1>4. CASE DB!Replace
  <2>1. changes' = changes + 1
    BY <1>4 DEF DB!Replace
  <2>2. CASE disk' = DB!Absent
    BY <1>1, <2>1, <2>2
  <2>3. CASE disk' = [id |-> changes + 2,
                      main |-> [at |-> changes + 1, rows |-> disk.main.rows],
                      wal |-> DB!Absent.wal]
    <3>1. [at |-> changes + 1, rows |-> disk.main.rows] \in DB!Image /\ DB!Absent.wal \in DB!Image
      BY <1>1 DEF DB!Image
    <3> QED
      BY <1>1, <2>1, <2>3, <3>1
  <2> QED
    BY <1>4, <2>2, <2>3 DEF DB!Replace
<1> QED
  BY <1>2, <1>3, <1>4

(* What a page hands over.                                                 *)
LEMMA OpenCodeMerges ==
  ASSUME DB!TypeOK, captured \in DB!Mark, NEW read \in [Conversations -> DB!Row],
         DB!WatermarkListed, DB!Merges(read)
  PROVE  /\ memory' \in [database : DB!Mark, pending : BOOLEAN, sessions : [Conversations -> Nat]]
         /\ memory'.database = captured
         /\ titles' = memory'.sessions
         /\ ~memory'.pending => titles' = [s \in Conversations |-> read[s].at]
<1> DEFINE present == {s \in Conversations : read[s] # DB!Null}
           changed == {s \in present : DB!Previous.sessions[s] # read[s].at}
           gone == {s \in Conversations \ present : DB!Previous.sessions[s] # 0}
           candidates == DB!Newest(PageLimit, changed, read)
           removals == DB!Lowest(PageLimit - DB!Cardinality(candidates), gone)
           waiting == (changed \ candidates) \cup (gone \ removals)
           kept == [s \in Conversations |-> IF s \in waiting THEN DB!Deferred(s) ELSE read[s].at]
<1>1. memory' = [database |-> captured, pending |-> waiting # {}, sessions |-> kept]
  BY DEF DB!Merges, DB!Marks, DB!Pending
<1>2. titles' = [s \in Conversations |-> IF s \in candidates THEN read[s].at
                                  ELSE IF s \in removals THEN 0 ELSE titles[s]]
  BY DEF DB!Merges
<1>3. candidates \subseteq changed /\ removals \subseteq gone
  BY DEF DB!Newest, DB!Lowest
<1>4. /\ DB!Previous.sessions = titles /\ titles \in [Conversations -> Nat]
      /\ \A s \in Conversations : DB!Deferred(s) = titles[s]
  BY DEF DB!WatermarkListed, DB!TypeOK, DB!Deferred
<1>5. \A s \in Conversations : read[s].at \in Nat /\ (s \notin present => read[s].at = 0)
  BY DEF DB!Row, DB!Null
<1>6. ASSUME NEW s \in Conversations PROVE titles'[s] = kept[s]
  <2>1. CASE s \in candidates
    BY <1>2, <1>3, <2>1
  <2>2. CASE s \in removals
    BY <1>2, <1>3, <1>5, <2>2
  <2>3. CASE s \notin candidates \cup removals
    BY <1>2, <1>4, <1>5, <2>3
  <2> QED
    BY <2>1, <2>2, <2>3
<1>7. kept \in [Conversations -> Nat] /\ titles' = kept
  <2>1. kept \in [Conversations -> Nat]
    BY <1>4, <1>5
  <2> QED
    BY <1>2, <1>6, <2>1
<1>8. waiting = {} => kept = [s \in Conversations |-> read[s].at]
  OBVIOUS
<1> HIDE DEF waiting, kept
<1> QED
  BY <1>1, <1>7, <1>8

(* A reading takes every row from the query or from the file.              *)
LEMMA OpenCodeReadings ==
  ASSUME DB!TypeOK, step = "read", captured \in DB!Mark, DB!ReadAsMarked, NEW read \in DB!Readings
  PROVE  /\ read \in [Conversations -> DB!Row]
         /\ captured = DB!MarksOf(disk) => read = DB!Committed
<1>1. CASE captured.wal # 0
  BY <1>1 DEF DB!Readings, DB!TypeOK, DB!ReadAsMarked
<1>2. CASE captured.wal = 0
  <2>1. /\ DOMAIN read = Conversations
        /\ read = [s \in Conversations |-> read[s]]
        /\ \A s \in Conversations : read[s] \in {rows[s], disk.main.rows[s]}
    BY <1>2 DEF DB!Readings
  <2>2. rows \in [Conversations -> DB!Row] /\ disk.main.rows \in [Conversations -> DB!Row]
    BY DEF DB!TypeOK, DB!Image
  <2>3. ASSUME captured = DB!MarksOf(disk) PROVE rows = disk.main.rows /\ rows = DB!Committed
    BY <1>2, <2>3 DEF DB!ReadAsMarked, DB!Committed, DB!HasWal, DB!MarksOf
  <2> QED
    BY <2>1, <2>2, <2>3
<1> QED
  BY <1>1, <1>2

OpenCodeInv == DB!TypeOK /\ DB!Marked /\ DB!ReadAsMarked /\ DB!WatermarkListed /\ DB!SkipIsSound

LEMMA OpenCodeInit == DB!Init => OpenCodeInv
<1> SUFFICES ASSUME DB!Init PROVE OpenCodeInv
  OBVIOUS
<1>1. DB!Nothing \in [Conversations -> DB!Row] /\ DB!Unlisted \in [Conversations -> Nat]
  BY DEF DB!Nothing, DB!Unlisted, DB!Row
<1>2. /\ disk = [DB!Absent EXCEPT !.id = 1]
      /\ memory = DB!Null /\ titles = DB!Unlisted /\ step = "idle"
      /\ captured = DB!Null /\ rows = DB!Nothing /\ changes = 0
  BY DEF DB!Init
<1>3. /\ disk \in [id : Nat, main : DB!Image, wal : DB!Image]
      /\ disk.id = 1 /\ disk.main.at = 0 /\ disk.wal.at = 0
  BY <1>1, <1>2 DEF DB!Absent, DB!Image
<1>4. DB!Previous.sessions = DB!Unlisted
  BY <1>2 DEF DB!Previous
<1> QED
  BY <1>1, <1>2, <1>3, <1>4
     DEF OpenCodeInv, DB!TypeOK, DB!Marked, DB!ReadAsMarked, DB!WatermarkListed, DB!SkipIsSound

LEMMA OpenCodeStep == OpenCodeInv /\ [DB!Next]_(DB!vars) => OpenCodeInv'
<1> SUFFICES ASSUME OpenCodeInv, [DB!Next]_(DB!vars) PROVE OpenCodeInv'
  OBVIOUS
<1> USE DEF OpenCodeInv
<1>1. CASE DB!Commit \/ DB!Checkpoint \/ DB!Replace
  <2>1. UNCHANGED <<DB!index, DB!job>>
    BY <1>1 DEF DB!Commit, DB!Checkpoint, DB!Replace, DB!Edit
  <2>2. UNCHANGED <<memory, titles, step, captured, rows>>
    BY <2>1 DEF DB!index, DB!job
  <2>3. /\ disk' \in [id : Nat, main : DB!Image, wal : DB!Image]
        /\ (disk.main.at <= changes /\ disk.wal.at <= changes)'
        /\ (disk = DB!Absent \/ disk.id # 0)'
        /\ changes' = changes + 1
        /\ \A m \in DB!Mark : DB!Past(m) => DB!Past(m)' /\ m # DB!MarksOf(disk)'
    BY <1>1, OpenCodeEdits
  <2>4. DB!TypeOK'
    BY <2>2, <2>3 DEF DB!TypeOK
  <2>5. memory # DB!Null => memory.database \in DB!Mark /\ DB!Past(memory.database)
    BY DEF DB!TypeOK, DB!Marked
  <2>6. DB!Marked'
    <3>1. memory' # DB!Null => DB!Past(memory.database)'
      BY <2>2, <2>3, <2>5
    <3>2. step' # "idle" => captured' \in DB!Mark /\ DB!Past(captured)'
      BY <2>2, <2>3 DEF DB!Marked
    <3> QED
      BY <2>3, <3>1, <3>2 DEF DB!Marked
  <2>7. DB!ReadAsMarked'
    BY <2>2, <2>3 DEF DB!ReadAsMarked, DB!Marked
  <2>8. DB!WatermarkListed'
    BY <2>2 DEF DB!WatermarkListed, DB!Previous
  <2>9. DB!SkipIsSound'
    BY <2>2, <2>3, <2>5 DEF DB!SkipIsSound, DB!MarksOf
  <2> QED
    BY <2>4, <2>6, <2>7, <2>8, <2>9
<1>2. ASSUME UNCHANGED <<disk, changes, memory, titles>>,
             step' \in {"idle", "main", "open", "read"}, captured' \in {DB!Null} \cup DB!Mark,
             rows' \in [Conversations -> DB!Row],
             step' # "idle" => captured' \in DB!Mark /\ DB!Past(captured)',
             step' = "read" /\ captured' = DB!MarksOf(disk) => rows' = DB!Committed
      PROVE  OpenCodeInv'
  <2>1. DB!TypeOK'
    BY <1>2 DEF DB!TypeOK
  <2>2. DB!Marked'
    BY <1>2 DEF DB!Marked, DB!Past
  <2>3. DB!ReadAsMarked'
    BY <1>2 DEF DB!ReadAsMarked, DB!MarksOf, DB!Committed, DB!HasWal
  <2>4. DB!WatermarkListed' /\ DB!SkipIsSound'
    BY <1>2 DEF DB!WatermarkListed, DB!Previous, DB!SkipIsSound, DB!Committed, DB!HasWal
  <2> QED
    BY <2>1, <2>2, <2>3, <2>4
<1>3. DB!Nothing \in [Conversations -> DB!Row]
  BY DEF DB!Nothing, DB!Row
<1>4. CASE DB!Begin
  <2>1. disk.id # 0 /\ disk.main.at \in Nat /\ disk.main.at <= changes /\ disk.id \in Nat
    BY <1>4 DEF DB!Begin, DB!Marked, DB!TypeOK, DB!Image
  <2>2. /\ captured' = [at |-> disk.main.at, id |-> disk.id, wal |-> 0] /\ step' = "main"
        /\ UNCHANGED <<disk, changes, memory, titles, rows>>
    BY <1>4 DEF DB!Begin, DB!environment, DB!index
  <2>3. captured' \in DB!Mark /\ DB!Past(captured)' /\ rows' \in [Conversations -> DB!Row]
    BY <2>1, <2>2 DEF DB!Mark, DB!Past, DB!TypeOK
  <2> QED
    BY <1>2, <2>2, <2>3
<1>5. CASE DB!Capture
  <2>1. UNCHANGED <<disk, changes, memory, titles>> /\ captured \in DB!Mark /\ DB!Past(captured)
    BY <1>5 DEF DB!Capture, DB!environment, DB!index, DB!Marked
  <2>2. CASE DB!Idle
    BY <1>2, <1>3, <2>1, <2>2 DEF DB!Idle
  <2>3. CASE step' = "open" /\ captured' = [captured EXCEPT !.wal = disk.wal.at] /\ UNCHANGED rows
    <3>1. disk.wal.at \in Nat /\ disk.wal.at <= changes /\ rows' \in [Conversations -> DB!Row]
      BY <2>3 DEF DB!Marked, DB!TypeOK, DB!Image
    <3>2. captured' \in DB!Mark /\ DB!Past(captured)'
      BY <2>1, <2>3, <3>1 DEF DB!Mark, DB!Past
    <3> QED
      BY <1>2, <2>1, <2>3, <3>1, <3>2
  <2> QED
    BY <1>5, <2>2, <2>3 DEF DB!Capture
<1>6. CASE DB!Query
  <2>1. /\ UNCHANGED <<disk, changes, memory, titles, captured>>
        /\ captured \in DB!Mark /\ DB!Past(captured)
        /\ step' = "read" /\ rows' = IF captured.wal = 0 THEN disk.main.rows ELSE DB!Committed
    BY <1>6 DEF DB!Query, DB!environment, DB!index, DB!Marked
  <2>2. rows' \in [Conversations -> DB!Row]
    BY <2>1 DEF DB!TypeOK, DB!Image, DB!Committed, DB!HasWal
  <2>3. captured = DB!MarksOf(disk) => rows' = DB!Committed
    BY <2>1 DEF DB!MarksOf, DB!Committed, DB!HasWal
  <2>4. DB!Past(captured)'
    BY <2>1 DEF DB!Past
  <2> QED
    BY <1>2, <2>1, <2>2, <2>3, <2>4
<1>7. CASE DB!Conclude
  <2>1. /\ step = "read" /\ DB!Idle /\ UNCHANGED <<disk, changes>>
        /\ captured \in DB!Mark /\ DB!Past(captured)
    BY <1>7 DEF DB!Conclude, DB!environment, DB!Marked
  <2>2. PICK read \in DB!Readings :
           IF DB!Unacceptable(read) # {} THEN DB!Fails(read)
           ELSE IF disk.id # captured.id THEN UNCHANGED DB!index ELSE DB!Merges(read)
    BY <1>7 DEF DB!Conclude
  <2>3. read \in [Conversations -> DB!Row] /\ (captured = DB!MarksOf(disk) => read = DB!Committed)
    BY <2>1, OpenCodeReadings
  <2>4. CASE UNCHANGED DB!index
    BY <1>2, <1>3, <2>1, <2>4 DEF DB!Idle, DB!index
  <2>5. CASE memory' = DB!Null /\ titles' = DB!Unlisted
    <3>1. DB!TypeOK'
      BY <1>3, <2>1, <2>5 DEF DB!TypeOK, DB!Idle, DB!Unlisted
    <3>2. DB!Marked' /\ DB!ReadAsMarked' /\ DB!SkipIsSound'
      BY <2>1, <2>5 DEF DB!Marked, DB!ReadAsMarked, DB!SkipIsSound, DB!Idle
    <3>3. DB!WatermarkListed'
      BY <2>5 DEF DB!WatermarkListed, DB!Previous
    <3> QED
      BY <3>1, <3>2, <3>3
  <2>6. CASE DB!Merges(read)
    <3>1. /\ memory' \in [database : DB!Mark, pending : BOOLEAN, sessions : [Conversations -> Nat]]
          /\ memory'.database = captured
          /\ titles' = memory'.sessions
          /\ ~memory'.pending => titles' = [s \in Conversations |-> read[s].at]
      BY <2>1, <2>3, <2>6, OpenCodeMerges
    <3>2. DB!TypeOK'
      BY <1>3, <2>1, <3>1 DEF DB!TypeOK, DB!Idle
    <3>3. DB!Marked' /\ DB!ReadAsMarked'
      BY <2>1, <3>1 DEF DB!Marked, DB!ReadAsMarked, DB!Idle, DB!Past
    <3>4. memory' # DB!Null
      BY <3>1 DEF DB!Null
    <3>5. DB!WatermarkListed'
      BY <3>1, <3>4 DEF DB!WatermarkListed, DB!Previous
    <3>6. DB!SkipIsSound'
      BY <2>1, <2>3, <3>1 DEF DB!SkipIsSound, DB!MarksOf, DB!Committed, DB!HasWal
    <3> QED
      BY <3>2, <3>3, <3>5, <3>6
  <2> QED
    BY <2>2, <2>4, <2>5, <2>6 DEF DB!Fails
<1>8. CASE DB!Abandon
  BY <1>2, <1>3, <1>8 DEF DB!Abandon, DB!Idle, DB!environment, DB!index
<1>9. CASE UNCHANGED DB!vars
  BY <1>2, <1>9
     DEF DB!vars, DB!environment, DB!index, DB!job, DB!TypeOK, DB!Marked, DB!Past, DB!ReadAsMarked
<1> QED
  BY <1>1, <1>4, <1>5, <1>6, <1>7, <1>8, <1>9 DEF DB!Next, DB!Page

(* Types of the database, the watermark and the page of OpenCode, for any  *)
(* sessions, limits, edits, replacements and failures.                     *)
THEOREM OpenCodeTypes == DB!Spec => []DB!TypeOK
<1>1. OpenCodeInv => DB!TypeOK
  BY DEF OpenCodeInv
<1> QED
  BY <1>1, OpenCodeInit, OpenCodeStep, PTL DEF DB!Spec

(* WatermarkListed: whatever part of the changes fits in a page, whichever *)
(* page fails, and however the database changes meanwhile, the watermark   *)
(* and the index have the same sessions at the same fingerprints.          *)
THEOREM OpenCodeIsListed == DB!Spec => []DB!WatermarkListed
<1>1. OpenCodeInv => DB!WatermarkListed
  BY DEF OpenCodeInv
<1> QED
  BY <1>1, OpenCodeInit, OpenCodeStep, PTL DEF DB!Spec

(* SkipIsSound: a page that is skipped, because the database has the marks *)
(* of the watermark and nothing is pending, would have found the index to  *)
(* be what the database holds; also when it was read as immutable while    *)
(* OpenCode wrote, checkpointed or replaced it.                            *)
THEOREM OpenCodeSkipsSoundly == DB!Spec => []DB!SkipIsSound
<1>1. OpenCodeInv => DB!SkipIsSound
  BY DEF OpenCodeInv
<1> QED
  BY <1>1, OpenCodeInit, OpenCodeStep, PTL DEF DB!Spec

-----------------------------------------------------------------------------
(***************************************************************************)
(* The project-local source, over a directory of records                   *)
(* (ProjectLocalSource).  A page decides in a loop over all it read; what  *)
(* the loop leaves, LocalTaken, is by the first file at which it would     *)
(* fail, and its equation, LocalLoop, by the first at which there would be *)
(* no value.  An entry is then the old one or that of a candidate (Made),  *)
(* so that a session off the list lost the last entry that named it        *)
(* (Rivals).                                                               *)
(***************************************************************************)

CONSTANTS RecordFiles, Unnamed, MostFiles
VARIABLES records, sealed, here, ahead, reads, batch, taken, lacking, astray, disputed

Loc == INSTANCE ProjectLocalSource
         WITH NumFiles <- RecordFiles, Sessions <- Conversations, Bad <- Unnamed,
              Limit <- PageLimit, MaxFiles <- MostFiles, MaxEdits <- MostEdits,
              watermark <- memory, list <- titles, pc <- step, edits <- changes,
              file <- records, hidden <- sealed, todo <- ahead, extracted <- taken,
              failed <- lacking, strays <- astray, contested <- disputed

(* The loop over the files defines what it computes: by the first file it  *)
(* would not.                                                              *)
LEMMA LocalLoop ==
  ASSUME RecordFiles \in Nat
  PROVE  Loc!Taking = [n \in 0..RecordFiles |->
                     IF n = 0 THEN [next |-> Loc!Nothing, candidates |-> {},
                                    first |-> [s \in Conversations |-> 0]]
                     ELSE Loc!TakeFile(Loc!Taking[n - 1], n)]
<1> DEFINE start == [next |-> Loc!Nothing, candidates |-> {},
                     first |-> [s \in Conversations |-> 0]]
           Loops(g, m) == g =
             [n \in 0..m |-> IF n = 0 THEN start ELSE Loc!TakeFile(g[n - 1], n)]
           Stuck == {m \in 0..RecordFiles : \A g : ~Loops(g, m)}
<1> HIDE DEF start
<1>1. Stuck = {}
  <2> SUFFICES ASSUME Stuck # {} PROVE FALSE
    OBVIOUS
  <2>0. Stuck \subseteq 0..RecordFiles /\ Stuck \subseteq Nat
    OBVIOUS
  <2>1. PICK m \in Stuck : \A k \in Stuck : ~(<<k, m>> \in OpToRel(<, Nat))
    <3> HIDE DEF Stuck
    <3> QED BY <2>0, WFMin, NatLessThanWellFounded
  <2>2. m \in 0..RecordFiles /\ \A k \in 0..RecordFiles : k < m => k \notin Stuck
    <3> HIDE DEF Stuck
    <3> QED BY <2>0, <2>1 DEF OpToRel
  <2>3. CASE m = 0
    <3>1. Loops([n \in 0..0 |-> start], 0)
      OBVIOUS
    <3> QED
      BY <2>1, <2>3, <3>1
  <2>4. CASE m # 0
    <3>1. m - 1 \in 0..RecordFiles /\ m \in Nat
      BY <2>2, <2>4
    <3>2. PICK h : Loops(h, m - 1)
      BY <2>2, <3>1
    <3> DEFINE g == [n \in 0..m |-> IF n = m THEN Loc!TakeFile(h[m - 1], m) ELSE h[n]]
    <3>3. ASSUME NEW n \in 0..m
          PROVE  g[n] = IF n = 0 THEN start ELSE Loc!TakeFile(g[n - 1], n)
      <4>1. CASE n = m
        <5>1. g[n - 1] = h[m - 1] /\ g[n] = Loc!TakeFile(h[m - 1], m)
          BY <2>4, <3>1, <4>1
        <5> QED
          BY <2>4, <4>1, <5>1
      <4>2. CASE n # m
        <5>1. n \in 0..m - 1 /\ g[n] = h[n] /\ (n # 0 => g[n - 1] = h[n - 1])
          BY <3>1, <4>2
        <5>2. h[n] = IF n = 0 THEN start ELSE Loc!TakeFile(h[n - 1], n)
          BY <3>2, <5>1
        <5> QED
          BY <5>1, <5>2
      <4> QED
        BY <4>1, <4>2
    <3>4. Loops(g, m)
      <4> HIDE DEF g
      <4>1. g = [n \in 0..m |-> g[n]]
        BY DEF g
      <4> QED
        BY <3>3, <4>1
    <3> QED
      BY <2>1, <3>4
  <2> QED
    BY <2>3, <2>4
<1>2. RecordFiles \notin Stuck
  BY <1>1
<1>3. \E g : Loops(g, RecordFiles)
  BY <1>2
<1>4. Loc!Taking = CHOOSE g : Loops(g, RecordFiles)
  BY DEF Loc!Taking, start
<1>5. Loops(Loc!Taking, RecordFiles)
  BY <1>3, <1>4
<1> QED
  BY <1>5 DEF start

(* What is known after the loop has been at the first n files.             *)
Loop(n) == [next : [Loc!Places -> Loc!Stored], candidates : SUBSET (1..n),
            first : [Conversations -> 0..n]]
Progress(b, n) == b \in Loop(n) /\ Loc!Made(b.next, b.candidates)

LEMMA LocalTakesFile ==
  ASSUME RecordFiles \in Nat, Loc!TypeOK, NEW n \in 1..RecordFiles, NEW b, Progress(b, n - 1)
  PROVE  Progress(Loc!TakeFile(b, n), n)
<1> DEFINE r == reads[n]
           B == Loc!TakeFile(b, n)
<1>1. /\ n \in Loc!Places /\ n - 1 \in Nat /\ 1..n - 1 \subseteq 1..n
      /\ 0..n - 1 \subseteq 0..n
      /\ 1..n \subseteq Loc!Places /\ n \notin 1..n - 1 /\ n \in 0..n
  BY DEF Loc!Places
<1>2. /\ b.next \in [Loc!Places -> Loc!Stored] /\ b.candidates \subseteq 1..n - 1
      /\ b.first \in [Conversations -> 0..n - 1] /\ Loc!Made(b.next, b.candidates)
      /\ b = [next |-> b.next, candidates |-> b.candidates, first |-> b.first]
  BY DEF Progress, Loop
<1>3. memory \in [Loc!Places -> Loc!Stored] /\ r \in Loc!Reading
  BY <1>1 DEF Loc!TypeOK
<1>4. ASSUME NEW next \in [Loc!Places -> Loc!Stored], NEW candidates \in SUBSET (1..n),
             NEW first \in [Conversations -> 0..n],
             B = [next |-> next, candidates |-> candidates, first |-> first],
             Loc!Made(next, candidates)
      PROVE  Progress(B, n)
  BY <1>4 DEF Progress, Loop
<1>5. CASE r = Loc!Null
  BY <1>1, <1>2, <1>4, <1>5 DEF Loc!TakeFile
<1>6. ASSUME r # Loc!Null, B = [b EXCEPT !.next[n] = memory[n]]
      PROVE  Progress(B, n)
  <2>1. B = [next |-> [b.next EXCEPT ![n] = memory[n]], candidates |-> b.candidates,
             first |-> b.first]
    BY <1>2, <1>6
  <2>2. [b.next EXCEPT ![n] = memory[n]] \in [Loc!Places -> Loc!Stored]
    BY <1>1, <1>2, <1>3
  <2>3. Loc!Made([b.next EXCEPT ![n] = memory[n]], b.candidates)
    BY <1>1, <1>2 DEF Loc!Made
  <2> QED
    BY <1>1, <1>2, <1>4, <2>1, <2>2, <2>3
<1>7. CASE r # Loc!Null /\ r.is # "read"
  <2>1. B = [b EXCEPT !.next[n] = memory[n]]
    BY <1>7 DEF Loc!TakeFile
  <2> QED
    BY <1>6, <1>7, <2>1
<1>8. CASE r # Loc!Null /\ r.is = "read"
  <2>1. /\ r.session \in Conversations /\ r.at \in Nat /\ Loc!Successful(n)
        /\ Loc!Entry(n) = [at |-> r.at, session |-> r.session] /\ Loc!Entry(n) \in Loc!Stored
    BY <1>3, <1>8 DEF Loc!Reading, Loc!Null, Loc!Entry, Loc!Stored, Loc!Successful
  <2>2. CASE b.first[r.session] # 0
    <3> DEFINE f == b.first[r.session]
               next == [b.next EXCEPT ![f] = Loc!Null]
               candidates == b.candidates \ {f}
    <3>1. f \in 1..n - 1 /\ f \in Loc!Places
      BY <1>1, <1>2, <2>1, <2>2
    <3>2. B = [next |-> next, candidates |-> candidates, first |-> b.first]
      BY <1>2, <1>8, <2>2 DEF Loc!TakeFile, Loc!Duplicate
    <3>3. next \in [Loc!Places -> Loc!Stored] /\ candidates \subseteq 1..n
      BY <1>1, <1>2, <3>1 DEF Loc!Stored
    <3>4. Loc!Made(next, candidates)
      BY <1>2, <3>1 DEF Loc!Made
    <3>5. b.first \in [Conversations -> 0..n]
      BY <1>1, <1>2
    <3> HIDE DEF next, candidates
    <3> QED
      BY <1>4, <3>2, <3>3, <3>4, <3>5
  <2>3. CASE b.first[r.session] = 0
    <3> DEFINE first == [b.first EXCEPT ![r.session] = n]
               met == [b EXCEPT !.first[r.session] = n]
    <3>1. /\ met = [next |-> b.next, candidates |-> b.candidates, first |-> first]
          /\ first \in [Conversations -> 0..n]
      BY <1>1, <1>2, <2>1
    <3>2. B = IF memory[n] = Loc!Entry(n) THEN [met EXCEPT !.next[n] = Loc!Entry(n)]
              ELSE IF Loc!Cardinality(b.candidates) >= PageLimit THEN Loc!Waits(met, n)
              ELSE [met EXCEPT !.next[n] = Loc!Entry(n), !.candidates = @ \cup {n}]
      BY <1>8, <2>3 DEF Loc!TakeFile, Loc!Occurs
    <3> HIDE DEF met, first
    <3>3. CASE B = [met EXCEPT !.next[n] = memory[n]]
      <4>1. B = [next |-> [b.next EXCEPT ![n] = memory[n]], candidates |-> b.candidates,
                 first |-> first]
        BY <3>1, <3>3
      <4>2. [b.next EXCEPT ![n] = memory[n]] \in [Loc!Places -> Loc!Stored]
              /\ b.candidates \subseteq 1..n
        BY <1>1, <1>2, <1>3
      <4>3. Loc!Made([b.next EXCEPT ![n] = memory[n]], b.candidates)
        BY <1>1, <1>2 DEF Loc!Made
      <4> QED
        BY <1>4, <3>1, <4>1, <4>2, <4>3
    <3>4. CASE B = [met EXCEPT !.next[n] = Loc!Entry(n), !.candidates = @ \cup {n}]
      <4>1. B = [next |-> [b.next EXCEPT ![n] = Loc!Entry(n)],
                 candidates |-> b.candidates \cup {n}, first |-> first]
        BY <3>1, <3>4
      <4>2. [b.next EXCEPT ![n] = Loc!Entry(n)] \in [Loc!Places -> Loc!Stored]
              /\ b.candidates \cup {n} \subseteq 1..n
        BY <1>1, <1>2, <2>1
      <4>3. Loc!Made([b.next EXCEPT ![n] = Loc!Entry(n)], b.candidates \cup {n})
        BY <1>1, <1>2, <2>1 DEF Loc!Made
      <4> QED
        BY <1>4, <3>1, <4>1, <4>2, <4>3
    <3> QED
      BY <3>2, <3>3, <3>4 DEF Loc!Waits
  <2> QED
    BY <2>2, <2>3
<1> QED
  BY <1>5, <1>7, <1>8

LEMMA LocalTaken ==
  ASSUME RecordFiles \in Nat, Loc!TypeOK
  PROVE  Progress(Loc!Taken, RecordFiles)
<1> DEFINE start == [next |-> Loc!Nothing, candidates |-> {},
                     first |-> [s \in Conversations |-> 0]]
           Astray == {m \in 0..RecordFiles : ~Progress(Loc!Taking[m], m)}
<1>1. /\ Loc!Taking[0] = start
      /\ \A m \in 1..RecordFiles : Loc!Taking[m] = Loc!TakeFile(Loc!Taking[m - 1], m)
  BY LocalLoop
<1>2. Progress(start, 0)
  BY DEF Progress, Loop, Loc!Made, Loc!Nothing, Loc!Stored
<1>3. Astray = {}
  <2> SUFFICES ASSUME Astray # {} PROVE FALSE
    OBVIOUS
  <2>0. Astray \subseteq 0..RecordFiles /\ Astray \subseteq Nat
    OBVIOUS
  <2>1. PICK m \in Astray : \A k \in Astray : ~(<<k, m>> \in OpToRel(<, Nat))
    <3> HIDE DEF Astray
    <3> QED BY <2>0, WFMin, NatLessThanWellFounded
  <2>2. m \in 0..RecordFiles /\ \A k \in 0..RecordFiles : k < m => k \notin Astray
    <3> HIDE DEF Astray
    <3> QED BY <2>0, <2>1 DEF OpToRel
  <2>3. m # 0
    <3> HIDE DEF start
    <3> QED BY <1>1, <1>2, <2>1
  <2>4. m - 1 \in 0..RecordFiles /\ m - 1 < m /\ m \in 1..RecordFiles
    BY <2>2, <2>3
  <2>5. Progress(Loc!Taking[m - 1], m - 1)
    BY <2>2, <2>4
  <2>6. Progress(Loc!TakeFile(Loc!Taking[m - 1], m), m)
    BY <2>4, <2>5, LocalTakesFile
  <2> QED
    BY <1>1, <2>1, <2>4, <2>6
<1> QED
  BY <1>3 DEF Loc!Taken

(* Two entries of one session are met by Doubled().                        *)
LEMMA LocalDoubled ==
  ASSUME NEW w \in [Loc!Places -> Loc!Stored], NEW f \in Loc!Places, NEW g \in Loc!Places,
         f # g, w[f] # Loc!Null, w[g] # Loc!Null, w[f].session = w[g].session
  PROVE  w[f].session \in Loc!Doubled(w)
<1>1. w[f].session \in Conversations
  BY DEF Loc!Stored
<1> QED
  BY <1>1 DEF Loc!Doubled

LocalInv == Loc!TypeOK /\ Loc!Batched /\ Loc!Rivals /\ Loc!Covered /\ Loc!Accounted

(* A page that lets the watermark advance.                                 *)
LEMMA LocalAdvances ==
  ASSUME LocalInv, Loc!Merge, ~lacking
  PROVE  (Loc!Rivals /\ Loc!Covered /\ Loc!Accounted)'
<1> USE DEF Loc!Contents, Loc!Listed, Loc!Batch
<1> DEFINE next == batch.next
           Fetched == {reads[f].session : f \in taken}
<1>1. /\ next \in [Loc!Places -> Loc!Stored] /\ memory \in [Loc!Places -> Loc!Stored]
      /\ titles \in Loc!Listed
      /\ reads \in [Loc!Places -> Loc!Reading]
      /\ step = "extracting" /\ ahead = {}
      /\ Loc!Made(next, batch.candidates) /\ batch.removals = Loc!Removals(next)
      /\ taken = batch.candidates /\ taken \subseteq Loc!Places
  BY DEF LocalInv, Loc!TypeOK, Loc!Batched, Loc!Merge
<1>2. /\ memory' = next
      /\ astray' = (astray \ batch.removals) \ Loc!SessionsOf(next, Loc!Places)
      /\ disputed' = (disputed \ Fetched) \cup Loc!Doubled(next)
  BY DEF Loc!Merge
<1>3. /\ titles' = [s \in Conversations |->
                    IF \E f \in taken : reads[f].session = s
                    THEN LET f == CHOOSE f \in taken : reads[f].session = s
                         IN  [at |-> reads[f].at, file |-> f]
                    ELSE IF s \in batch.removals THEN Loc!Null ELSE titles[s]]
  BY DEF Loc!Merge, Loc!Removed
<1>4. ASSUME NEW s \in Conversations
      PROVE  /\ s \in Fetched => titles'[s] # Loc!Null
             /\ s \notin Fetched =>
                  titles'[s] = IF s \in batch.removals THEN Loc!Null ELSE titles[s]
  BY <1>3, <1>4 DEF Loc!Null
<1>5. \A f \in taken : /\ reads[f].session \in Conversations
                           /\ next[f] # Loc!Null /\ next[f].session = reads[f].session
  <2> SUFFICES ASSUME NEW f \in taken
               PROVE  /\ reads[f].session \in Conversations
                      /\ next[f] # Loc!Null /\ next[f].session = reads[f].session
    OBVIOUS
  <2>1. next[f] = [at |-> reads[f].at, session |-> reads[f].session]
    BY <1>1 DEF Loc!Made, Loc!Entry
  <2>2. reads[f] # Loc!Null /\ reads[f].is = "read" /\ reads[f] \in Loc!Reading
    BY <1>1 DEF Loc!Made, Loc!Successful
  <2>3. reads[f].session \in Conversations
    BY <2>2 DEF Loc!Reading
  <2>4. [at |-> reads[f].at, session |-> reads[f].session] # Loc!Null
    BY DEF Loc!Null
  <2> QED
    BY <2>1, <2>3, <2>4
<1>6. ASSUME NEW f \in Loc!Places, next[f] # Loc!Null, next[f].session \notin Fetched
      PROVE  /\ next[f] = memory[f] /\ f \in Loc!Known
             /\ next[f].session \in Conversations
  BY <1>1, <1>5, <1>6 DEF Loc!Made, Loc!Known, Loc!Stored
<1> HIDE DEF next, Fetched
<1>7. Loc!Rivals'
  <2> SUFFICES ASSUME NEW f \in Loc!Places, NEW g \in Loc!Places, next[f] # Loc!Null,
                      next[g] # Loc!Null,
                      f # g, next[f].session = next[g].session
               PROVE  next[f].session \in disputed'
    BY <1>2 DEF Loc!Rivals, Loc!Known
  <2> QED
    BY <1>1, <1>2, LocalDoubled
<1>8. Loc!Covered'
  <2> SUFFICES ASSUME NEW f \in Loc!Places, next[f] # Loc!Null
               PROVE  next[f].session \in disputed' \/ titles'[next[f].session] # Loc!Null
    BY <1>2 DEF Loc!Covered, Loc!Known
  <2>1. next[f].session \in Conversations
    BY <1>1 DEF Loc!Stored
  <2>2. CASE next[f].session \in Fetched
    BY <1>4, <2>1, <2>2
  <2>3. CASE next[f].session \notin Fetched
    <3>1. next[f] = memory[f] /\ f \in Loc!Known
      BY <1>6, <2>3
    <3>2. CASE next[f].session \in disputed
      BY <1>2, <2>3, <3>2
    <3>3. CASE next[f].session \in batch.removals
      <4>1. PICK g \in Loc!Known : /\ \/ next[g] = Loc!Null
                                      \/ next[g].session # memory[g].session
                               /\ memory[g].session = next[f].session
        BY <1>1, <3>3 DEF Loc!Removals
      <4>2. f # g
        BY <3>1, <4>1
      <4>3. next[f].session \in disputed
        BY <3>1, <4>1, <4>2 DEF LocalInv, Loc!Rivals
      <4> QED
        BY <3>2, <4>3
    <3>4. CASE next[f].session \notin disputed \cup batch.removals
      <4>1. titles[next[f].session] # Loc!Null
        BY <3>1, <3>4 DEF LocalInv, Loc!Covered
      <4> QED
        BY <1>4, <2>1, <2>3, <3>4, <4>1
    <3> QED
      BY <3>2, <3>3, <3>4
  <2> QED
    BY <2>2, <2>3
<1>9. Loc!Accounted'
  <2> SUFFICES ASSUME NEW s \in Conversations, titles'[s] # Loc!Null
               PROVE  \/ s \in astray'
                      \/ \E f \in Loc!Places : next[f] # Loc!Null /\ next[f].session = s
    BY <1>2 DEF Loc!Accounted, Loc!SessionsOf
  <2>1. CASE s \in Fetched
    BY <1>1, <1>5, <2>1 DEF Fetched
  <2>2. CASE s \notin Fetched
    <3>1. titles[s] # Loc!Null /\ s \notin batch.removals
      BY <1>4, <2>2
    <3>2. CASE s \in astray
      BY <1>2, <3>1, <3>2 DEF Loc!SessionsOf
    <3>3. ASSUME NEW f \in Loc!Places, memory[f] # Loc!Null, memory[f].session = s
          PROVE  next[f] # Loc!Null /\ next[f].session = s
      BY <1>1, <3>1, <3>3 DEF Loc!Removals, Loc!Known
    <3>4. s \in astray \/ \E f \in Loc!Places : memory[f] # Loc!Null /\ memory[f].session = s
      BY <3>1 DEF LocalInv, Loc!Accounted, Loc!SessionsOf
    <3> QED
      BY <3>2, <3>3, <3>4
  <2> QED
    BY <2>1, <2>2
<1> QED
  BY <1>7, <1>8, <1>9

(* One that does not: what was extracted is listed and nothing removed.    *)
LEMMA LocalStays ==
  ASSUME LocalInv, Loc!Merge, lacking
  PROVE  (Loc!Rivals /\ Loc!Covered /\ Loc!Accounted)'
<1>1. /\ UNCHANGED <<memory, disputed>>
      /\ astray' = astray \cup {reads[f].session : f \in taken}
      /\ titles' = [s \in Conversations |->
                    IF \E f \in taken : reads[f].session = s
                    THEN LET f == CHOOSE f \in taken : reads[f].session = s
                         IN  [at |-> reads[f].at, file |-> f]
                    ELSE IF s \in {} THEN Loc!Null ELSE titles[s]]
  BY DEF Loc!Merge, Loc!Removed
<1> DEFINE M == {reads[f].session : f \in taken}
<1>2. \A s \in Conversations : /\ (s \in M => titles'[s] # Loc!Null)
                               /\ (s \notin M => titles'[s] = titles[s])
  BY <1>1 DEF Loc!Null
<1>3. /\ \A f \in Loc!Known : memory[f].session \in Conversations
      /\ \A s \in Conversations : titles[s] # Loc!Null => titles'[s] # Loc!Null
  <2>1. \A f \in Loc!Known : memory[f].session \in Conversations
    BY DEF LocalInv, Loc!TypeOK, Loc!Known, Loc!Stored
  <2>2. \A s \in Conversations : titles[s] # Loc!Null => titles'[s] # Loc!Null
    <3> HIDE DEF M
    <3> QED
      BY <1>2
  <2> QED
    BY <2>1, <2>2
<1>4. Loc!Rivals'
  BY <1>1 DEF LocalInv, Loc!Rivals, Loc!Known
<1>5. Loc!Covered'
  <2> SUFFICES ASSUME NEW f \in Loc!Places, memory[f] # Loc!Null
               PROVE  memory[f].session \in disputed \/ titles'[memory[f].session] # Loc!Null
    BY <1>1 DEF Loc!Covered, Loc!Known
  <2>1. memory[f].session \in Conversations
    BY <1>3 DEF Loc!Known
  <2>2. memory[f].session \in disputed \/ titles[memory[f].session] # Loc!Null
    BY DEF LocalInv, Loc!Covered, Loc!Known
  <2> QED
    BY <1>3, <2>1, <2>2
<1>6. Loc!Accounted'
  BY <1>1, <1>2 DEF LocalInv, Loc!Accounted, Loc!SessionsOf
<1> QED
  BY <1>4, <1>5, <1>6

LEMMA LocalMergeTypes ==
  ASSUME LocalInv, Loc!Merge
  PROVE  Loc!TypeOK' /\ Loc!Batched'
<1> USE DEF Loc!Contents, Loc!Listed, Loc!Batch
<1>1. Loc!Nothing \in [Loc!Places -> Loc!Stored]
        /\ Loc!Nothing \in [Loc!Places -> Loc!Reading]
      /\ Loc!NoBatch \in Loc!Batch
  BY DEF Loc!Nothing, Loc!NoBatch, Loc!Stored, Loc!Reading
<1>2. /\ step' = "idle" /\ ahead' = {} /\ reads' = Loc!Nothing /\ batch' = Loc!NoBatch
      /\ taken' = {}
      /\ lacking' = FALSE /\ UNCHANGED <<records, changes>>
  BY DEF Loc!Merge, Loc!Idle, Loc!environment
<1>3. memory' \in {memory, batch.next}
  BY DEF Loc!Merge
<1>4. ASSUME step = "extracting", NEW f \in taken
      PROVE  [at |-> reads[f].at, file |-> f] \in [at : Nat, file : Loc!Places]
  BY <1>4 DEF LocalInv, Loc!TypeOK, Loc!Batched, Loc!Made, Loc!Successful, Loc!Reading,
     Loc!Null
<1>5. titles' \in Loc!Listed
  <2>1. step = "extracting" /\ titles' = [s \in Conversations |->
                    IF \E f \in taken : reads[f].session = s
                    THEN LET f == CHOOSE f \in taken : reads[f].session = s
                         IN  [at |-> reads[f].at, file |-> f]
                    ELSE IF s \in Loc!Removed THEN Loc!Null ELSE titles[s]]
    BY DEF Loc!Merge
  <2>2. ASSUME NEW s \in Conversations
        PROVE  titles'[s] \in {Loc!Null} \cup [at : Nat, file : Loc!Places]
    <3>1. CASE \E f \in taken : reads[f].session = s
      <4> DEFINE f == CHOOSE f \in taken : reads[f].session = s
      <4>1. f \in taken
        BY <3>1
      <4>2. titles'[s] = [at |-> reads[f].at, file |-> f]
        BY <2>1, <3>1
      <4> HIDE DEF f
      <4> QED
        BY <1>4, <2>1, <4>1, <4>2
    <3>2. CASE ~\E f \in taken : reads[f].session = s
      BY <2>1, <3>2 DEF LocalInv, Loc!TypeOK
    <3> QED
      BY <3>1, <3>2
  <2> QED
    BY <2>1, <2>2
<1> QED
  BY <1>1, <1>2, <1>3, <1>5 DEF LocalInv, Loc!TypeOK, Loc!Batched

LEMMA LocalInit == Loc!Init => LocalInv
<1> SUFFICES ASSUME Loc!Init PROVE LocalInv
  OBVIOUS
<1> USE DEF Loc!Contents, Loc!Listed, Loc!Batch
<1>1. /\ Loc!Nothing \in [Loc!Places -> Loc!Stored]
      /\ Loc!Nothing \in [Loc!Places -> Loc!Reading]
      /\ Loc!Nothing \in Loc!Contents
      /\ [s \in Conversations |-> Loc!Null] \in Loc!Listed
      /\ Loc!NoBatch \in Loc!Batch
  BY DEF Loc!Nothing, Loc!NoBatch, Loc!Stored, Loc!Reading
<1>2. Loc!Known = {}
  BY DEF Loc!Init, Loc!Known, Loc!Nothing
<1>3. \A s \in Conversations : titles[s] = Loc!Null
  BY DEF Loc!Init
<1> QED
  BY <1>1, <1>2, <1>3
     DEF Loc!Init, LocalInv, Loc!TypeOK, Loc!Batched, Loc!Rivals, Loc!Covered, Loc!Accounted

(* What is read of a file.                                                 *)
LEMMA LocalReads ==
  ASSUME Loc!TypeOK, NEW f \in Loc!Places PROVE Loc!Read(f) \in Loc!Reading
<1> USE DEF Loc!Contents, Loc!Listed, Loc!Batch
<1>1. f \in Loc!Present => records[f] \in [at : Nat, session : Conversations \cup {Unnamed}]
  BY DEF Loc!TypeOK, Loc!Present
<1> QED
  BY <1>1 DEF Loc!Read, Loc!Reading

(* A file is taken from those that are left.                               *)
LEMMA LocalLowest ==
  ASSUME NEW S \in SUBSET Loc!Places, S # {}
  PROVE  Loc!Lowest(S) \in S
<1>1. S \subseteq Nat
  BY DEF Loc!Places
<1>2. PICK f \in S : \A g \in S : ~(<<g, f>> \in OpToRel(<, Nat))
  BY <1>1, WFMin, NatLessThanWellFounded
<1>3. ASSUME NEW g \in S PROVE f <= g
  <2>1. g \in Nat /\ f \in Nat /\ ~(g < f)
    BY <1>1, <1>2 DEF OpToRel
  <2> QED BY <2>1
<1> QED
  BY <1>3 DEF Loc!Lowest

LEMMA LocalStep == RecordFiles \in Nat /\ LocalInv /\ [Loc!Next]_(Loc!vars) => LocalInv'
<1> SUFFICES ASSUME RecordFiles \in Nat, LocalInv, [Loc!Next]_(Loc!vars) PROVE LocalInv'
  OBVIOUS
<1> USE DEF Loc!Contents, Loc!Listed, Loc!Batch
<1>0. /\ Loc!Nothing \in [Loc!Places -> Loc!Stored]
      /\ Loc!Nothing \in [Loc!Places -> Loc!Reading]
      /\ Loc!NoBatch \in Loc!Batch
  BY DEF Loc!Nothing, Loc!NoBatch, Loc!Stored, Loc!Reading
(* The index is left alone.                                                *)
<1>1. ASSUME UNCHANGED Loc!index PROVE (Loc!Rivals /\ Loc!Covered /\ Loc!Accounted)'
  BY <1>1 DEF Loc!index, LocalInv, Loc!Rivals, Loc!Covered, Loc!Accounted, Loc!Known,
     Loc!SessionsOf
(* The page is left alone too, or ends.                                    *)
<1>2. ASSUME UNCHANGED Loc!index, UNCHANGED Loc!job \/ Loc!Idle,
             records' \in Loc!Contents, changes' \in Nat
      PROVE  LocalInv'
  <2>1. Loc!TypeOK'
    BY <1>0, <1>2 DEF Loc!index, Loc!job, Loc!Idle, LocalInv, Loc!TypeOK
  <2>2. Loc!Batched'
    BY <1>2 DEF Loc!index, Loc!job, Loc!Idle, LocalInv, Loc!Batched, Loc!Made,
       Loc!Successful, Loc!Entry, Loc!Removals, Loc!Known
  <2> QED
    BY <1>1, <1>2, <2>1, <2>2 DEF LocalInv
<1>3. ASSUME Loc!Edit, records' \in Loc!Contents
      PROVE  LocalInv'
  BY <1>2, <1>3 DEF Loc!Edit, LocalInv, Loc!TypeOK
<1>4. ASSUME NEW f \in Loc!Places, Loc!Write(f) \/ Loc!Delete(f) \/ Loc!Chmod(f)
      PROVE  LocalInv'
  <2>1. Loc!Edit
    BY <1>4 DEF Loc!Write, Loc!Delete, Loc!Chmod
  <2>2. records' \in Loc!Contents
    <3>1. CASE Loc!Write(f)
      <4>1. PICK s \in Conversations \cup {Unnamed} :
               records' = [records EXCEPT ![f] = [at |-> changes + 1, session |-> s]]
        BY <3>1 DEF Loc!Write
      <4> QED
        BY <4>1 DEF LocalInv, Loc!TypeOK
    <3>2. CASE Loc!Delete(f)
      BY <3>2 DEF Loc!Delete, LocalInv, Loc!TypeOK
    <3>3. CASE Loc!Chmod(f)
      BY <3>3 DEF Loc!Chmod, LocalInv, Loc!TypeOK
    <3> QED
      BY <1>4, <3>1, <3>2, <3>3
  <2> QED
    BY <1>3, <2>1, <2>2
<1>5. ASSUME NEW f \in Loc!Places, NEW g \in Loc!Places, Loc!Rename(f, g) PROVE LocalInv'
  <2>1. /\ Loc!Edit /\ records[f] # Loc!Null
        /\ records' = [records EXCEPT ![f] = Loc!Null,
                       ![g] = [records[f] EXCEPT !.at = changes + 1]]
    BY <1>5 DEF Loc!Rename, Loc!Present
  <2>2. [records[f] EXCEPT !.at = changes + 1]
          \in [at : Nat, session : Conversations \cup {Unnamed}]
    BY <2>1 DEF LocalInv, Loc!TypeOK
  <2>3. records' \in Loc!Contents
    BY <2>1, <2>2 DEF LocalInv, Loc!TypeOK
  <2> QED
    BY <1>3, <2>1, <2>3
<1>6. CASE Loc!Withdraw
  <2>1. Loc!Edit /\ records' = Loc!Nothing
    BY <1>6 DEF Loc!Withdraw
  <2> QED
    BY <1>3, <2>1 DEF Loc!Nothing
<1>7. CASE Loc!Abandon
  <2>1. UNCHANGED Loc!index /\ Loc!Idle /\ UNCHANGED records /\ changes' = changes + 1
    BY <1>7 DEF Loc!Abandon, Loc!index
  <2> QED
    BY <1>2, <2>1 DEF LocalInv, Loc!TypeOK
(* Reading: the page is not extracting.                                    *)
<1>8. ASSUME UNCHANGED Loc!index, step # "extracting", step' = "reading",
             ahead' \subseteq Loc!Places, reads' \in [Loc!Places -> Loc!Reading],
             UNCHANGED <<batch, taken, lacking>>, changes' \in Nat,
             records' \in Loc!Contents
      PROVE  LocalInv'
  <2>1. Loc!TypeOK' /\ Loc!Batched'
    BY <1>8 DEF Loc!index, LocalInv, Loc!TypeOK, Loc!Batched
  <2> QED
    BY <1>1, <1>8, <2>1 DEF LocalInv
<1>9. ASSUME UNCHANGED Loc!environment
      PROVE  changes' \in Nat /\ records' \in Loc!Contents
  BY <1>9 DEF Loc!environment, LocalInv, Loc!TypeOK
<1>10. CASE Loc!ChangesUnderRead
  <2>1. PICK f \in {Loc!Lowest(ahead)}, s \in Conversations \cup {Unnamed} :
           /\ f \in Loc!Present
           /\ records' = [records EXCEPT ![f] = [at |-> changes + 1, session |-> s]]
           /\ ahead' = ahead \ {f}
           /\ reads' = [reads EXCEPT ![f] = [at |-> 0, is |-> "bad"]]
    BY <1>10 DEF Loc!ChangesUnderRead
  <2>2. f \in Loc!Places
    BY <2>1 DEF Loc!Present
  <2>3. /\ records' \in Loc!Contents
        /\ reads' \in [Loc!Places -> Loc!Reading] /\ ahead' \subseteq Loc!Places
    BY <2>1, <2>2 DEF LocalInv, Loc!TypeOK, Loc!Reading
  <2>4. UNCHANGED Loc!index /\ step = "reading" /\ step' = "reading"
          /\ UNCHANGED <<batch, taken, lacking>> /\ changes' \in Nat
    BY <1>10 DEF Loc!ChangesUnderRead, Loc!index, LocalInv, Loc!TypeOK
  <2> QED
    BY <1>8, <2>3, <2>4
<1>11. CASE Loc!Begin
  <2>1. CASE Loc!Purge
    <3>1. /\ memory' = Loc!Nothing /\ titles' = [s \in Conversations |-> Loc!Null]
          /\ UNCHANGED Loc!job /\ step = "idle" /\ UNCHANGED Loc!environment
      BY <1>11, <2>1 DEF Loc!Begin, Loc!Purge
    <3>2. Loc!TypeOK'
      BY <1>0, <1>9, <3>1 DEF LocalInv, Loc!TypeOK, Loc!job
    <3>3. Loc!Known' = {}
      BY <3>1 DEF Loc!Known, Loc!Nothing
    <3>4. Loc!Batched' /\ Loc!Rivals' /\ Loc!Covered' /\ Loc!Accounted'
      BY <3>1, <3>3 DEF LocalInv, Loc!Batched, Loc!Rivals, Loc!Covered, Loc!Accounted, Loc!job
    <3> QED
      BY <3>2, <3>4 DEF LocalInv
  <2>2. CASE ~Loc!Purge
    <3>1. /\ step = "idle" /\ step' = "reading" /\ ahead' = Loc!Listing
          /\ UNCHANGED Loc!index /\ UNCHANGED <<batch, taken, lacking>>
          /\ reads' = [f \in Loc!Places |-> IF f \in Loc!Listing
                       THEN [at |-> 0, is |-> "listed"] ELSE Loc!Null]
          /\ UNCHANGED Loc!environment
      BY <1>11, <2>2 DEF Loc!Begin, Loc!index
    <3>2. ahead' \subseteq Loc!Places /\ reads' \in [Loc!Places -> Loc!Reading]
      BY <3>1 DEF Loc!Listing, Loc!Present, Loc!Reading
    <3> QED
      BY <1>8, <1>9, <3>1, <3>2
  <2> QED
    BY <2>1, <2>2
<1>12. CASE Loc!ReadFile
  <2>1. PICK f \in {Loc!Lowest(ahead)} : /\ ahead' = ahead \ {f}
                                        /\ reads' = [reads EXCEPT ![f] = Loc!Read(f)]
    BY <1>12 DEF Loc!ReadFile
  <2>2. ahead' \subseteq Loc!Places /\ reads' \in [Loc!Places -> Loc!Reading]
    <3>1. f \in Loc!Places => Loc!Read(f) \in Loc!Reading
      BY LocalReads DEF LocalInv
    <3> QED
      BY <2>1, <3>1 DEF LocalInv, Loc!TypeOK
  <2>3. /\ UNCHANGED Loc!index /\ step = "reading" /\ step' = "reading"
        /\ UNCHANGED <<batch, taken, lacking>>
        /\ UNCHANGED Loc!environment
    BY <1>12 DEF Loc!ReadFile, Loc!index
  <2> QED
    BY <1>8, <1>9, <2>2, <2>3
<1>13. CASE Loc!Conclude
  <2> DEFINE next == Loc!Kept(Loc!Taken.next)
  <2>1. /\ batch' = [candidates |-> Loc!Taken.candidates, next |-> next,
                     removals |-> Loc!Removals(next)]
        /\ step' = "extracting" /\ ahead' = Loc!Taken.candidates
        /\ UNCHANGED Loc!environment /\ UNCHANGED Loc!index
        /\ UNCHANGED <<reads, taken, lacking>>
    BY <1>13 DEF Loc!Conclude, Loc!index
  <2>2. /\ Loc!Taken.next \in [Loc!Places -> Loc!Stored]
        /\ Loc!Taken.candidates \subseteq Loc!Places
        /\ Loc!Made(Loc!Taken.next, Loc!Taken.candidates)
    BY LocalTaken DEF Progress, Loop, LocalInv, Loc!Places
  <2>3. next \in [Loc!Places -> Loc!Stored] /\ Loc!Made(next, Loc!Taken.candidates)
    <3>1. \A f \in Loc!Places : next[f] = Loc!Taken.next[f]
            \/ (Loc!Taken.next[f] = Loc!Null /\ next[f] = memory[f])
      BY DEF Loc!Kept
    <3>2. next \in [Loc!Places -> Loc!Stored]
      BY <2>2 DEF Loc!Kept, LocalInv, Loc!TypeOK
    <3>3. \A f \in Loc!Taken.candidates : Loc!Entry(f) # Loc!Null
      BY DEF Loc!Entry, Loc!Null
    <3> HIDE DEF next
    <3> QED
      BY <2>2, <3>1, <3>2, <3>3 DEF Loc!Made
  <2> HIDE DEF next
  <2>4. Loc!Removals(next) \subseteq Conversations
    BY DEF Loc!Removals, Loc!Known, LocalInv, Loc!TypeOK, Loc!Stored
  <2>5. step = "reading" /\ taken' = taken
    BY <1>13, <2>1 DEF Loc!Conclude
  <2>6. Loc!TypeOK'
    BY <1>9, <2>1, <2>2, <2>3, <2>4 DEF LocalInv, Loc!TypeOK, Loc!index
  <2>7. Loc!Batched'
    BY <2>1, <2>3, <2>5
       DEF LocalInv, Loc!Batched, Loc!Made, Loc!Successful, Loc!Entry, Loc!Removals,
           Loc!Known, Loc!index
  <2> QED
    BY <1>1, <2>1, <2>6, <2>7 DEF LocalInv
<1>14. CASE Loc!Extract
  <2>1. PICK f \in {Loc!Lowest(ahead)} :
           /\ ahead' = ahead \ {f}
           /\ IF Loc!Read(f) = reads[f] THEN taken' = taken \cup {f} /\ UNCHANGED lacking
              ELSE lacking' = TRUE /\ UNCHANGED taken
    BY <1>14 DEF Loc!Extract
  <2>2. /\ UNCHANGED Loc!environment /\ UNCHANGED Loc!index
        /\ UNCHANGED <<step, reads, batch>>
        /\ step = "extracting" /\ ahead # {}
    BY <1>14 DEF Loc!Extract, Loc!index
  <2>3. f \in ahead
    BY <2>2, LocalLowest DEF LocalInv, Loc!TypeOK
  <2>4. Loc!TypeOK'
    BY <1>9, <2>1, <2>2, <2>3 DEF LocalInv, Loc!TypeOK, Loc!index
  <2>5. Loc!Batched'
    <3>1. Loc!Made(batch.next, batch.candidates)'
            /\ batch'.removals = Loc!Removals(batch.next)'
      BY <2>2 DEF LocalInv, Loc!Batched, Loc!Made, Loc!Successful, Loc!Entry, Loc!Removals,
         Loc!Known, Loc!index
    <3> QED
      BY <2>1, <2>2, <2>3, <3>1 DEF LocalInv, Loc!Batched
  <2> QED
    BY <1>1, <2>2, <2>4, <2>5 DEF LocalInv
<1>15. CASE Loc!Merge
  BY <1>15, LocalMergeTypes, LocalAdvances, LocalStays DEF LocalInv
<1>16. CASE UNCHANGED Loc!vars
  BY <1>2, <1>9, <1>16 DEF Loc!vars
<1> QED
  BY <1>4, <1>5, <1>6, <1>7, <1>10, <1>11, <1>12, <1>13, <1>14, <1>15, <1>16
     DEF Loc!Next, Loc!Page

(* Types of the records, the watermark, the index and the page, for any    *)
(* number of files, sessions, limits and edits.                            *)
THEOREM LocalTypes == RecordFiles \in Nat => (Loc!Spec => []Loc!TypeOK)
<1> SUFFICES ASSUME RecordFiles \in Nat PROVE Loc!Spec => []Loc!TypeOK
  OBVIOUS
<1>1. LocalInv => Loc!TypeOK
  BY DEF LocalInv
<1>2. LocalInv /\ [Loc!Next]_(Loc!vars) => LocalInv'
  BY LocalStep
<1> QED
  BY <1>1, <1>2, LocalInit, PTL DEF Loc!Spec

(* Covered: a session that an entry of the watermark names is in the index *)
(* unless two entries named it, whatever became of the files while they    *)
(* were read and extracted, and whichever page failed.                     *)
THEOREM LocalPassedOverIsListed == RecordFiles \in Nat => (Loc!Spec => []Loc!Covered)
<1> SUFFICES ASSUME RecordFiles \in Nat PROVE Loc!Spec => []Loc!Covered
  OBVIOUS
<1>1. LocalInv => Loc!Covered
  BY DEF LocalInv
<1>2. LocalInv /\ [Loc!Next]_(Loc!vars) => LocalInv'
  BY LocalStep
<1> QED
  BY <1>1, <1>2, LocalInit, PTL DEF Loc!Spec

(* Accounted: a session in the index is named by an entry of the           *)
(* watermark, by which it is missed when it goes, unless a page that       *)
(* failed put it there.                                                    *)
THEOREM LocalListedIsNamed == RecordFiles \in Nat => (Loc!Spec => []Loc!Accounted)
<1> SUFFICES ASSUME RecordFiles \in Nat PROVE Loc!Spec => []Loc!Accounted
  OBVIOUS
<1>1. LocalInv => Loc!Accounted
  BY DEF LocalInv
<1>2. LocalInv /\ [Loc!Next]_(Loc!vars) => LocalInv'
  BY LocalStep
<1> QED
  BY <1>1, <1>2, LocalInit, PTL DEF Loc!Spec

-----------------------------------------------------------------------------
(***************************************************************************)
(* The inventory of a known store (StoreInventory), while agents write and *)
(* the user removes.  A transcript that was there since the walk began has *)
(* been found, or a directory on the way to it is still to be listed, or   *)
(* an error says that something was left out (NothingLost).  That the look *)
(* at a directory finds it needs that the enumeration had it (Enumerated), *)
(* and that what is on the way to it is there with it (Rooted).            *)
(***************************************************************************)

CONSTANTS Layout, Expected, DirLimits, MostPaths, MostInStore
VARIABLES format, max_dirs, entries, unreadable, names, children, found, visited, errors,
          listed, steady, missed

Inv == INSTANCE StoreInventory
         WITH MaxFiles <- MostPaths, MaxStore <- MostInStore, MaxEdits <- MostEdits,
              pc <- step, todo <- ahead, files <- found, index <- listed, edits <- changes

InventoryInv == /\ Inv!TypeOK /\ Inv!Rooted /\ Inv!Enumerated /\ Inv!Levels
                /\ Inv!NothingLost
StoresAreTrees == Inv!LayoutIsTree /\ Inv!LimitsAreNumbers

(* The instance has the cardinality of the library.                        *)
LEMMA InventoryCounts ==
  \A S : Inv!Cardinality(S) = Cardinality(S) /\ (Inv!IsFiniteSet(S) <=> IsFiniteSet(S))
<1>1. \A S : Inv!Cardinality(S) = Cardinality(S)
  BY DEF Inv!Cardinality, Cardinality
<1>2. \A S : Inv!IsFiniteSet(S) <=> IsFiniteSet(S)
  BY DEF Inv!IsFiniteSet, IsFiniteSet
<1> QED
  BY <1>1, <1>2

(* Nothing is cut off of what is within the limit.                         *)
LEMMA InventoryWithin ==
  ASSUME NEW S, IsFiniteSet(S), NEW n \in Int, Cardinality(S) <= n
  PROVE  Inv!Foremost(n, S) = S
<1> SUFFICES ASSUME NEW x \in S
             PROVE  Cardinality({y \in S \ {x} : Inv!Precedes(y, x)}) < n
  BY InventoryCounts DEF Inv!Foremost
<1> DEFINE T == {y \in S \ {x} : Inv!Precedes(y, x)}
<1>1. IsFiniteSet(S \ {x}) /\ Cardinality(S \ {x}) = Cardinality(S) - 1 /\ Cardinality(S) \in Nat
  BY FS_RemoveElement, FS_CardinalityType
<1>2. T \in SUBSET (S \ {x})
  OBVIOUS
<1>3. Cardinality(T) <= Cardinality(S \ {x}) /\ Cardinality(T) \in Nat
  <2> HIDE DEF T
  <2> QED
    BY <1>1, <1>2, FS_Subset, FS_CardinalityType
<1> HIDE DEF T
<1>4. Cardinality(T) < n
  BY <1>1, <1>3
<1> QED
  BY <1>4 DEF T

(* The places on the way to a transcript.                                  *)
LEMMA InventoryPaths ==
  ASSUME StoresAreTrees, Inv!TypeOK, Inv!Rooted, NEW f \in steady
  PROVE  /\ f \in Inv!Places /\ f \in entries /\ f \in Seq(Nat) /\ Inv!Kind(f) = "file"
         /\ Len(f) = Inv!Depth[format] + 1 /\ SubSeq(f, 1, Len(f)) = f
         /\ \A k \in 0..Len(f) : SubSeq(f, 1, k) \in entries
         /\ \A k \in 1..Len(f) : /\ SubSeq(f, 1, k) # <<>> /\ Len(SubSeq(f, 1, k)) = k
                                 /\ Inv!Front(SubSeq(f, 1, k)) = SubSeq(f, 1, k - 1)
         /\ \A k \in 1..Len(f) - 1 : Inv!Kind(SubSeq(f, 1, k)) = "directory"
         /\ SubSeq(f, 1, 0) = <<>>
<1>1. f \in entries /\ f # <<>> /\ f \in Inv!Places /\ Inv!Kind(f) = "file"
  BY DEF Inv!TypeOK, Inv!Transcripts
<1>2. f \in DOMAIN Layout[format] /\ format \in Inv!Formats /\ Layout[format][f] = "file"
  BY <1>1 DEF Inv!Places, Inv!Kind, Inv!TypeOK
<1>3. f \in Seq(Nat) /\ Len(f) = Inv!Depth[format] + 1 /\ Len(f) \in Nat
  BY <1>2 DEF StoresAreTrees, Inv!LayoutIsTree
<1>4. \A k \in 1..Len(f) - 1 : Layout[format][SubSeq(f, 1, k)] = "directory"
  BY <1>2 DEF StoresAreTrees, Inv!LayoutIsTree
<1>5. \A k \in 1..Len(f) : /\ SubSeq(f, 1, k) # <<>> /\ Len(SubSeq(f, 1, k)) = k
                           /\ Inv!Front(SubSeq(f, 1, k)) = SubSeq(f, 1, k - 1)
  <2> SUFFICES ASSUME NEW k \in 1..Len(f)
               PROVE  /\ SubSeq(f, 1, k) # <<>> /\ Len(SubSeq(f, 1, k)) = k
                      /\ Inv!Front(SubSeq(f, 1, k)) = SubSeq(f, 1, k - 1)
    OBVIOUS
  <2>1. /\ SubSeq(f, 1, k) \in Seq(Nat) /\ Len(SubSeq(f, 1, k)) = k
        /\ \A i \in 1..k : SubSeq(f, 1, k)[i] = f[i]
    BY <1>3
  <2>2. SubSeq(SubSeq(f, 1, k), 1, k - 1) = SubSeq(f, 1, k - 1)
    BY <1>3, <2>1
  <2> QED
    BY <1>3, <2>1, <2>2 DEF Inv!Front
<1>6. SubSeq(f, 1, 0) = <<>> /\ SubSeq(f, 1, Len(f)) = f
  BY <1>3
<1>7. \A k \in 0..Len(f) : SubSeq(f, 1, k) \in entries
  BY <1>1 DEF Inv!Rooted
<1>8. \A k \in 1..Len(f) - 1 : Inv!Kind(SubSeq(f, 1, k)) = "directory"
  BY <1>3, <1>4, <1>5 DEF Inv!Kind
<1> QED
  BY <1>1, <1>3, <1>5, <1>6, <1>7, <1>8

LEMMA InventoryFinite ==
  ASSUME StoresAreTrees, Inv!TypeOK, NEW S \in SUBSET Inv!Places
  PROVE  IsFiniteSet(S) /\ Cardinality(S) \in Nat
<1>1. IsFiniteSet(Inv!Places)
  BY InventoryCounts DEF StoresAreTrees, Inv!LayoutIsTree, Inv!Places, Inv!TypeOK
<1> QED
  BY <1>1, FS_Subset, FS_CardinalityType

(* A step to the next directory or the next level, that finds what was in  *)
(* the directory d.                                                        *)
LEMMA InventoryGoesOn ==
  ASSUME StoresAreTrees, InventoryInv, step \in {"open", "look"}, NEW d,
         NEW more \in SUBSET Inv!Places, NEW noted \in SUBSET {"listing", "limit", "shape"},
         Inv!Continues(d, more, noted), Inv!Flat => d = <<>> /\ more = {},
         UNCHANGED <<format, max_dirs, entries, steady, listed>>,
         names' \cup found' \subseteq Inv!Places, missed' \in BOOLEAN,
         (errors \cup noted) \subseteq {"shape"} /\ ~missed' =>
            \A f \in steady : \/ f \in found'
                              \/ \E k \in 0..Len(f) - 1 :
                                    SubSeq(f, 1, k) \in (ahead \ {d}) \cup more
  PROVE  InventoryInv'
<1> USE DEF InventoryInv
<1>1. CASE ahead # {d}
  <2>1. /\ ahead' = ahead \ {d} /\ children' = more /\ errors' = errors \cup noted
        /\ ahead' # {} /\ step' = "open"
    BY <1>1 DEF Inv!Continues, Inv!Goes, Inv!Notes, Inv!Levels
  <2>2. Inv!TypeOK'
    BY <2>1 DEF Inv!TypeOK, Inv!Transcripts, Inv!Places, Inv!Kind
  <2>3. Inv!Rooted' /\ Inv!Enumerated'
    BY <2>1 DEF Inv!Rooted, Inv!Enumerated
  <2>4. Inv!Levels'
    BY <1>1, <2>1 DEF Inv!Levels, Inv!Flat
  <2>5. Inv!NothingLost'
    BY <2>1 DEF Inv!NothingLost, Inv!Ahead
  <2> QED
    BY <2>2, <2>3, <2>4, <2>5
<1>2. CASE ahead = {d}
  <2>1. /\ ahead' = Inv!Foremost(max_dirs, more) /\ children' = {}
        /\ errors' = errors \cup (noted \cup Inv!Truncated(more))
        /\ step' = IF ahead' = {} THEN "stamp" ELSE "open"
    BY <1>2 DEF Inv!Continues, Inv!Goes, Inv!Notes
  <2>2. ahead' \subseteq more /\ Inv!Truncated(more) \subseteq {"limit"}
    BY <2>1 DEF Inv!Foremost, Inv!Truncated
  <2>3. Inv!TypeOK'
    BY <2>1, <2>2 DEF Inv!TypeOK, Inv!Transcripts, Inv!Places, Inv!Kind
  <2>4. Inv!Rooted' /\ Inv!Enumerated'
    BY <2>1 DEF Inv!Rooted, Inv!Enumerated
  <2>5. Inv!Levels'
    BY <2>1, <2>2 DEF Inv!Levels, Inv!Flat
  <2>6. Inv!NothingLost'
    <3> SUFFICES ASSUME errors' \subseteq {"shape"}, ~missed', NEW f \in steady, f \notin found'
                 PROVE  Inv!Ahead(f)'
      BY DEF Inv!NothingLost
    <3>1. "limit" \notin Inv!Truncated(more)
      BY <2>1
    <3>2. max_dirs \in Nat
      BY DEF StoresAreTrees, Inv!LimitsAreNumbers, Inv!TypeOK
    <3>3. Cardinality(more) <= max_dirs
      BY <3>1, <3>2, InventoryFinite, InventoryCounts DEF Inv!Truncated
    <3>4. ahead' = more
      BY <2>1, <3>2, <3>3, InventoryFinite, InventoryWithin
    <3>5. \E k \in 0..Len(f) - 1 : SubSeq(f, 1, k) \in (ahead \ {d}) \cup more
      BY <2>1
    <3> QED
      BY <1>2, <3>4, <3>5 DEF Inv!Ahead
  <2> QED
    BY <2>3, <2>4, <2>5, <2>6
<1> QED
  BY <1>1, <1>2

(* The walk ends.                                                          *)
LEMMA InventoryEndsWalk ==
  ASSUME InventoryInv, Inv!Stops, NEW noted \in SUBSET {"listing", "limit", "shape"},
         Inv!Notes(noted),
         UNCHANGED <<format, max_dirs, entries, steady, listed>>,
         names' \cup found' \subseteq Inv!Places, missed' \in BOOLEAN,
         errors' \subseteq {"shape"} /\ ~missed' => steady \subseteq found'
  PROVE  InventoryInv'
<1> USE DEF InventoryInv
<1>1. ahead' = {} /\ children' = {} /\ step' = "stamp" /\ errors' = errors \cup noted
  BY DEF Inv!Stops, Inv!Goes, Inv!Notes
<1>2. Inv!TypeOK'
  BY <1>1 DEF Inv!TypeOK, Inv!Transcripts, Inv!Places, Inv!Kind
<1>3. Inv!Rooted' /\ Inv!Enumerated' /\ Inv!Levels' /\ Inv!NothingLost'
  BY <1>1 DEF Inv!Rooted, Inv!Enumerated, Inv!Levels, Inv!NothingLost
<1> QED
  BY <1>2, <1>3

(* A directory of transcripts is looked at.                                *)
LEMMA InventoryCollects ==
  ASSUME StoresAreTrees, InventoryInv, step = "look", ~Inv!Flat, NEW opaque,
         Inv!Collects(Inv!First(ahead), opaque), names' = {}, UNCHANGED missed, Inv!Constant,
         \A f \in steady : \A k \in 0..Len(f) - 1 :
            SubSeq(f, 1, k) = Inv!First(ahead) => k = Len(f) - 1
  PROVE  InventoryInv'
<1> USE DEF InventoryInv
<1> DEFINE d == Inv!First(ahead)
           S == Inv!Looked \cap Inv!Of("file")
           room == MostPaths - Inv!Cardinality(found)
           odd == Inv!Shape(Inv!Looked \ (Inv!Of("file") \cup opaque))
<1>1. /\ found' = found \cup Inv!Foremost(room, S)
      /\ IF Inv!Looked # names \/ Inv!Cardinality(S) > room
         THEN Inv!Stops /\ Inv!Notes(odd \cup {"limit"})
         ELSE Inv!Continues(d, children, odd)
  BY DEF Inv!Collects
<1>2. odd \subseteq {"shape"} /\ S \subseteq Inv!Of("file") /\ Inv!Foremost(room, S) \subseteq S
  BY DEF Inv!Shape, Inv!Foremost
<1>3. Inv!Of("file") \subseteq Inv!Places
  BY DEF Inv!Of, Inv!TypeOK
<1>4. /\ names' \cup found' \subseteq Inv!Places /\ missed' \in BOOLEAN
      /\ UNCHANGED <<format, max_dirs, entries, steady, listed>>
      /\ children \in SUBSET Inv!Places
  BY <1>1, <1>2, <1>3 DEF Inv!TypeOK, Inv!Constant, Inv!store
<1>5. CASE Inv!Looked # names \/ Inv!Cardinality(S) > room
  <2>1. "limit" \in errors' /\ odd \cup {"limit"} \subseteq {"listing", "limit", "shape"}
    BY <1>1, <1>2, <1>5 DEF Inv!Notes
  <2> HIDE DEF odd
  <2> QED
    BY <1>1, <1>4, <1>5, <2>1, InventoryEndsWalk
<1>6. CASE Inv!Looked = names /\ ~(Inv!Cardinality(S) > room)
  <2>1. S \in SUBSET Inv!Places /\ found \in SUBSET Inv!Places
    BY <1>2, <1>3 DEF Inv!TypeOK
  <2>2. Cardinality(S) \in Nat /\ IsFiniteSet(S) /\ Cardinality(found) \in Nat
    BY <2>1, InventoryFinite
  <2>3. room \in Int /\ Cardinality(S) <= room
    BY <1>6, <2>2, InventoryCounts DEF StoresAreTrees, Inv!LimitsAreNumbers
  <2>4. Inv!Foremost(room, S) = S
    <3> HIDE DEF S, room
    <3> QED
      BY <2>2, <2>3, InventoryWithin
  <2>5. ASSUME (errors \cup odd) \subseteq {"shape"}, ~missed', NEW f \in steady, f \notin found'
        PROVE  \E k \in 0..Len(f) - 1 : SubSeq(f, 1, k) \in (ahead \ {d}) \cup children
    <3>1. f \notin found /\ f \notin S
      BY <1>1, <2>4, <2>5
    <3>2. PICK k \in 0..Len(f) - 1 : SubSeq(f, 1, k) \in ahead \cup children
      BY <2>5, <3>1 DEF Inv!NothingLost, Inv!Ahead
    <3>3. CASE SubSeq(f, 1, k) = d
      <4>1. k = Len(f) - 1
        BY <3>3
      <4>2. f \in Seq(Nat)
        BY InventoryPaths
      <4>3. Len(f) \in Nat /\ Len(f) \in 1..Len(f)
        BY <3>2, <4>2
      <4>4. SubSeq(f, 1, Len(f)) \in names
        BY <3>3, <4>1, <4>3 DEF Inv!Enumerated
      <4>5. SubSeq(f, 1, Len(f)) = f /\ Inv!Kind(f) = "file"
        BY InventoryPaths
      <4>6. f \in S
        BY <1>6, <4>4, <4>5 DEF Inv!Of
      <4> QED
        BY <3>1, <4>6
    <3> QED
      BY <3>2, <3>3
  <2>6. Inv!Continues(d, children, odd)
    BY <1>1, <1>6
  <2>7. odd \in SUBSET {"listing", "limit", "shape"}
    BY <1>2
  <2> HIDE DEF odd, d
  <2> QED
    BY <1>4, <2>5, <2>6, <2>7, InventoryGoesOn
<1> QED
  BY <1>5, <1>6

(* What is missing does not hold a transcript that was there all along,    *)
(* and what cannot be listed is an error.                                  *)
LEMMA InventoryFails ==
  ASSUME StoresAreTrees, InventoryInv, step \in {"open", "look"}, names' \subseteq Inv!Places,
         UNCHANGED <<format, max_dirs, entries, steady, listed, found>>, missed' \in BOOLEAN,
         \/ Inv!Unlistable(Inv!First(ahead)) /\ missed' = missed
         \/ /\ Inv!Missing(Inv!First(ahead))
            /\ missed' \/ (missed' = missed /\ Inv!First(ahead) \notin entries)
  PROVE  InventoryInv'
<1> USE DEF InventoryInv
<1> DEFINE d == Inv!First(ahead)
<1>1. Inv!Flat => d = <<>> /\ children = {}
  BY DEF Inv!Levels, Inv!First
<1>2. names' \cup found' \subseteq Inv!Places /\ children \in SUBSET Inv!Places
  BY DEF Inv!TypeOK
<1>3. PICK noted \in SUBSET {"listing", "limit", "shape"} :
         /\ Inv!Continues(d, children, noted)
         /\ "listing" \in noted \/ missed' \/ (missed' = missed /\ d \notin entries)
  BY DEF Inv!Unlistable, Inv!Missing
<1>4. ASSUME (errors \cup noted) \subseteq {"shape"}, ~missed', NEW f \in steady, f \notin found'
      PROVE  \E k \in 0..Len(f) - 1 : SubSeq(f, 1, k) \in (ahead \ {d}) \cup children
  <2>1. d \notin entries /\ ~missed /\ f \notin found
    BY <1>3, <1>4
  <2>2. PICK k \in 0..Len(f) - 1 : SubSeq(f, 1, k) \in ahead \cup children
    BY <1>4, <2>1 DEF Inv!NothingLost, Inv!Ahead
  <2>3. SubSeq(f, 1, k) \in entries
    BY InventoryPaths
  <2> QED
    BY <2>1, <2>2, <2>3
<1> HIDE DEF d
<1> QED
  BY <1>1, <1>2, <1>3, <1>4, InventoryGoesOn

LEMMA InventoryEnumerates == ASSUME StoresAreTrees, InventoryInv, Inv!Enumerate PROVE InventoryInv'
<1> USE DEF InventoryInv
<1> DEFINE d == Inv!First(ahead)
<1>1. /\ step = "open" /\ UNCHANGED <<found, visited, missed>>
      /\ UNCHANGED <<format, max_dirs, entries, steady, listed>>
  BY DEF Inv!Enumerate, Inv!Constant, Inv!store
<1>2. CASE d \in entries \ unreadable
  <2>1. /\ names' = Inv!EntriesOf(d) /\ step' = "look" /\ UNCHANGED <<ahead, children, errors>>
    BY <1>2 DEF Inv!Enumerate
  <2>2. names' \subseteq Inv!Places
    BY <2>1 DEF Inv!EntriesOf, Inv!TypeOK
  <2>3. Inv!TypeOK'
    BY <1>1, <2>1, <2>2 DEF Inv!TypeOK, Inv!Transcripts, Inv!Places, Inv!Kind
  <2>4. Inv!Rooted' /\ Inv!Levels' /\ Inv!NothingLost'
    BY <1>1, <2>1 DEF Inv!Rooted, Inv!Levels, Inv!NothingLost, Inv!Ahead, Inv!Flat
  <2>5. Inv!Enumerated'
    <3> SUFFICES ASSUME NEW f \in steady, NEW k \in 1..Len(f), SubSeq(f, 1, k - 1) = d
                 PROVE  SubSeq(f, 1, k) \in names'
      BY <1>1, <2>1 DEF Inv!Enumerated, Inv!First, Inv!Precedes, Inv!Later
    <3>1. f \in Seq(Nat)
      BY InventoryPaths
    <3>2. \A i \in 1..Len(f) : /\ SubSeq(f, 1, i) # <<>> /\ Len(SubSeq(f, 1, i)) = i
                              /\ Inv!Front(SubSeq(f, 1, i)) = SubSeq(f, 1, i - 1)
      BY InventoryPaths
    <3>3. k \in 0..Len(f)
      BY <3>1
    <3>4. SubSeq(f, 1, k) \in entries
      BY <3>3, InventoryPaths
    <3> QED
      BY <2>1, <3>2, <3>4 DEF Inv!EntriesOf
  <2> QED
    BY <2>3, <2>4, <2>5
<1>3. CASE d \notin entries \ unreadable
  <2>1. UNCHANGED names /\ (Inv!Unlistable(d) \/ (Inv!Missing(d) /\ d \notin entries))
    BY <1>3 DEF Inv!Enumerate
  <2>2. names' \subseteq Inv!Places /\ missed' \in BOOLEAN
    BY <1>1, <2>1 DEF Inv!TypeOK
  <2> HIDE DEF d
  <2>3. d = Inv!First(ahead)
    BY DEF d
  <2> QED
    BY <1>1, <2>1, <2>2, <2>3, InventoryFails
<1> QED
  BY <1>2, <1>3

(* A directory of Codex's or Claude Code's that holds directories.         *)
LEMMA InventoryDescends ==
  ASSUME StoresAreTrees, InventoryInv, step = "look", ~Inv!Flat, names' = {}, UNCHANGED <<missed, found>>,
         Inv!Constant, NEW noted \in SUBSET {"shape"},
         Inv!Continues(Inv!First(ahead), children \cup Inv!Of("directory"), noted),
         \A f \in steady : \A k \in 0..Len(f) - 1 :
            SubSeq(f, 1, k) = Inv!First(ahead) => k # Len(f) - 1
  PROVE  InventoryInv'
<1> USE DEF InventoryInv
<1> DEFINE d == Inv!First(ahead)
           more == children \cup Inv!Of("directory")
<1>1. /\ UNCHANGED <<format, max_dirs, entries, steady, listed>>
      /\ names' \cup found' \subseteq Inv!Places /\ missed' \in BOOLEAN
      /\ more \in SUBSET Inv!Places /\ noted \in SUBSET {"listing", "limit", "shape"}
  BY DEF Inv!Constant, Inv!store, Inv!TypeOK, Inv!Of
<1>2. ASSUME (errors \cup noted) \subseteq {"shape"}, ~missed', NEW f \in steady, f \notin found'
      PROVE  \E k \in 0..Len(f) - 1 : SubSeq(f, 1, k) \in (ahead \ {d}) \cup more
  <2>1. PICK k \in 0..Len(f) - 1 : SubSeq(f, 1, k) \in ahead \cup children
    BY <1>2 DEF Inv!NothingLost, Inv!Ahead
  <2>2. CASE SubSeq(f, 1, k) = d
    <3>1. k # Len(f) - 1
      BY <2>2
    <3>2. f \in Seq(Nat)
      BY InventoryPaths
    <3>3. k + 1 \in 1..Len(f) - 1 /\ k + 1 \in 1..Len(f) /\ k + 1 - 1 = k
      BY <3>1, <3>2
    <3>4. SubSeq(f, 1, k + 1) \in names
      BY <2>2, <3>3 DEF Inv!Enumerated
    <3>5. \A i \in 1..Len(f) - 1 : Inv!Kind(SubSeq(f, 1, i)) = "directory"
      BY InventoryPaths
    <3>6. SubSeq(f, 1, k + 1) \in more
      BY <3>3, <3>4, <3>5 DEF Inv!Of
    <3>7. k + 1 \in 0..Len(f) - 1
      BY <3>3
    <3> QED
      BY <3>6, <3>7
  <2> QED
    BY <2>1, <2>2
<1> HIDE DEF d, more
<1>3. Inv!Continues(d, more, noted)
  BY DEF d, more
<1> QED
  BY <1>1, <1>2, <1>3, InventoryGoesOn

LEMMA InventoryLooks == ASSUME StoresAreTrees, InventoryInv, Inv!Look PROVE InventoryInv'
<1> USE DEF InventoryInv
<1> DEFINE d == Inv!First(ahead)
<1>1. /\ step = "look" /\ names' = {} /\ Inv!Constant
      /\ UNCHANGED <<format, max_dirs, entries, steady, listed>>
      /\ names' \subseteq Inv!Places
  BY DEF Inv!Look, Inv!Constant, Inv!store
<1>2. CASE Inv!Missing(d) /\ missed' = TRUE /\ UNCHANGED <<found, visited>>
  <2>1. missed' \in BOOLEAN
    BY <1>2
  <2> QED
    BY <1>1, <1>2, <2>1, InventoryFails
<1>3. CASE Inv!Unlistable(d) /\ UNCHANGED <<found, visited, missed>>
  <2>1. missed' \in BOOLEAN
    BY <1>3 DEF Inv!TypeOK
  <2> QED
    BY <1>1, <1>3, <2>1, InventoryFails
<1>4. CASE (Inv!PiLists \/ Inv!OmpLists) /\ UNCHANGED missed
  <2>1. Inv!Flat /\ format \in {"pi", "omp"} /\ found' = Inv!Of("file") /\ Inv!Stops
    BY <1>4 DEF Inv!PiLists, Inv!OmpLists, Inv!Flat
  <2>2. PICK noted \in SUBSET {"listing", "limit", "shape"} : Inv!Notes(noted)
    BY <1>4 DEF Inv!PiLists, Inv!OmpLists, Inv!Shape
  <2>3. d = <<>>
    BY <1>1, <2>1 DEF Inv!Levels, Inv!First
  <2>4. ASSUME NEW f \in steady PROVE f \in found'
    <3>1. /\ Len(f) = Inv!Depth[format] + 1 /\ SubSeq(f, 1, Len(f)) = f
          /\ SubSeq(f, 1, 0) = <<>> /\ Inv!Kind(f) = "file"
      BY InventoryPaths
    <3>2. Len(f) = 1
      BY <2>1, <3>1 DEF Inv!Depth
    <3>3. SubSeq(f, 1, 1) \in names
      <4>1. 1 \in 1..Len(f) /\ 1 - 1 = 0
        BY <3>2
      <4>2. SubSeq(f, 1, 0) = d
        BY <2>3, <3>1
      <4>3. SubSeq(f, 1, 1 - 1) = d => SubSeq(f, 1, 1) \in names
        BY <1>1, <4>1 DEF Inv!Enumerated
      <4> QED
        BY <4>1, <4>2, <4>3
    <3> QED
      BY <2>1, <3>1, <3>2, <3>3 DEF Inv!Of
  <2>5. names' \cup found' \subseteq Inv!Places /\ missed' \in BOOLEAN
    BY <1>1, <1>4, <2>1 DEF Inv!Of, Inv!TypeOK
  <2>6. steady \subseteq found'
    BY <2>4
  <2> QED
    BY <1>1, <2>1, <2>2, <2>5, <2>6, InventoryEndsWalk
<1>5. CASE Inv!ClaudeLists(d) /\ UNCHANGED missed
  <2>1. format = "claude" /\ ~Inv!Flat
    BY <1>5 DEF Inv!ClaudeLists, Inv!Flat
  <2>2. ASSUME NEW f \in steady, NEW k \in 0..Len(f) - 1, SubSeq(f, 1, k) = d
        PROVE  d = <<>> <=> k # Len(f) - 1
    <3>1. /\ Len(f) = Inv!Depth[format] + 1 /\ SubSeq(f, 1, 0) = <<>>
          /\ f \in Seq(Nat)
      BY InventoryPaths
    <3>2. Len(f) = 2
      BY <2>1, <3>1 DEF Inv!Depth
    <3>3. \A i \in 1..Len(f) : /\ SubSeq(f, 1, i) # <<>> /\ Len(SubSeq(f, 1, i)) = i
                              /\ Inv!Front(SubSeq(f, 1, i)) = SubSeq(f, 1, i - 1)
      BY InventoryPaths
    <3>4. CASE k = 0
      <4>1. d = SubSeq(f, 1, 0)
        BY <2>2, <3>4
      <4>2. k # Len(f) - 1
        BY <3>2, <3>4
      <4> QED
        BY <3>1, <4>1, <4>2
    <3>5. CASE k = 1
      BY <2>2, <3>2, <3>3, <3>5
    <3> QED
      BY <3>2, <3>4, <3>5
  <2>3. CASE d = <<>> /\ UNCHANGED found
             /\ Inv!Continues(d, children \cup Inv!Of("directory"),
                              Inv!Shape(names \ Inv!Of("directory")))
    <3>1. Inv!Shape(names \ Inv!Of("directory")) \in SUBSET {"shape"}
      BY DEF Inv!Shape
    <3>2. \A f \in steady : \A k \in 0..Len(f) - 1 : SubSeq(f, 1, k) = d => k # Len(f) - 1
      BY <2>2, <2>3
    <3> QED
      BY <1>1, <1>5, <2>1, <2>3, <3>1, <3>2, InventoryDescends
  <2>4. CASE d # <<>> /\ Inv!Collects(d, Inv!Of("directory"))
    <3>1. \A f \in steady : \A k \in 0..Len(f) - 1 : SubSeq(f, 1, k) = d => k = Len(f) - 1
      BY <2>2, <2>4
    <3> QED
      BY <1>1, <1>5, <2>1, <2>4, <3>1, InventoryCollects
  <2> QED
    BY <1>5, <2>3, <2>4 DEF Inv!ClaudeLists
<1>6. CASE Inv!CodexLists(d) /\ UNCHANGED missed
  <2>1. format = "codex" /\ ~Inv!Flat
    BY <1>6 DEF Inv!CodexLists, Inv!Flat
  <2>2. ASSUME NEW f \in steady, NEW k \in 0..Len(f) - 1, SubSeq(f, 1, k) = d
        PROVE  Inv!Leaf(d) <=> k = Len(f) - 1
    <3>1. /\ Len(f) = Inv!Depth[format] + 1 /\ SubSeq(f, 1, 0) = <<>>
          /\ f \in Seq(Nat)
      BY InventoryPaths
    <3>2. Len(f) = 4 /\ Inv!Depth[format] = 3
      BY <2>1, <3>1 DEF Inv!Depth
    <3>3. \A i \in 1..Len(f) : /\ SubSeq(f, 1, i) # <<>> /\ Len(SubSeq(f, 1, i)) = i
                              /\ Inv!Front(SubSeq(f, 1, i)) = SubSeq(f, 1, i - 1)
      BY InventoryPaths
    <3>4. Len(d) = k
      <4>1. CASE k = 0
        BY <2>2, <3>1, <4>1
      <4>2. CASE k \in 1..Len(f)
        BY <2>2, <3>3, <4>2
      <4> QED
        BY <3>2, <4>1, <4>2
    <3> QED
      BY <3>2, <3>4 DEF Inv!Leaf
  <2> DEFINE odd == Inv!Shape(Inv!Looked \ Inv!Of("directory"))
  <2>3. odd \in SUBSET {"shape"} /\ odd \cup {"limit"} \in SUBSET {"listing", "limit", "shape"}
    BY DEF Inv!Shape
  <2>4. CASE ~Inv!Leaf(d) /\ UNCHANGED found /\ Inv!Looked # names /\ Inv!Stops
             /\ Inv!Notes(odd \cup {"limit"})
    <3>1. names' \cup found' \subseteq Inv!Places /\ missed' \in BOOLEAN
      BY <1>1, <1>6, <2>4 DEF Inv!TypeOK
    <3>2. "limit" \in errors'
      BY <2>4 DEF Inv!Notes
    <3> HIDE DEF odd
    <3> QED
      BY <1>1, <2>3, <2>4, <3>1, <3>2, InventoryEndsWalk
  <2>5. CASE ~Inv!Leaf(d) /\ UNCHANGED found
             /\ Inv!Continues(d, children \cup Inv!Of("directory"), odd)
    <3>1. \A f \in steady : \A k \in 0..Len(f) - 1 : SubSeq(f, 1, k) = d => k # Len(f) - 1
      BY <2>2, <2>5
    <3> HIDE DEF odd
    <3> QED
      BY <1>1, <1>6, <2>1, <2>3, <2>5, <3>1, InventoryDescends
  <2>6. CASE Inv!Leaf(d) /\ Inv!Collects(d, {})
    <3>1. \A f \in steady : \A k \in 0..Len(f) - 1 : SubSeq(f, 1, k) = d => k = Len(f) - 1
      BY <2>2, <2>6
    <3> QED
      BY <1>1, <1>6, <2>1, <2>6, <3>1, InventoryCollects
  <2> HIDE DEF d
  <2> QED
    BY <1>6, <2>4, <2>5, <2>6 DEF Inv!CodexLists
<1> QED
  BY <1>2, <1>3, <1>4, <1>5, <1>6 DEF Inv!Look

LEMMA InventoryInit == StoresAreTrees /\ Inv!Init => InventoryInv
<1> SUFFICES ASSUME StoresAreTrees, Inv!Init PROVE InventoryInv
  OBVIOUS
<1> USE DEF Inv!Init
<1>1. Inv!TypeOK
  BY DEF Inv!TypeOK, Inv!Formats
<1>2. Inv!Rooted
  <2> SUFFICES ASSUME NEW n \in entries, NEW k \in 0..Len(n)
               PROVE  SubSeq(n, 1, k) \in entries
    BY DEF Inv!Rooted
  <2>1. CASE n = <<>>
    BY <2>1
  <2>2. CASE n # <<>>
    <3>1. n \in DOMAIN Layout[format] /\ format \in Inv!Formats
      BY <2>2 DEF Inv!Places
    <3>2. n \in Seq(Nat) /\ \A i \in 1..Len(n) - 1 : SubSeq(n, 1, i) \in DOMAIN Layout[format]
      BY <3>1 DEF StoresAreTrees, Inv!LayoutIsTree
    <3>3. k = 0 \/ k = Len(n) \/ k \in 1..Len(n) - 1
      BY <3>2
    <3>4. SubSeq(n, 1, 0) = <<>> /\ SubSeq(n, 1, Len(n)) = n
      BY <3>2
    <3> QED
      BY <3>2, <3>3, <3>4 DEF Inv!Places
  <2> QED
    BY <2>1, <2>2
<1>3. Inv!Enumerated /\ Inv!Levels /\ Inv!NothingLost
  BY DEF Inv!Enumerated, Inv!Levels, Inv!NothingLost
<1> QED
  BY <1>1, <1>2, <1>3 DEF InventoryInv

LEMMA InventoryRests ==
  ASSUME InventoryInv, UNCHANGED <<format, max_dirs, entries, steady, Inv!walk, listed>>
  PROVE  InventoryInv'
<1> USE DEF InventoryInv, Inv!walk
<1>1. Inv!TypeOK' /\ Inv!Rooted'
  BY DEF Inv!TypeOK, Inv!Transcripts, Inv!Places, Inv!Kind, Inv!Rooted
<1>2. Inv!Enumerated' /\ Inv!Levels'
  BY DEF Inv!Enumerated, Inv!Levels, Inv!First, Inv!Precedes, Inv!Later, Inv!Flat
<1>3. Inv!NothingLost'
  BY DEF Inv!NothingLost, Inv!Ahead
<1> QED
  BY <1>1, <1>2, <1>3

LEMMA InventoryCreates ==
  ASSUME StoresAreTrees, InventoryInv, NEW n \in Inv!Places, Inv!Create(n)
  PROVE  InventoryInv'
<1> USE DEF InventoryInv
<1>1. /\ entries' = entries \cup {n} /\ Inv!Front(n) \in entries
      /\ UNCHANGED <<format, max_dirs, Inv!walk, listed, steady>>
  BY DEF Inv!Create, Inv!Edit
<1>2. Inv!TypeOK'
  BY <1>1 DEF Inv!TypeOK, Inv!Transcripts, Inv!Places, Inv!Kind, Inv!walk
<1>3. Inv!Rooted'
  <2> SUFFICES ASSUME NEW k \in 0..Len(n) PROVE SubSeq(n, 1, k) \in entries'
    BY <1>1 DEF Inv!Rooted
  <2>1. n \in Seq(Nat) /\ n # <<>>
    BY DEF StoresAreTrees, Inv!LayoutIsTree, Inv!Places, Inv!TypeOK
  <2>2. CASE k = Len(n)
    BY <1>1, <2>1, <2>2
  <2>3. CASE k \in 0..Len(n) - 1
    <3> DEFINE m == SubSeq(n, 1, Len(n) - 1)
    <3>1. /\ Len(n) \in Nat /\ Len(n) - 1 \in 0..Len(n) /\ m \in Seq(Nat) /\ Len(m) = Len(n) - 1
          /\ \A i \in 1..Len(n) - 1 : m[i] = n[i]
      <4>1. Len(n) \in Nat /\ Len(n) - 1 \in Nat
        BY <2>1, <2>3
      <4>2. Len(n) - 1 \in 0..Len(n)
        BY <4>1
      <4>3. \A j \in 0..Len(n) : SubSeq(n, 1, j) \in Seq(Nat) /\ Len(SubSeq(n, 1, j)) = j
        BY <2>1
      <4>4. m \in Seq(Nat) /\ Len(m) = Len(n) - 1
        BY <4>2, <4>3
      <4>5. \A i \in 1..Len(n) - 1 : m[i] = n[i]
        BY <2>1, <4>1
      <4> QED
        BY <4>1, <4>2, <4>4, <4>5
    <3>2. SubSeq(m, 1, k) = SubSeq(n, 1, k)
      <4> HIDE DEF m
      <4> QED
        BY <2>1, <2>3, <3>1
    <3>3. m \in entries /\ k \in 0..Len(m)
      BY <1>1, <2>3, <3>1 DEF Inv!Front
    <3>4. SubSeq(m, 1, k) \in entries
      <4> HIDE DEF m
      <4> QED
        BY <3>3 DEF Inv!Rooted
    <3> QED
      BY <1>1, <3>2, <3>4
  <2> QED
    BY <2>1, <2>2, <2>3
<1>4. Inv!Enumerated' /\ Inv!Levels' /\ Inv!NothingLost'
  BY <1>1 DEF Inv!Enumerated, Inv!Levels, Inv!NothingLost, Inv!Ahead, Inv!First, Inv!Precedes,
              Inv!Later, Inv!Flat, Inv!walk
<1> QED
  BY <1>2, <1>3, <1>4

LEMMA InventoryDeletes ==
  ASSUME StoresAreTrees, InventoryInv, NEW n \in Inv!Places \cup {<<>>}, Inv!Delete(n)
  PROVE  InventoryInv'
<1> USE DEF InventoryInv
<1> DEFINE gone == {x \in entries : Inv!Within(x, n)}
<1>1. /\ entries' = entries \ gone /\ steady' = steady \ gone
      /\ UNCHANGED <<format, max_dirs, Inv!walk, listed>>
  BY DEF Inv!Delete, Inv!Edit
<1>2. Inv!TypeOK'
  BY <1>1 DEF Inv!TypeOK, Inv!Transcripts, Inv!Places, Inv!Kind, Inv!walk
<1>3. Inv!Rooted'
  <2> SUFFICES ASSUME NEW x \in entries, x \notin gone, NEW k \in 0..Len(x),
                      SubSeq(x, 1, k) \in gone
               PROVE  FALSE
    BY <1>1 DEF Inv!Rooted
  <2>1. x \in Seq(Nat) /\ n \in Seq(Nat)
    <3>1. \A y \in Inv!Places : y \in Seq(Nat)
      BY DEF StoresAreTrees, Inv!LayoutIsTree, Inv!Places, Inv!TypeOK
    <3>2. <<>> \in Seq(Nat)
      OBVIOUS
    <3> QED
      BY <3>1, <3>2 DEF Inv!TypeOK
  <2>2. /\ Len(n) <= Len(SubSeq(x, 1, k))
        /\ SubSeq(n, 1, Len(n)) = SubSeq(SubSeq(x, 1, k), 1, Len(n))
    BY DEF Inv!Within, Inv!IsPrefix
  <2>3. Len(SubSeq(x, 1, k)) = k /\ Len(n) \in Nat
    BY <2>1
  <2>4. SubSeq(SubSeq(x, 1, k), 1, Len(n)) = SubSeq(x, 1, Len(n))
    BY <2>1, <2>2, <2>3
  <2>5. Len(n) <= Len(x)
    BY <2>1, <2>2, <2>3
  <2> QED
    BY <2>2, <2>4, <2>5 DEF Inv!Within, Inv!IsPrefix
<1>4. Inv!Enumerated' /\ Inv!Levels' /\ Inv!NothingLost'
  BY <1>1 DEF Inv!Enumerated, Inv!Levels, Inv!NothingLost, Inv!Ahead, Inv!First, Inv!Precedes,
              Inv!Later, Inv!Flat, Inv!walk
<1> QED
  BY <1>2, <1>3, <1>4

LEMMA InventoryStep == StoresAreTrees /\ InventoryInv /\ [Inv!Next]_(Inv!vars) => InventoryInv'
<1> SUFFICES ASSUME StoresAreTrees, InventoryInv, [Inv!Next]_(Inv!vars) PROVE InventoryInv'
  OBVIOUS
<1> USE DEF InventoryInv
<1>1. ASSUME NEW n \in Inv!Places \cup {<<>>}, Inv!Chmod(n) PROVE InventoryInv'
  <2>1. UNCHANGED <<format, max_dirs, entries, steady, Inv!walk, listed>>
    BY <1>1 DEF Inv!Chmod, Inv!Edit
  <2> QED
    BY <2>1, InventoryRests
<1>2. CASE Inv!Begin
  <2>1. /\ step' = "open" /\ ahead' = {<<>>} /\ found' = {} /\ children' = {} /\ errors' = {}
        /\ missed' = FALSE /\ steady' = Inv!Transcripts
        /\ UNCHANGED <<format, max_dirs, entries, names, listed>>
    BY <1>2 DEF Inv!Begin
  <2>2. Inv!TypeOK' /\ Inv!Rooted'
    BY <2>1 DEF Inv!TypeOK, Inv!Rooted, Inv!Transcripts, Inv!Places, Inv!Kind
  <2>3. Inv!Enumerated' /\ Inv!Levels'
    BY <2>1 DEF Inv!Enumerated, Inv!Levels
  <2>4. Inv!NothingLost'
    <3> SUFFICES ASSUME NEW f \in Inv!Transcripts PROVE Inv!Ahead(f)'
      BY <2>1 DEF Inv!NothingLost
    <3>1. f \in DOMAIN Layout[format] /\ format \in Inv!Formats
      BY DEF Inv!Transcripts, Inv!TypeOK, Inv!Places
    <3>2. f \in Seq(Nat) /\ f # <<>>
      BY <3>1 DEF StoresAreTrees, Inv!LayoutIsTree
    <3>3. 0 \in 0..Len(f) - 1 /\ SubSeq(f, 1, 0) = <<>>
      BY <3>2
    <3> QED
      BY <2>1, <3>3 DEF Inv!Ahead
  <2> QED
    BY <2>2, <2>3, <2>4
<1>3. ASSUME Inv!Ends, listed' \subseteq Inv!Places PROVE InventoryInv'
  <2>1. /\ step' = "idle" /\ ahead' = {} /\ names' = {} /\ children' = {} /\ found' = {}
        /\ errors' = {} /\ missed' = FALSE /\ steady' = {}
        /\ UNCHANGED <<format, max_dirs, entries>>
    BY <1>3 DEF Inv!Ends
  <2> QED
    BY <1>3, <2>1 DEF Inv!TypeOK, Inv!Transcripts, Inv!Places, Inv!Kind, Inv!Rooted,
                      Inv!Enumerated, Inv!Levels, Inv!NothingLost
<1>4. CASE Inv!Conclude
  <2>1. listed' \subseteq Inv!Places /\ Inv!Ends
    BY <1>4 DEF Inv!Conclude, Inv!kSubset, Inv!Stamped, Inv!TypeOK
  <2> QED
    BY <1>3, <2>1
<1>5. CASE Inv!Abandon
  <2>1. listed' \subseteq Inv!Places /\ Inv!Ends
    BY <1>5 DEF Inv!Abandon, Inv!TypeOK
  <2> QED
    BY <1>3, <2>1
<1>6. CASE UNCHANGED Inv!vars
  <2>1. UNCHANGED <<format, max_dirs, entries, steady, Inv!walk, listed>>
    BY <1>6 DEF Inv!vars, Inv!store
  <2> QED
    BY <2>1, InventoryRests
<1> QED
  BY <1>1, <1>2, <1>4, <1>5, <1>6, InventoryCreates, InventoryDeletes, InventoryEnumerates,
     InventoryLooks DEF Inv!Next, Inv!Walk

(* Types of the walk, for any layout, limits and edits.                    *)
THEOREM InventoryTypes == StoresAreTrees => (Inv!Spec => []Inv!TypeOK)
<1> SUFFICES ASSUME StoresAreTrees PROVE Inv!Spec => []Inv!TypeOK
  OBVIOUS
<1>1. InventoryInv => Inv!TypeOK
  BY DEF InventoryInv
<1>2. Inv!Init => InventoryInv
  BY InventoryInit
<1>3. InventoryInv /\ [Inv!Next]_(Inv!vars) => InventoryInv'
  BY InventoryStep
<1> QED
  BY <1>1, <1>2, <1>3, PTL DEF Inv!Spec

(* InventoryComplete: whatever the agents write and the user removes, and  *)
(* whichever directories cannot be read or are cut off, an inventory that  *)
(* counts as complete has all transcripts that were there throughout, but  *)
(* for an entry that went away between its enumeration and the look at it. *)
THEOREM InventoryHasAll == StoresAreTrees => (Inv!Spec => []Inv!InventoryComplete)
<1> SUFFICES ASSUME StoresAreTrees PROVE Inv!Spec => []Inv!InventoryComplete
  OBVIOUS
<1>1. InventoryInv => Inv!InventoryComplete
  BY DEF InventoryInv, Inv!InventoryComplete, Inv!Complete, Inv!NothingLost, Inv!Levels,
         Inv!Ahead
<1>2. Inv!Init => InventoryInv
  BY InventoryInit
<1>3. InventoryInv /\ [Inv!Next]_(Inv!vars) => InventoryInv'
  BY InventoryStep
<1> QED
  BY <1>1, <1>2, <1>3, PTL DEF Inv!Spec

(* A session is taken off the list by a complete inventory only.           *)
LEMMA InventoryRemoves ==
  ASSUME StoresAreTrees, InventoryInv, Inv!Next
  PROVE  missed \/ Inv!Proved
<1> SUFFICES ASSUME ~missed, NEW f \in listed \ listed', f \in steady PROVE FALSE
  BY DEF Inv!Proved
<1> USE DEF InventoryInv
<1>1. ~(UNCHANGED listed)
  OBVIOUS
<1>2. Inv!Conclude
  BY <1>1 DEF Inv!Next, Inv!Walk, Inv!Create, Inv!Delete, Inv!Chmod, Inv!Edit, Inv!Begin,
              Inv!Enumerate, Inv!Look, Inv!Constant, Inv!Abandon
<1>3. step = "stamp" /\ Inv!Complete /\ steady \subseteq found
  BY <1>2 DEF Inv!Conclude, Inv!Complete, Inv!NothingLost, Inv!Levels, Inv!Ahead
<1>4. PICK kept \in Inv!kSubset(Inv!Min({MostInStore, Inv!Cardinality(Inv!Stamped)}),
                              Inv!Stamped) :
         listed' = kept
  BY <1>2, <1>3 DEF Inv!Conclude
<1>5. Inv!Stamped = found /\ Inv!Cardinality(found) <= MostInStore
  BY <1>3 DEF Inv!Complete
<1>6. found \in SUBSET Inv!Places
  BY DEF Inv!TypeOK
<1>7. IsFiniteSet(found) /\ Cardinality(found) \in Nat
  BY <1>6, InventoryFinite
<1>8. Inv!Min({MostInStore, Cardinality(found)}) = Cardinality(found)
  BY <1>5, <1>7, InventoryCounts DEF Inv!Min, StoresAreTrees, Inv!LimitsAreNumbers
<1>9. kept \in SUBSET found /\ Cardinality(kept) = Cardinality(found)
  BY <1>4, <1>5, <1>8, InventoryCounts DEF Inv!kSubset
<1>10. kept = found
  BY <1>7, <1>9, FS_Subset
<1> QED
  BY <1>3, <1>4, <1>10

(* ListedStayUnlessMissed: with the same exception no session disappears   *)
(* whose transcript was there throughout the walk.                         *)
THEOREM InventoryProves == StoresAreTrees => (Inv!Spec => Inv!ListedStayUnlessMissed)
<1> SUFFICES ASSUME StoresAreTrees PROVE Inv!Spec => Inv!ListedStayUnlessMissed
  OBVIOUS
<1>1. Inv!Init => InventoryInv
  BY InventoryInit
<1>2. InventoryInv /\ [Inv!Next]_(Inv!vars) => InventoryInv'
  BY InventoryStep
<1>3. InventoryInv /\ [Inv!Next]_(Inv!vars) => [missed \/ Inv!Proved]_(Inv!vars)
  BY InventoryRemoves
<1> QED
  BY <1>1, <1>2, <1>3, PTL DEF Inv!Spec, Inv!ListedStayUnlessMissed
=============================================================================
