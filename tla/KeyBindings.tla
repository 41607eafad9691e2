----------------------------- MODULE KeyBindings ------------------------------
(***************************************************************************)
(* The key bindings of the configuration (src/src/config.rs): an action    *)
(* has the chords the user gave it, or its default ones.  Chords of two    *)
(* actions may collide, and giving up one list brings back defaults that   *)
(* may collide again, so the loop of parse_keybindings() goes on until     *)
(* nothing does.  A step is a pass of that loop.                           *)
(*                                                                         *)
(* A text is the modifiers before a key, in order, and the key.            *)
(***************************************************************************)
EXTENDS Naturals, SequencesExt, FiniteSetsExt

CONSTANTS Count,       \* the actions are 1..Count, in the order of KeyAction
          Texts,       \* texts a user may write
          Defaults,    \* the default texts of each action
          MaxChords,   \* MAX_KEY_CHORDS_PER_ACTION
          MaxWritten,  \* bound on the texts written for an action
          Absent

Actions == 1..Count
Modifiers == {"ctrl", "alt", "shift"}
Chord == [key : STRING, modifiers : SUBSET Modifiers]

VARIABLES written,     \* what the user has written for each action
          bindings, configured, warned,
          pc

vars == <<written, bindings, configured, warned, pc>>

-----------------------------------------------------------------------------
(* KeyChord::parse(): no modifier is unknown or given twice.  The label of *)
(* a key names it, but backtab has shift, said or not.                     *)
Parsable(text) == ToSet(text.before) \subseteq Modifiers /\ IsInjective(text.before)
Implied(key) == IF key = "backtab" THEN {"shift"} ELSE {}
Parse(text) == [key |-> text.key, modifiers |-> ToSet(text.before) \cup Implied(text.key)]

(* KeyChord::from_event(): a terminal reports other modifiers too, and     *)
(* backtab with or without shift.                                          *)
FromEvent(event) ==
    [key |-> event.key, modifiers |-> (event.modifiers \cap Modifiers) \cup Implied(event.key)]

Chords(texts) == {Parse(t) : t \in ToSet(texts)}
Default(a) == Chords(Defaults[a])
Valid(texts) == Len(texts) \in 1..MaxChords /\ \A t \in ToSet(texts) : Parsable(t)

Written == {Absent} \cup SeqOf(Texts, MaxWritten)
Usable(a) == written[a] # Absent /\ Valid(written[a])

Init == /\ written \in [Actions -> Written]
        /\ configured = {a \in Actions : Usable(a)}
        /\ warned = {a \in Actions : written[a] # Absent /\ ~Usable(a)}
        /\ bindings = [a \in Actions |-> IF Usable(a) THEN Chords(written[a]) ELSE Default(a)]
        /\ pc = "settling"

(* Mutant: only lists that the user gave are told apart.                   *)
MutConflicts == {a \in configured : \E b \in configured \ {a} : bindings[a] \cap bindings[b] # {}}
(* The actions whose list shares a chord, if the user gave it.             *)
Conflicts == {a \in configured : \E b \in Actions \ {a} : bindings[a] \cap bindings[b] # {}}

GiveUp == /\ pc = "settling" /\ Conflicts # {}
          /\ bindings' = [a \in Actions |-> IF a \in Conflicts THEN Default(a) ELSE bindings[a]]
          /\ configured' = configured \ Conflicts
          /\ warned' = warned \cup Conflicts
          /\ UNCHANGED <<written, pc>>
Settle == /\ pc = "settling" /\ Conflicts = {}
          /\ pc' = "settled"
          /\ UNCHANGED <<written, bindings, configured, warned>>

Next == GiveUp \/ Settle
Spec == Init /\ [][Next]_vars /\ WF_vars(Next)

(* map_key(): the first action that has the chord, or none.                *)
MapKey(event) == LET having == {a \in Actions : FromEvent(event) \in bindings[a]}
                 IN  IF having = {} THEN 0 ELSE Min(having)

-----------------------------------------------------------------------------
(* Properties.                                                             *)

(* Pressing a key that an action shows does what that action says, however *)
(* the terminal reports it.                                                *)
Presses(chord) ==
    [key : {chord.key},
     modifiers : {chord.modifiers, chord.modifiers \cup {"super"},
                  chord.modifiers \ Implied(chord.key)}]
Unambiguous == \A a \in Actions :
                  \A chord \in bindings[a] : \A e \in Presses(chord) : MapKey(e) = a

(* A list is given up only with a warning, and never when its chords are   *)
(* nobody else's, neither as written nor by default.                       *)
Opposed(a) ==
    \E b \in Actions \ {a} :
        Chords(written[a]) \cap (Default(b) \cup IF Usable(b) THEN Chords(written[b]) ELSE {}) # {}
Kept(a) == \/ bindings[a] = Chords(written[a])
           \/ a \in warned /\ bindings[a] = Default(a) /\ (~Valid(written[a]) \/ Opposed(a))
Respected == \A a \in Actions : IF written[a] = Absent THEN bindings[a] = Default(a) ELSE Kept(a)

(* The loop ends, and then no chord is that of two actions, and each list  *)
(* that could be kept is kept.                                             *)
KeysSettle == <>[](pc = "settled" /\ Unambiguous /\ Respected)
=============================================================================
