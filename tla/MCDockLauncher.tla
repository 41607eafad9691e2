--------------------------- MODULE MCDockLauncher ----------------------------
(* Two tabs of one server; panes 1 and 5 are the terminals they start with. *)
EXTENDS DockLauncher, TLC

CONSTANTS a, b, p, q

MCProcs == {p, q}
TwoTabs == {a, b}
SameServerOf == (a :> 1) @@ (b :> 1)
TwoHomeOf == [x \in 1..7 |-> IF x <= 4 THEN a ELSE b]
=============================================================================
