---------------------------- MODULE MCDwmClients ----------------------------
(***************************************************************************)
(* Three windows: a terminal with a high priority and a tag of its own, a  *)
(* window with the default priority and one with a rule of its own; and in *)
(* one setup a fourth.                                                     *)
(***************************************************************************)
EXTENDS DwmClients

CONSTANTS c1, c2, c3, c4

MCClient == {c1, c2, c3, c4}
Three == {c1, c2, c3}
MCPriority == (c1 :> 3) @@ (c2 :> 2) @@ (c3 :> 2) @@ (c4 :> 2)
MCRuleTags == (c1 :> {1}) @@ (c2 :> {}) @@ (c3 :> {2}) @@ (c4 :> {})

\* Two monitors, all combinations of tags, and nothing floats.
Tiled ==
  [mons |-> 2, windows |-> Three, tagSets |-> (SUBSET Tag) \ {{}}, ruleFloats |-> {},
   neverFocus |-> {}, mayFloat |-> {}, transients |-> {}]

\* One monitor, single tags, and windows that float by a rule, as a dialog, as
\* the user says or as full screen; some refuse the focus, and the dialog always
\* floats.
Floating ==
  [mons |-> 1, windows |-> Three, tagSets |-> {{t} : t \in Tag}, ruleFloats |-> {c2},
   neverFocus |-> {c2, c3}, mayFloat |-> {c1, c2}, transients |-> {c3}]

\* The same with one window that floats by a rule, and the others never.
OneFloats ==
  [mons |-> 1, windows |-> Three, tagSets |-> {{t} : t \in Tag}, ruleFloats |-> {c2},
   neverFocus |-> {}, mayFloat |-> {}, transients |-> {}]

\* Two windows that float at first and two that never do, on one view: two in a
\* row can be lost from the list and come back one by one.
TwoFloat ==
  [mons |-> 1, windows |-> MCClient, tagSets |-> {}, ruleFloats |-> {c2, c4},
   neverFocus |-> {}, mayFloat |-> {c2, c4}, transients |-> {}]

MCSetups == {Tiled, Floating, TwoFloat}
MCLostSetups == {OneFloats}
=============================================================================
