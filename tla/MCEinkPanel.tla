----------------------------- MODULE MCEinkPanel -----------------------------
(* Values for TLC: a panel of four by two pixels, boxes that stick out of   *)
(* every side of it, the default policy with a small limit, one that        *)
(* escalates on half the panel, and one without escalation.                 *)
EXTENDS EinkPanel

MCBoxes == {Rect(x, y, w, h) : x \in -1..3, y \in -1..1, w \in {0, 1, 3, 6}, h \in {1, 3}}

MCConfigs ==
  {[limit |-> 2, num |-> 1, den |-> 1, auto |-> TRUE],
   [limit |-> 3, num |-> 1, den |-> 2, auto |-> TRUE],
   [limit |-> 3, num |-> 1, den |-> 1, auto |-> FALSE]}
=============================================================================
