----------------------------- MODULE EinkDisplay -----------------------------
(***************************************************************************)
(* The refresh policy of graphics/eink_display.hpp: boxes to redraw are    *)
(* collected in one rectangle, a flush sends it to the controller as a     *)
(* partial update or, every so often, as a full flash.                     *)
(*                                                                         *)
(* The state is a record so that a caller may mark and flush in one step,  *)
(* as the application does.  NoRect as region is the empty optional.       *)
(***************************************************************************)
EXTENDS Geometry

CONSTANTS
  Width, Height,         \* of the panel, in pixels
  Configs                \* the refresh configurations a run may set

(* A configuration is [limit, num, den, auto]: partial_limit, the ratio    *)
(* dirty_ratio_threshold = num / den, auto_full_refresh.                   *)
ConfigType == [limit : Nat, num : Nat, den : Nat \ {0}, auto : BOOLEAN]

ASSUME DisplayAssumption ==
  /\ Width \in Nat \ {0} /\ Height \in Nat \ {0}
  /\ Configs \subseteq ConfigType

VARIABLE disp

Bounds == Rect(0, 0, Width, Height)

FreshDisplay(cfg) == [region |-> NoRect, count |-> 0, cfg |-> cfg]

HasDirty(d) == d.region # NoRect

\* mark_dirty
Marked(d, box) ==
  LET clipped == Clip(box, Bounds)
      aligned == AlignEven(clipped)
  IN  CASE IsEmpty(clipped) -> d
        [] ~IsEmpty(clipped) /\ ~HasDirty(d) -> [d EXCEPT !.region = aligned]
        [] OTHER -> [d EXCEPT !.region = BoundingBox(@, aligned)]

\* Mutant of Escalates: one partial update too many.
EscalatesLate(d) ==
  /\ d.cfg.auto
  /\ \/ d.count >= d.cfg.limit
     \/ d.region.width * d.region.height * d.cfg.den >= Width * Height * d.cfg.num

\* should_escalate_to_full
Escalates(d) ==
  /\ d.cfg.auto
  /\ \/ d.count + 1 >= d.cfg.limit
     \/ d.region.width * d.region.height * d.cfg.den >= Width * Height * d.cfg.num

\* flush with something to send: the bookkeeping precedes the driver call.
Flushed(d) ==
  [d EXCEPT !.region = NoRect, !.count = IF Escalates(d) THEN 0 ELSE @ + 1]

\* refresh_full
Refreshed(d) == [d EXCEPT !.region = NoRect, !.count = 0]
=============================================================================
