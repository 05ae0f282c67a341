------------------------------ MODULE EinkPanel ------------------------------
(***************************************************************************)
(* EinkDisplay with the controller behind it (display/                     *)
(* hardware_eink_driver.hpp): each call either refreshes the pixels it     *)
(* names or fails, and a failure is reported to the caller, which does not *)
(* look at it (application.hpp, render_frame and render_help).             *)
(***************************************************************************)
EXTENDS EinkDisplay

CONSTANTS
  Boxes,       \* the boxes marked dirty
  CountBound   \* bound on consecutive partial updates, for auto = FALSE

ASSUME PanelAssumption ==
  /\ Boxes \subseteq Rects
  /\ CountBound \in Nat

VARIABLES
  owed,    \* history: pixels marked dirty and not refreshed since
  missed   \* history: a driver call failed since the last full flash worked

panelVars == <<disp, owed, missed>>

Pixels == (0..(Width - 1)) \X (0..(Height - 1))

PixelsOf(box) == {p \in Pixels : Covers(box, p[1], p[2])}

PanelInit ==
  /\ \E c \in Configs : disp = FreshDisplay(c)
  /\ owed = {}
  /\ missed = FALSE

MarkDirty(box) ==
  /\ disp' = Marked(disp, box)
  /\ owed' = owed \cup PixelsOf(box)
  /\ UNCHANGED missed

\* update_display_full succeeds (ok) or not.
FullFlash(ok) ==
  IF ok THEN owed' = {} /\ missed' = FALSE
        ELSE missed' = TRUE /\ UNCHANGED owed

FlushFull(ok) ==
  /\ HasDirty(disp) /\ Escalates(disp)
  /\ disp' = Flushed(disp)
  /\ FullFlash(ok)

FlushArea(ok) ==
  /\ HasDirty(disp) /\ ~Escalates(disp)
  /\ disp.count < CountBound
  /\ disp' = Flushed(disp)
  /\ IF ok THEN owed' = owed \ PixelsOf(disp.region) /\ UNCHANGED missed
           ELSE missed' = TRUE /\ UNCHANGED owed

RefreshFull(ok) ==
  /\ disp' = Refreshed(disp)
  /\ FullFlash(ok)

SetRefreshConfig(c) ==
  /\ disp' = [disp EXCEPT !.cfg = c]
  /\ UNCHANGED <<owed, missed>>

PanelNext ==
  \/ \E box \in Boxes : MarkDirty(box)
  \/ \E ok \in BOOLEAN : FlushFull(ok) \/ FlushArea(ok) \/ RefreshFull(ok)
  \/ \E c \in Configs : SetRefreshConfig(c)

PanelSpec == PanelInit /\ [][PanelNext]_panelVars

-----------------------------------------------------------------------------
(* Properties.                                                             *)

PanelTypeOK ==
  /\ disp \in [region : Rects, count : 0..CountBound, cfg : Configs]
  /\ owed \subseteq Pixels
  /\ missed \in BOOLEAN

(* What the controller is asked to refresh: whole bytes of the panel, and, *)
(* when the panel is an even number of pixels wide, nothing outside it.    *)
(* (An odd width makes the last area one pixel wider than the panel.)      *)
Fits(a) ==
  /\ ~IsEmpty(a)
  /\ a.x % 2 = 0 /\ a.width % 2 = 0
  /\ a.x >= 0 /\ a.y >= 0
  /\ Bottom(a) <= Height
  /\ Right(a) <= EvenUp(Width)

RegionFits == HasDirty(disp) => Fits(disp.region)

(* No mark is forgotten: while no driver call has failed, every pixel      *)
(* marked dirty and not yet refreshed is in the pending region, whatever   *)
(* the order of marks, flushes and full refreshes.                         *)
OwedIsPending ==
  ~missed => \A p \in owed : Covers(disp.region, p[1], p[2])

(* Anti-ghosting: with escalation enabled, no flush leaves as many partial *)
(* updates behind it as the limit allows, even when escalation has been    *)
(* off for a while or the limit has just been lowered below the count.     *)
GhostingBounded ==
  [][(HasDirty(disp) /\ disp'.region = NoRect /\ disp.cfg.auto)
        => disp'.count < Greater(disp.cfg.limit, 1)]_panelVars
=============================================================================
