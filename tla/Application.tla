----------------------------- MODULE Application -----------------------------
(***************************************************************************)
(* The coordinator of myts-ng (app/application.hpp): output of the shell   *)
(* goes through the terminal session to the canvas and on to the panel,    *)
(* input events go to the shell or to the modal help screen, which takes   *)
(* the canvas over while it is open.                                       *)
(*                                                                         *)
(* Vertical distances are measured in lines of one glyph height, a partial *)
(* one at the bottom included: Height is the panel's number of them (67    *)
(* for 800 = 66 * 12 + 8 pixels).  Row r of the terminal is line r.  The   *)
(* grid is what the constructor was given: lines below the last row hold   *)
(* no text, and rows below the last line are clipped and never seen.       *)
(* Everything is drawn across the full width.  (A cell right of the panel, *)
(* when the grid is too wide, is sent with its line; the area threshold of *)
(* a full flash is compared in lines.)                                     *)
(*                                                                         *)
(* The event loop runs one callback at a time.  A chunk read from the pty  *)
(* is one PtyByte step per byte and one EndOfChunk step; no other callback *)
(* runs in between.                                                        *)
(***************************************************************************)
EXTENDS TerminalSession, EinkDisplay, HelpController

CONSTANTS
  StatusTop, KeypadTop, KeypadBottom,   \* layout of the help screen
  MaxMissed   \* bound on driver calls that fail between two working flashes

ASSUME ApplicationAssumption ==
  /\ StatusTop \in 0..(Height - 1)
  /\ KeypadTop \in 0..StatusTop   \* so on any panel above 2 glyphs + 14 pixels
  /\ KeypadBottom \in KeypadTop..(Height - 1)
  /\ Width % 2 = 0
  /\ MaxMissed \in Nat

VARIABLES
  phase,      \* "boot" before run(), "run" inside the loop, "closing" once
              \* stop() was called, "stopped" after run()
  chunk,      \* "fed" while a read callback is feeding bytes
  helpLines,  \* whose help text is on each line of the canvas: page and key
  panel,      \* what the e-ink shows: its own copy of surface and helpLines
  missed,     \* history: driver calls failed since the last working flash
  wrote       \* history: the bytes the last step gave to write(), "" if none

appVars == <<parser, term, surface, disp, mods, help,
             phase, chunk, helpLines, panel, missed, wrote>>

Lines == 0..(Height - 1)

\* Page -1 is a line without help on it, -2 one with the former UI's pixels.
NoHelpLine   == [page |-> -1, key |-> NoKey]
NoHelpLines  == [y \in Lines |-> NoHelpLine]
FormerUi     == [y \in Lines |-> [page |-> -2, key |-> NoKey]]

\* The cells the panel has pixels for.
OnPanel == {p \in Pos : p[1] < Height}

Canvas(s, hl) == [cells |-> [p \in OnPanel |-> s[p]], lines |-> hl]
BlankCanvas   == Canvas(EmptySurface, NoHelpLines)

AppInit ==
  /\ SessionInit
  /\ \E c \in Configs : disp = FreshDisplay(c)
  /\ mods = {}
  /\ help = HelpClosed
  /\ phase = "boot" /\ chunk = "none"
  /\ helpLines = NoHelpLines
  /\ panel = Canvas(EmptySurface, FormerUi)
  /\ missed = 0
  /\ wrote = ""

-----------------------------------------------------------------------------
(* The driver.  copy_canvas_to_driver precedes every call, so the pixels a *)
(* call shows are those of the canvas cv.                                  *)

Shown == [disp |-> disp, panel |-> panel, missed |-> missed]

ShownBecomes(s) ==
  /\ s.missed <= MaxMissed
  /\ disp' = s.disp /\ panel' = s.panel /\ missed' = s.missed

ShowLines(p, cv, ls) ==
  Canvas([q \in OnPanel |-> IF q[1] \in ls THEN cv.cells[q] ELSE p.cells[q]],
         [y \in Lines |-> IF y \in ls THEN cv.lines[y] ELSE p.lines[y]])

LinesOf(area) == {y \in Lines : area.y <= y /\ y < Bottom(area)}

\* display_.refresh_full()
FlashOf(s, cv, ok) ==
  [disp   |-> Refreshed(s.disp),
   panel  |-> IF ok THEN cv ELSE s.panel,
   missed |-> IF ok THEN 0 ELSE s.missed + 1]

\* flush() with something to send
SendOf(s, d, cv, ok) ==
  [disp   |-> Flushed(d),
   panel  |-> CASE ~ok -> s.panel
                [] ok /\ Escalates(d) -> cv
                [] OTHER -> ShowLines(s.panel, cv, LinesOf(d.region)),
   missed |-> CASE ~ok -> s.missed + 1
                [] ok /\ Escalates(d) -> 0
                [] OTHER -> s.missed]

\* display_.mark_dirty(box); display_.flush(): no call for a box off the panel.
UpdateOf(s, cv, box, ok) ==
  LET d == Marked(s.disp, box)
  IN  IF HasDirty(d) THEN SendOf(s, d, cv, ok) ELSE s

\* compute_dirty_rect: the band from the first dirty row to the last.
FirstOf(rows) == CHOOSE r \in rows : \A q \in rows : r <= q
LastOf(rows)  == CHOOSE r \in rows : \A q \in rows : q <= r

\* Mutant of DirtyBand: the last row is left out.
DirtyBandShort(rows) ==
  Rect(0, FirstOf(rows), Width, LastOf(rows) - FirstOf(rows))

DirtyBand(rows) ==
  Rect(0, FirstOf(rows), Width, LastOf(rows) - FirstOf(rows) + 1)

\* render_frame with dirty rows, starting from what s shows.
FrameFrom(s, ok) ==
  /\ RenderFrame
  /\ helpLines' = [y \in Lines |-> IF y \in term.dirty THEN NoHelpLine ELSE helpLines[y]]
  /\ ShownBecomes(UpdateOf(s, Canvas(surface', helpLines'), DirtyBand(term.dirty), ok))

(* HelpRenderer: the status bar shows the last key on every page, the key  *)
(* matrix on the Keypad page.  (The rule above the status bar is left out: *)
(* render_delta wipes it and does not draw it again.)                      *)
StatusLines == StatusTop..(Height - 1)
KeypadLines == KeypadTop..KeypadBottom

HelpLine(h, y) ==
  [page |-> h.page,
   key  |-> IF y \in StatusLines \/ (h.page = Keypad /\ y \in KeypadLines)
            THEN h.last ELSE NoKey]

HelpView(h) == [y \in Lines |-> HelpLine(h, y)]

\* render_help(true): clears the canvas first.
DrawHelp(h, ok) ==
  /\ surface' = EmptySurface
  /\ helpLines' = HelpView(h)
  /\ ShownBecomes(UpdateOf(Shown, Canvas(surface', helpLines'), Bounds, ok))

\* render_help(false): redraws and refreshes only what shows the key.
DrawHelpKey(h, ok) ==
  LET drawn == StatusLines \cup (IF h.page = Keypad THEN KeypadLines ELSE {})
      top   == IF h.page = Keypad THEN KeypadTop ELSE StatusTop
  IN  /\ helpLines' = [y \in Lines |-> IF y \in drawn THEN HelpLine(h, y) ELSE helpLines[y]]
      /\ ShownBecomes(UpdateOf(Shown, Canvas(surface, helpLines'),
                               Rect(0, top, Width, Height - top), ok))
      /\ UNCHANGED surface

-----------------------------------------------------------------------------
(* run(): spawn the shell, wipe the panel, draw the first frame, enter the *)
(* loop.                                                                   *)
SpawnFailed ==
  /\ phase = "boot"
  /\ phase' = "stopped"
  /\ UNCHANGED <<parser, term, surface, disp, mods, help, chunk, helpLines,
                 panel, missed, wrote>>

Start(ok1, ok2) ==
  /\ phase = "boot"
  /\ phase' = "run"
  /\ FrameFrom(FlashOf(Shown, BlankCanvas, ok1), ok2)
  /\ UNCHANGED <<mods, help, chunk, wrote>>

\* The loop is about to call a callback.
Looping == phase \in {"run", "closing"} /\ chunk = "none"

(* The read callback of the pty: feed_terminal_output ...                  *)
PtyByte(b) ==
  /\ phase = "run"
  /\ FeedByte(b)
  /\ chunk' = "fed"
  /\ wrote' = ""
  /\ UNCHANGED <<surface, disp, mods, help, phase, helpLines, panel, missed>>

(* ... and render_frame, unless the help screen is open.                   *)
EndOfChunkHidden ==
  /\ phase = "run" /\ chunk = "fed"
  /\ help.active \/ term.dirty = {}
  /\ chunk' = "none"
  /\ UNCHANGED <<parser, term, surface, disp, mods, help, phase, helpLines,
                 panel, missed, wrote>>

EndOfChunkShown(ok) ==
  /\ phase = "run" /\ chunk = "fed"
  /\ ~help.active
  /\ FrameFrom(Shown, ok)
  /\ chunk' = "none"
  /\ UNCHANGED <<mods, help, phase, wrote>>

\* read returned 0 or an error: loop_.stop().  The callbacks of the other
\* descriptors of this step still run, then run() returns.
PtyClosed ==
  /\ phase = "run" /\ chunk = "none"
  /\ phase' = "closing"
  /\ wrote' = ""
  /\ UNCHANGED <<parser, term, surface, disp, mods, help, chunk, helpLines,
                 panel, missed>>

RunReturns ==
  /\ phase = "closing"
  /\ phase' = "stopped"
  /\ wrote' = ""
  /\ UNCHANGED <<parser, term, surface, disp, mods, help, chunk, helpLines,
                 panel, missed>>

-----------------------------------------------------------------------------
(* handle_input_event, one action per route of before_terminal_write.      *)

Received(e, route) ==
  /\ Looping
  /\ mods' = ModsAfter(mods, e)
  /\ Route(help, mods', e) = route
  /\ help' = HelpAfter(help, mods', e)
  /\ UNCHANGED <<phase, chunk>>

HelpRedrawn(e, ok) ==
  /\ Received(e, "RedrawFull")
  /\ DrawHelp(help', ok)
  /\ wrote' = ""
  /\ UNCHANGED <<parser, term>>

HelpKeyShown(e, ok) ==
  /\ Received(e, "RedrawDelta")
  /\ DrawHelpKey(help', ok)
  /\ wrote' = ""
  /\ UNCHANGED <<parser, term>>

Consumed(e) ==
  /\ Received(e, "Consume")
  /\ wrote' = ""
  /\ UNCHANGED <<parser, term, surface, disp, helpLines, panel, missed>>

\* restore_terminal_display
HelpExited(e, ok) ==
  /\ Received(e, "Exit")
  /\ RestoreDisplay
  /\ helpLines' = NoHelpLines
  /\ ShownBecomes(FlashOf(Shown, Canvas(surface', helpLines'), ok))
  /\ wrote' = ""

\* Pass: the bytes go to the pty and to the command tracker.
Typed(e) ==
  /\ Looping
  /\ mods' = ModsAfter(mods, e)
  /\ Route(help, mods', e) = "Pass"
  /\ wrote' = BytesOf(mods', e)
  /\ UNCHANGED <<parser, term, phase, chunk>>

TypedOnly(e) ==
  /\ Typed(e)
  /\ UNCHANGED <<surface, disp, help, helpLines, panel, missed>>

\* The tracker may answer that the line just ended was the help command.
TypedHelp(e, ok) ==
  /\ Typed(e)
  /\ wrote' \in {"CR", "LF"}
  /\ help' = Opened(help)
  /\ DrawHelp(help', ok)

InputEvent(e, ok) ==
  \/ HelpRedrawn(e, ok) \/ HelpKeyShown(e, ok) \/ HelpExited(e, ok)
  \/ Consumed(e) \/ TypedOnly(e) \/ TypedHelp(e, ok)

AppNext ==
  \/ \E ok1, ok2 \in BOOLEAN : Start(ok1, ok2)
  \/ \E b \in Bytes : PtyByte(b)
  \/ EndOfChunkHidden
  \/ \E ok \in BOOLEAN : EndOfChunkShown(ok)
  \/ SpawnFailed \/ PtyClosed \/ RunReturns
  \/ \E e \in Events, ok \in BOOLEAN : InputEvent(e, ok)

AppSpec == AppInit /\ [][AppNext]_appVars

-----------------------------------------------------------------------------
(* Properties.                                                             *)

(* The panel never lags behind the canvas.  Once the loop runs, and unless *)
(* a driver call failed since the last full flash that worked, what the    *)
(* e-ink shows is the canvas, line by line: the area sent with each        *)
(* refresh covers all that was drawn since the one before.                 *)
PanelIsCanvas ==
  phase \in {"run", "closing"} /\ missed = 0 => panel = Canvas(surface, helpLines)

(* Between callbacks the canvas shows the right thing: the help screen,    *)
(* complete and up to date with its page and key, exactly while it is      *)
(* open; else the terminal, with the output that arrived while help was    *)
(* open.  (Cells without a glyph keep old pixels; a cell below a pending   *)
(* wrap may keep them too, see StaleOnlyBelowWrap; a cell below the panel  *)
(* has none.)                                                              *)
ShowsTerminal ==
  /\ helpLines = NoHelpLines
  /\ \A p \in OnPanel : \/ term.cells[p] \in {NoPic, surface[p].pic}
                        \/ p[2] = 0 /\ term.cells[p] = Blank

RightView ==
  Looping => IF help.active THEN helpLines = HelpView(help) ELSE ShowsTerminal

(* A key acts once.  Nothing is written to the shell by an event that      *)
(* finds the help screen open, closes it, or opens it, but for the line    *)
(* end of a typed help command.                                            *)
KeyActsOnce ==
  [][wrote' # ""
       => ~help.active /\ (help'.active => wrote' \in {"CR", "LF"})]_appVars
=============================================================================
