------------------------------ MODULE LegacyKeys ------------------------------
(***************************************************************************)
(* What the launchpad makes of the keypad while a terminal is on the       *)
(* screen (process_term() of launchpad.c): the modifier keys, kept in      *)
(* variables that nothing resets, the key that ends terminal mode or shows *)
(* the keymap, the keys that scroll back, and what the others send.        *)
(* Launchpad has how terminal mode begins and ends in all its ways;        *)
(* here the framebuffer always opens, so terminal mode is curterm alone.   *)
(*                                                                         *)
(* The keys are one of each kind that the code tells apart: a letter and   *)
(* the letter of the tab, both in the tables of Fn and Sym, a digit, which *)
(* is in neither, the named keys, and one without an entry in by_code.     *)
(***************************************************************************)
EXTENDS Integers, FiniteSets

CONSTANTS
  Name,      \* terminals
  None,
  Rows,      \* rows of the screen
  SbChoice,  \* the values that ScrollbackLines may have in the file
  Keypad,    \* bound: the keys that are pressed
  MaxHeld    \* bound: how many at a time

VARIABLES
  held,                      \* keys that are down
  mods, langlock, help,      \* the static variables of process_term()
  curterm,                   \* None out of terminal mode
  terms,                     \* what term_state() tells of each terminal
  sb_lines, sb_step, sb_pos, \* of struct lp_state
  drawn,                     \* scrollback rows that the last step drew
  sent,                      \* what the last step sent
  missed,                    \* history: modifiers last moved out of sight
  endmods                    \* history: modifiers held when End was pressed

statics == <<mods, langlock, help>>
view    == <<sb_lines, sb_step, sb_pos>>
output  == <<drawn, sent>>
history == <<missed, endmods>>
vars    == <<held, statics, curterm, terms, view, output, history>>

Mod    == {"Shift", "Ctrl", "Sym", "Fn", "Lang"}
Single == {"letter", "tabkey", "digit"}
Table  == {"letter", "tabkey", "Del"}
Sends  == Single \cup {"Del", "Enter", "Space", "Esc", "Up", "Left", "Home"}
Key    == Mod \cup {"End", "ScrollUp", "ScrollDown", "unknown"} \cup Sends

ASSUME KeysAssumption ==
  /\ Keypad \subseteq Key /\ None \notin Name
  /\ Rows \in Nat /\ SbChoice \subseteq Nat

-----------------------------------------------------------------------------
(* process_screen(): the page, under as many rows of the scrollback as     *)
(* sb_pos says, which is cut to what the terminal has.  The rows are       *)
(* counted from the length in the configuration.                           *)

\* What term_state() tells of a terminal, as far as it matters here, and the
\* rows that print_buf() puts on the screen from one of a buffer.
term_state(n) == [rows |-> Rows, top |-> terms[n].top]

print_buf(first, count) == first .. first + count - 1

DrawnUncut(pos) ==
  LET st == term_state(curterm)
  IN  [term |-> curterm,
       rows |-> print_buf(sb_lines - pos, IF pos >= st.rows THEN st.rows ELSE pos)]

Cut(pos) == LET st == term_state(curterm) IN IF pos > st.top THEN st.top ELSE pos

Drawn(pos) == DrawnUncut(Cut(pos))

NoRows  == [term |-> None, rows |-> {}]
NoKeys  == <<>>
Quiet   == drawn' = NoRows /\ sent' = NoKeys

process_screen(pos) ==
  /\ sb_pos' = Cut(pos)
  /\ drawn' = Drawn(pos)
  /\ UNCHANGED <<sb_lines, sb_step>>

\* curterm_end() and what else forgets the terminal on the screen.
curterm_end == curterm' = None

-----------------------------------------------------------------------------
(* What a key sends, from the modifiers that the code believes are held.   *)

Base(k, m) ==
  IF "Shift" \in m THEN "shifted" ELSE IF "Ctrl" \in m THEN "control" ELSE "plain"

Sequence(k, m, lock) ==
  CASE k = "Home" -> IF "Shift" \in m THEN <<"end">> ELSE <<"home">>
    [] k \in Table /\ "Fn" \in m ->
         IF k = "tabkey" /\ "Shift" \in m THEN <<"backtab">> ELSE <<"function", k>>
    [] k \in Table /\ "Fn" \notin m /\ "Sym" \in m -> <<"symbol", k>>
    [] k = "digit" /\ "Fn" \notin m /\ "Sym" \in m -> <<"plain", k>>
    [] k \in Single /\ (k \in Table => m \cap {"Fn", "Sym"} = {})
         /\ (k = "digit" => "Fn" \in m \/ "Sym" \notin m) ->
         IF "Lang" \in m \/ lock THEN <<"alt", Base(k, m), k>> ELSE <<Base(k, m), k>>
    [] k = "Up" -> IF "Shift" \in m THEN <<"pageup">> ELSE <<"up">>
    [] k = "Del" /\ m \cap {"Fn", "Sym"} = {} -> <<"plain", k>>
    [] k \in {"Enter", "Space", "Esc", "Left"} -> <<"plain", k>>
    [] OTHER -> <<>>

\* Lang with Shift turns the lock, as often as the key repeats.
TurnsLock(k) == k = "Lang" /\ "Shift" \in mods

\* The static variables after a press and after a release.
PressedMods(k) == IF TurnsLock(k) THEN mods ELSE mods \cup ({k} \cap Mod)

ReleasedModsShift(k) == IF k = "Shift" THEN mods \ {k} ELSE mods
ReleasedMods(k) == mods \ {k}

-----------------------------------------------------------------------------
(* process_event() and process_term(): a press or a repeat is value 1 or   *)
(* 2, which are handled alike.                                             *)

InTerminal == curterm # None

\* What the history keeps of a press of End: the modifiers that were down, if
\* the code has seen the last of each.
Noted == IF missed = {} THEN held \cap (Mod \ {"Lang"}) ELSE {"unseen"}

EndPressKeeps ==
  /\ help' = (help \/ mods \ {"Lang"} # {})
  /\ endmods' = Noted
  /\ Quiet /\ UNCHANGED <<mods, langlock, curterm, terms, view, missed>>

\* End: with a modifier the keymap is drawn at the first press.
EndPress ==
  /\ help' = (mods \ {"Lang"} # {})
  /\ endmods' = Noted
  /\ Quiet /\ UNCHANGED <<mods, langlock, curterm, terms, view, missed>>

ModPress(k) ==
  /\ mods' = PressedMods(k)
  /\ langlock' = IF TurnsLock(k) THEN ~ langlock ELSE langlock
  /\ missed' = IF TurnsLock(k) THEN missed ELSE missed \ {k}
  /\ Quiet /\ UNCHANGED <<help, curterm, terms, view, endmods>>

ScrollPress(k) ==
  /\ process_screen(IF k = "ScrollUp" THEN sb_pos + sb_step
                    ELSE IF sb_pos < sb_step THEN 0 ELSE sb_pos - sb_step)
  /\ sent' = NoKeys
  /\ UNCHANGED <<statics, curterm, terms, history>>

\* Typing brings the page back.
SendPress(k) ==
  /\ sent' = Sequence(k, mods, langlock)
  /\ IF sent' # NoKeys /\ sb_pos # 0 THEN process_screen(0)
     ELSE drawn' = NoRows /\ UNCHANGED view
  /\ UNCHANGED <<statics, curterm, terms, history>>

TermPress(k) ==
  \/ k = "End" /\ EndPress
  \/ k \in Mod /\ ModPress(k)
  \/ k \in {"ScrollUp", "ScrollDown"} /\ ScrollPress(k)
  \/ k \in Sends /\ SendPress(k)
  \/ k = "unknown" /\ Quiet /\ UNCHANGED <<statics, curterm, terms, view, history>>

EndRelease ==
  /\ help' = FALSE
  /\ IF help THEN process_screen(sb_pos) /\ UNCHANGED curterm
     ELSE curterm_end /\ drawn' = NoRows /\ UNCHANGED view
  /\ endmods' = {} /\ sent' = NoKeys
  /\ UNCHANGED <<mods, langlock, terms, missed>>

TermRelease(k) ==
  IF k = "End" THEN EndRelease
  ELSE /\ mods' = ReleasedMods(k)
       /\ missed' = missed \ {k}
       /\ Quiet /\ UNCHANGED <<langlock, help, curterm, terms, view, endmods>>

\* Out of terminal mode a key is read and forgotten.
Unseen(k) ==
  /\ missed' = missed \cup ({k} \cap Mod)
  /\ Quiet /\ UNCHANGED <<statics, curterm, terms, view, endmods>>

Press(k) ==
  /\ held' = held \cup {k} /\ Cardinality(held') <= MaxHeld
  /\ IF InTerminal THEN TermPress(k) ELSE Unseen(k)

Release(k) ==
  /\ k \in held /\ held' = held \ {k}
  /\ IF InTerminal THEN TermRelease(k) ELSE Unseen(k)

-----------------------------------------------------------------------------
(* What else touches the state: the special FIFO (Activate), the timer     *)
(* (Draw), the shells, SIGHUP.                                             *)

\* shell_find() makes the terminal with the length configured now.
Activate(n) ==
  /\ curterm' = n
  /\ IF terms[n].on THEN UNCHANGED <<terms, sb_step>>
     ELSE /\ terms' = [terms EXCEPT ![n] =
                         [on |-> TRUE, lines |-> sb_lines, top |-> 0]]
          /\ sb_step' = Rows \div 2
  /\ endmods' = IF curterm = None THEN {"unseen"} ELSE endmods
  /\ Quiet /\ UNCHANGED <<held, statics, sb_lines, sb_pos, missed>>

Draw ==
  /\ InTerminal /\ process_screen(sb_pos)
  /\ sent' = NoKeys
  /\ UNCHANGED <<held, statics, curterm, terms, history>>

\* page_scroll() keeps a row more, ESC c forgets them.
Output(n) ==
  /\ terms[n].on
  /\ \E top \in {0, terms[n].top + 1} :
       /\ top = 0 \/ top < terms[n].lines
       /\ terms' = [terms EXCEPT ![n].top = top]
  /\ Quiet /\ UNCHANGED <<held, statics, curterm, view, history>>

ShellDies(n) ==
  /\ terms[n].on
  /\ terms' = [terms EXCEPT ![n] = [on |-> FALSE, lines |-> 0, top |-> 0]]
  /\ IF curterm = n THEN curterm_end ELSE UNCHANGED curterm
  /\ Quiet /\ UNCHANGED <<held, statics, view, history>>

\* launchpad_deinit(1) and launchpad_init(): the first part of lp_state is
\* cleared, the terminals and the static variables stay.
Reload(lines) ==
  /\ curterm_end
  /\ sb_lines' = lines /\ sb_step' = 0 /\ sb_pos' = 0
  /\ Quiet /\ UNCHANGED <<held, statics, terms, history>>

KeysInit ==
  /\ held = {} /\ mods = {} /\ langlock = FALSE /\ help = FALSE
  /\ curterm = None
  /\ terms = [n \in Name |-> [on |-> FALSE, lines |-> 0, top |-> 0]]
  /\ sb_lines \in SbChoice /\ sb_step = 0 /\ sb_pos = 0
  /\ drawn = NoRows /\ sent = NoKeys
  /\ missed = {} /\ endmods = {}

KeysNext ==
  \/ \E k \in Keypad : Press(k) \/ Release(k)
  \/ \E n \in Name : Activate(n) \/ Output(n) \/ ShellDies(n)
  \/ Draw
  \/ \E lines \in SbChoice : Reload(lines)

KeysSpec == KeysInit /\ [][KeysNext]_vars

-----------------------------------------------------------------------------
(* Properties.                                                             *)

\* The code believes a modifier held exactly when it is, unless the key was
\* last pressed or released out of terminal mode.  (Lang does not count while
\* it turns the lock.)
FlagsAreHeld ==
  \A m \in Mod \ missed : /\ m \in mods => m \in held
                          /\ m \in held => m \in mods \/ m = "Lang"

\* A press and release of End that the terminal sees ends terminal mode if no
\* modifier was down at its last press or repeat, and only then: whatever
\* came between, in this terminal mode or in the one before.  (A comment at
\* the call, launchpad.c:887, has repeats ignored, but process_term() takes
\* value 2 for a press: Shift and End, Shift released, End repeated ends it.)
EndKey ==
  [][InTerminal /\ endmods # {"unseen"} /\ Release("End")
       => (curterm' = None <=> endmods = {})]_vars

\* What is drawn above the page are rows that the terminal's scrollback
\* holds, whichever terminal sb_pos was meant for: unless a reload has
\* changed the length since the terminal was made.
DrawsHeldRows ==
  drawn # NoRows =>
    LET t == terms[drawn.term]
    IN  t.lines = sb_lines => drawn.rows \subseteq t.lines - t.top .. t.lines - 1
=============================================================================
