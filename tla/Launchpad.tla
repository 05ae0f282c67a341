------------------------------ MODULE Launchpad ------------------------------
(***************************************************************************)
(* The legacy program: mainloop() of myts.c with its two kinds of session, *)
(* the launchpad (launchpad.c) and the shells behind its terminals         *)
(* (handle_shell, term_new, term_kill of terminal.c).                      *)
(*                                                                         *)
(* A pass of mainloop() merges the new sessions, asks every handler what   *)
(* to wait for, selects, and runs every handler once.  A visit of the      *)
(* launchpad's handler is three steps (keys, the special FIFO, the screen  *)
(* timer).  A batch of key events is a                                     *)
(* run of passes of one event each, and whether the keypad has an event is *)
(* decided when it is read.  A signal that falls inside a visit is taken   *)
(* to fall before or after it: got_signal is only read as one begins.      *)
(*                                                                         *)
(* A session is an identifier, new_sess() returns one that is free.  What  *)
(* terminal.c keeps behind one (page, key queue, scrollback) is left out:  *)
(* here a shell is modified or not.                                        *)
(***************************************************************************)
EXTENDS Integers, Sequences, SequencesExt

CONSTANTS
  Name,      \* names of terminals that the special FIFO may ask for
  LpId,      \* sessions of the launchpad; bounds the number of reloads
  ShellId,   \* sessions of shells; bounds how many exist at a time
  None

ASSUME LaunchpadAssumption ==
  /\ LpId \cap ShellId = {}
  /\ None \notin Name \cup ShellId
  /\ LpId # {}
  /\ Name \cap {"ui", "nothing"} = {}

VARIABLES
  sess, tmp,     \* lists of sessions: the one scanned, the new ones
  at,            \* the session whose handler runs, a place in sess
  phase,         \* where mainloop() is, "ended" when the process is gone
  ready,         \* shells that select() found ready, not served yet
  shell,         \* what a session of a shell keeps
  allterm,       \* the shell of each listed terminal
  mode,          \* the launchpad's state in and out of terminal mode
  help,          \* process_term() has shown the keymap
  kpad,          \* the keypad is open
  signal,        \* got_signal
  handled,       \* the signal handlers are installed
  screen,        \* what the panel shows
  switched       \* history: a request came while in terminal mode

loop  == <<sess, tmp, at, phase, ready>>
terms == <<shell, allterm>>
lp    == <<kpad, signal, handled>>
view  == <<mode, screen, switched>>
vars  == <<loop, terms, lp, view, help>>

Sessions == LpId \cup ShellId
Images   == Name \cup {"ui"}

Freed == [alive |-> FALSE, fd |-> FALSE, modified |-> FALSE]
NoShells    == [s \in ShellId |-> Freed]
NoTerminals == [n \in Name |-> None]
UiMode == [curterm |-> None, fb |-> "none", saved |-> "nothing",
           due |-> FALSE, grabbed |-> FALSE]

Allocated == ToSet(sess) \cup ToSet(tmp)
Free(ids)  == ids \ Allocated
Fresh(ids) == CHOOSE s \in Free(ids) : TRUE
Listed    == {n \in Name : allterm[n] # None}

Shells == [alive : BOOLEAN, fd : BOOLEAN, modified : BOOLEAN]
Modes  == [curterm : Name \cup {None}, fb : {"none", "open", "closed"},
           saved : Images \cup {"nothing"}, due : BOOLEAN, grabbed : BOOLEAN]

LoopOK ==
  /\ sess \in Seq(Sessions) /\ tmp \in Seq(Sessions)
  /\ at \in 1 .. Len(sess) + 1
  /\ phase \in {"prepare", "run", "special", "due", "ended"}
  /\ ready \subseteq ShellId

StateOK ==
  /\ shell \in [ShellId -> Shells]
  /\ allterm \in [Name -> ShellId \cup {None}]
  /\ mode \in Modes
  /\ help \in BOOLEAN
  /\ kpad \in BOOLEAN /\ signal \in {0, 1, 2} /\ handled \in BOOLEAN
  /\ screen \in Images /\ switched \in BOOLEAN

LaunchpadTypeOK == LoopOK /\ StateOK

(***************************************************************************)
(* launchpad_start() from main().  launchpad_init() may fail, or succeed   *)
(* without a keypad.                                                       *)
(***************************************************************************)
LaunchpadInit ==
  /\ sess = <<>> /\ tmp \in {<<l>> : l \in LpId}
  /\ at = 1 /\ phase = "prepare" /\ ready = {}
  /\ shell = NoShells /\ allterm = NoTerminals
  /\ mode = UiMode /\ help = FALSE
  /\ kpad \in BOOLEAN /\ signal = 0 /\ handled \in BOOLEAN
  /\ kpad => handled
  /\ screen = "ui" /\ switched = FALSE

(***************************************************************************)
(* The process ends: its descriptors close, the shells lose their pty.     *)
(***************************************************************************)
Die ==
  /\ sess' = <<>> /\ tmp' = <<>> /\ at' = 1 /\ phase' = "ended" /\ ready' = {}
  /\ shell' = NoShells /\ allterm' = NoTerminals
  /\ mode' = UiMode /\ help' = FALSE
  /\ kpad' = FALSE /\ signal' = 0 /\ handled' = FALSE
  /\ UNCHANGED <<screen, switched>>

(***************************************************************************)
(* Terminal mode.  lps->fb is "closed" when it points to a screen that     *)
(* fb_close() has unmapped: any drawing through it is an invalid access.   *)
(***************************************************************************)
CurtermEndFaults == mode.fb = "closed" /\ mode.saved # "nothing"
DrawFaults       == mode.fb = "closed" /\ mode.curterm # None
Drawable         == mode.fb = "open" /\ mode.curterm # None

Restores == mode.fb = "open" /\ mode.saved # "nothing"

CurtermEndKeepsGrab ==
  /\ mode' = [UiMode EXCEPT !.due = mode.due, !.grabbed = mode.grabbed]
  /\ screen' = IF Restores THEN mode.saved ELSE screen
  /\ UNCHANGED switched

CurtermEndForgetsScreen ==
  /\ mode' = [UiMode EXCEPT !.due = mode.due]
  /\ UNCHANGED <<screen, switched>>

CurtermEnd ==
  /\ mode' = [curterm |-> None, fb |-> "none", grabbed |-> FALSE,
              due |-> mode.due,
              saved |-> IF Restores THEN "nothing" ELSE mode.saved]
  /\ screen' = IF Restores THEN mode.saved ELSE screen
  /\ UNCHANGED switched

\* process_screen() and print_keymap(): both clear the timer, read the flag
\* and draw over the panel; a keymap is an image of its terminal here
ProcessScreen ==
  /\ mode' = [mode EXCEPT !.due = FALSE]
  /\ screen' = IF Drawable THEN mode.curterm ELSE screen
  /\ shell' = IF Drawable
              THEN [shell EXCEPT ![allterm[mode.curterm]].modified = FALSE]
              ELSE shell
  /\ UNCHANGED switched

(***************************************************************************)
(* launchpad_deinit(0): terminal mode ends, every listed shell is killed,  *)
(* descriptors close.  The killed shells' sessions stay in the lists.      *)
(***************************************************************************)
KilledShells == {allterm[n] : n \in Listed}

FreeTerminalsWithoutKill == allterm' = NoTerminals /\ UNCHANGED shell

FreeTerminals ==
  /\ shell' = [s \in ShellId |-> [shell[s] EXCEPT
                 !.alive = @ /\ s \notin KilledShells]]
  /\ allterm' = NoTerminals

Deinit ==
  /\ CurtermEnd
  /\ FreeTerminals
  /\ kpad' = FALSE /\ signal' = 0 /\ handled' = FALSE

(***************************************************************************)
(* mainloop(): merge, prepare and select().  The launchpad's handler arms  *)
(* the screen timer when the shell on screen has written.  A pty whose     *)
(* shell is gone is always ready.                                          *)
(***************************************************************************)
ArmsWhenQuiet ==
  /\ kpad /\ mode.curterm # None /\ mode.fb # "none"
  /\ ~shell[allterm[mode.curterm]].modified

Arms == /\ kpad /\ mode.curterm # None /\ mode.fb # "none"
        /\ shell[allterm[mode.curterm]].modified
        /\ LpId \cap Allocated # {}

Watched == {s \in ShellId \cap Allocated : shell[s].fd}

SelectKeepsNew(r) ==
  /\ phase = "prepare"
  /\ r \subseteq Watched
  /\ sess' = tmp \o sess /\ ready' = r /\ at' = 1 /\ phase' = "run"
  /\ UNCHANGED <<tmp, terms, lp, view, help>>

Select(r) ==
  /\ phase = "prepare"
  /\ r \subseteq Watched
  /\ {s \in Watched : ~shell[s].alive} \subseteq r
  /\ sess' = tmp \o sess /\ tmp' = <<>>
  /\ mode' = [mode EXCEPT !.due = @ \/ Arms]
  /\ ready' = r /\ at' = 1 /\ phase' = "run"
  /\ UNCHANGED <<terms, lp, screen, switched, help>>

NextPass ==
  /\ phase = "run" /\ at > Len(sess)
  /\ phase' = "prepare" /\ at' = 1
  /\ UNCHANGED <<sess, tmp, ready, terms, lp, view, help>>

Running(s) == phase = "run" /\ at \in DOMAIN sess /\ sess[at] = s

Advance == /\ at' = at + 1 /\ phase' = "run" /\ ready' = ready \ {sess[at]}
           /\ UNCHANGED <<sess, tmp>>
UnlinkAndAdvance ==
  sess' = RemoveAt(sess, at) /\ at' = at + 1 /\ UNCHANGED <<tmp, phase, ready>>

Unlink  == sess' = RemoveAt(sess, at) /\ UNCHANGED <<tmp, at, phase, ready>>

(***************************************************************************)
(* handle_launchpad(), run = 1.                                            *)
(***************************************************************************)
LpRuns == \E l \in LpId : Running(l)

\* the keypad is gone: release everything and leave the list
LpGone ==
  /\ LpRuns /\ ~kpad
  /\ IF CurtermEndFaults THEN Die ELSE Deinit /\ Unlink /\ UNCHANGED help

\* SIGTERM, SIGINT: release everything, and stay in the list for one pass
LpExit ==
  /\ LpRuns /\ kpad /\ signal = 2
  /\ IF CurtermEndFaults THEN Die ELSE Deinit /\ Advance /\ UNCHANGED help

\* SIGHUP: launchpad_deinit(1) and launchpad_start(), which makes one more
\* session.  When launchpad_init() fails, launchpad_deinit(0) follows.
LpReload ==
  /\ LpRuns /\ kpad /\ signal = 1
  /\ IF CurtermEndFaults
     THEN Die
     ELSE /\ tmp' = <<Fresh(LpId)>> \o tmp
          /\ at' = at + 1 /\ UNCHANGED <<sess, phase, ready>>
          /\ screen' = IF Restores THEN mode.saved ELSE screen
          /\ mode' = UiMode /\ signal' = 0
          /\ UNCHANGED <<switched, help>>
          /\ \/ kpad' \in BOOLEAN /\ handled' = TRUE /\ UNCHANGED terms
             \/ kpad' = FALSE /\ handled' = FALSE /\ FreeTerminals

LpReads == LpRuns /\ kpad /\ signal = 0

ToSpecial == phase' = "special" /\ UNCHANGED <<sess, tmp, at, ready>>

NoKey ==
  /\ LpReads
  /\ ToSpecial /\ UNCHANGED <<terms, lp, view, help>>

(***************************************************************************)
(* process_event() and process_term(), one action per kind of key.         *)
(***************************************************************************)
KeyRead == LpReads /\ mode.fb # "none"

EndPressed(modifier) ==
  /\ KeyRead
  /\ help' = modifier
  /\ IF modifier /\ ~help
     THEN IF DrawFaults
          THEN Die
          ELSE ProcessScreen /\ ToSpecial /\ UNCHANGED <<allterm, lp>>
     ELSE ToSpecial /\ UNCHANGED <<terms, lp, view>>

\* TermEnd released hides it, or leaves terminal mode
EndReleased ==
  /\ KeyRead
  /\ IF (IF help THEN DrawFaults ELSE CurtermEndFaults)
     THEN Die
     ELSE /\ IF help THEN ProcessScreen ELSE CurtermEnd /\ UNCHANGED shell
          /\ help' = FALSE
          /\ ToSpecial /\ UNCHANGED <<allterm, lp>>

\* volume keys move the view over the scrollback, a character typed moves it
\* back: a redraw.  Other characters change nothing that is kept here.
Redraw ==
  /\ KeyRead
  /\ IF DrawFaults
     THEN Die
     ELSE /\ ProcessScreen
          /\ ToSpecial /\ UNCHANGED <<allterm, lp, help>>

(***************************************************************************)
(* The special FIFO: open or switch to terminal n (process_event, mode -3, *)
(* shell_find, term_new).                                                  *)
(***************************************************************************)
ToTimer == phase' = "due" /\ UNCHANGED <<sess, at, ready>>

NoRequest ==
  /\ phase = "special"
  /\ ToTimer /\ UNCHANGED <<tmp, terms, lp, view, help>>

Requested == phase = "special" /\ ToTimer /\ UNCHANGED <<lp, help>>

\* what happens to a terminal mode that is on already
Switched == switched' = (switched \/ mode.curterm # None)

Activate(n) ==
  /\ mode' = [curterm |-> n, fb |-> "open", saved |-> screen,
              due |-> TRUE, grabbed |-> TRUE]
  /\ UNCHANGED screen /\ Switched

SwitchTo(n) ==
  /\ Requested /\ n \in Listed
  /\ Activate(n) /\ UNCHANGED <<tmp, terms>>

OpenShell(n) ==
  /\ Requested /\ n \notin Listed /\ Free(ShellId) # {}
  /\ LET s == Fresh(ShellId) IN
     /\ tmp' = <<s>> \o tmp
     /\ shell' = [shell EXCEPT ![s] = [alive |-> TRUE, fd |-> TRUE,
                                       modified |-> TRUE]]
     /\ allterm' = [allterm EXCEPT ![n] = s]
  /\ Activate(n)

\* shell_find() finds no memory, or no pty: then a dying session is left.
\* The screen is closed and lps->fb still points to it.
ScreenLeft ==
  /\ mode' = [mode EXCEPT !.fb = "closed"]
  /\ UNCHANGED screen /\ Switched

NoMemory(n) ==
  /\ Requested /\ n \notin Listed
  /\ ScreenLeft /\ UNCHANGED <<tmp, terms>>

NoPty(n) ==
  /\ Requested /\ n \notin Listed /\ Free(ShellId) # {}
  /\ LET s == Fresh(ShellId) IN
     /\ tmp' = <<s>> \o tmp
     /\ shell' = [shell EXCEPT ![s] = [Freed EXCEPT !.modified = TRUE]]
  /\ ScreenLeft /\ UNCHANGED allterm

\* fb_open() fails: shell_find() reads through the pointer for a new name
NoScreen(n) ==
  /\ phase = "special"
  /\ IF n \notin Listed
     THEN Die
     ELSE /\ Requested
          /\ mode' = [mode EXCEPT !.fb = "none"]
          /\ UNCHANGED <<tmp, terms, screen>> /\ Switched

(***************************************************************************)
(* The screen timer.                                                       *)
(***************************************************************************)
TimerDue ==
  /\ phase = "due" /\ mode.due
  /\ IF DrawFaults
     THEN Die
     ELSE ProcessScreen /\ Advance /\ UNCHANGED <<allterm, lp, help>>

TimerNotDue ==
  /\ phase = "due"
  /\ Advance /\ UNCHANGED <<terms, lp, view, help>>

(***************************************************************************)
(* handle_shell(), run = 1.                                                *)
(***************************************************************************)
ShellGoneUnnoticed(s) ==
  /\ Running(s) /\ ~shell[s].fd
  /\ shell' = [shell EXCEPT ![s] = Freed]
  /\ Unlink /\ UNCHANGED <<allterm, lp, view, help>>

\* term_dead() unlists the terminal, leaving terminal mode if it is on
ShellGone(s) ==
  /\ Running(s) /\ ~shell[s].fd
  /\ LET current == mode.curterm # None /\ allterm[mode.curterm] = s
     IN  IF current /\ CurtermEndFaults
         THEN Die
         ELSE /\ IF current THEN CurtermEnd ELSE UNCHANGED view
              /\ allterm' = [n \in Name |-> IF allterm[n] = s THEN None
                                            ELSE allterm[n]]
              /\ shell' = [shell EXCEPT ![s] = Freed]
              /\ Unlink /\ UNCHANGED <<lp, help>>

ShellServedBlindly(s) ==
  /\ Running(s) /\ shell[s].fd
  /\ \/ UNCHANGED shell
     \/ s \in ready /\ shell[s].alive /\ shell' = [shell EXCEPT ![s].modified = TRUE]
  /\ Advance /\ UNCHANGED <<allterm, lp, view, help>>

\* term_screen(): a read may find the shell gone, or no room left in sbuf,
\* which is taken for the same
ShellServed(s) ==
  /\ Running(s) /\ shell[s].fd
  /\ \/ s \notin ready /\ UNCHANGED shell
     \/ s \in ready /\ shell[s].alive /\ shell' = [shell EXCEPT ![s].modified = TRUE]
     \/ s \in ready /\ shell' = [shell EXCEPT ![s].fd = FALSE]
  /\ Advance /\ UNCHANGED <<allterm, lp, view, help>>

(***************************************************************************)
(* What happens around the program.                                        *)
(***************************************************************************)
ShellExits(s) ==
  /\ shell[s].alive
  /\ shell' = [shell EXCEPT ![s].alive = FALSE]
  /\ UNCHANGED <<allterm, loop, lp, view, help>>

\* SIGHUP (1), SIGTERM and SIGINT (2): without the handlers they kill.
\* A reload needs a session: LpId bounds how many are asked for.
Signal(k) ==
  /\ phase \in {"prepare", "run"}
  /\ k = 1 => Free(LpId) # {}
  /\ IF handled
     THEN /\ signal' = k
          /\ UNCHANGED <<loop, terms, kpad, handled, view, help>>
     ELSE Die

LpStep ==
  \/ LpGone \/ LpExit \/ LpReload
  \/ NoKey \/ (\E m \in BOOLEAN : EndPressed(m)) \/ EndReleased \/ Redraw
  \/ NoRequest \/ TimerDue \/ TimerNotDue
  \/ \E n \in Name :
       SwitchTo(n) \/ OpenShell(n) \/ NoMemory(n) \/ NoPty(n) \/ NoScreen(n)

ShellStep == \E s \in ShellId : ShellGone(s) \/ ShellServed(s)

LoopStep ==
  \/ NextPass \/ LpStep \/ ShellStep
  \/ \E r \in SUBSET ShellId : Select(r)

LaunchpadNext ==
  \/ LoopStep
  \/ \E s \in ShellId : ShellExits(s)
  \/ \E k \in {1, 2} : Signal(k)

\* Handlers return and select() has a timeout of at most 100 s, so the loop
\* moves; screen_due is a fixed time that later passes get beyond.
LaunchpadSpec ==
  LaunchpadInit /\ [][LaunchpadNext]_vars
  /\ WF_vars(LoopStep) /\ SF_vars(TimerDue)

(***************************************************************************)
(* Properties.                                                             *)
(***************************************************************************)
\* No session is in the lists twice: tmp is emptied as it is merged, a
\* handler unlinks its own session only (myts.c:126-133, 165-175).
OneList == IsInjective(tmp \o sess)

\* The shell of a listed terminal is an allocated session of that terminal
\* alone, and the current terminal is listed, so the_shell is never followed
\* to freed memory.  The two lists are kept by different files.
TerminalsHaveShells ==
  /\ \A n \in Listed : allterm[n] \in Allocated
  /\ \A m, n \in Listed : allterm[m] = allterm[n] => m = n
  /\ mode.curterm # None => mode.curterm \in Listed

\* The keypad is grabbed exactly in terminal mode, however it ends: by its
\* key, by the death of the shell, by a signal.
GrabbedInTerminalMode == mode.grabbed <=> mode.curterm # None

\* A shell that runs and is listened to can be reached by its name: the
\* terminal list loses a shell only when the shell dies or is killed.  (A
\* read without room closes fd and leaves a running shell behind.)
ShellsAreReachable ==
  \A s \in ShellId : shell[s].alive /\ shell[s].fd => \E n \in Name : allterm[n] = s

\* Out of terminal mode the panel shows the device's own screen again,
\* unless a request came while terminal mode was on (it saves the terminal).
ScreenIsGivenBack ==
  phase # "ended" /\ mode.curterm = None /\ ~switched => screen = "ui"

\* A terminal whose shell has died leaves the list, whatever else the loop
\* is busy with: two passes and two files away from the read that fails.
DeadIsUnlisted ==
  \A n \in Name, s \in ShellId :
    allterm[n] = s /\ ~shell[s].alive ~> allterm[n] # s

\* What the shell on the screen has written is drawn in the end.
OutputIsDrawn ==
  \A n \in Name :
    /\ mode.curterm = n /\ mode.fb = "open"
    /\ allterm[n] # None /\ shell[allterm[n]].modified
    ~> \/ mode.curterm # n \/ mode.fb # "open" \/ ~shell[allterm[n]].modified
=============================================================================
