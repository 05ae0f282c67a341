--------------------------- MODULE HelpController ---------------------------
(***************************************************************************)
(* The modal help screen: help/help_controller.hpp, which routes every     *)
(* input event, and help/help_screen.hpp, the page and key it shows.       *)
(***************************************************************************)
EXTENDS InputManager

VARIABLE help   \* active_, nav_.page and the key of nav_.last_key

Pages  == 0..3       \* Overview, Keypad, Sym, Fn
Keypad == 1
NoKey  == ""

HelpClosed == [active |-> FALSE, page |-> 0, last |-> NoKey]

Opened(h) == [active |-> TRUE, page |-> 0, last |-> NoKey]
Closed(h) == [h EXCEPT !.active = FALSE]

NextPage(h) == [h EXCEPT !.page = IF @ = 3 THEN 0 ELSE @ + 1]
PrevPage(h) == [h EXCEPT !.page = IF @ = 0 THEN 3 ELSE @ - 1]

\* handle_inactive_event: a press, never an autorepeat.
IsOpenKey(m, e) ==
  e.value = 1 /\ (e.key = "Menu" \/ ("shift" \in m /\ e.key = "H"))

\* is_exit_key, asked on presses and autorepeats.
ExitKeys == {"Back", "Menu", "PageTurn", "Q", "Enter"}

IsExitKey(m, e) ==
  \/ e.key \in ExitKeys
  \/ BytesOf(m, e) \in {"CR", "q"}
  \/ "shift" \in m /\ e.key = "H"

\* handle_navigation_key; a digit key counts whatever bytes it makes.
PageOfDigit == [d \in DigitKeys |-> CASE d = "1" -> 0 [] d = "2" -> 1
                                      [] d = "3" -> 2 [] OTHER   -> 3]

IsPrevKey(m, e) == e.key \in {"Left", "PageBack"}
IsNextKey(m, e) == e.key \in {"Right", "PageFwd"}

IsNavigationKey(m, e) ==
  e.key \in DigitKeys \/ IsPrevKey(m, e) \/ IsNextKey(m, e)

Navigated(h, m, e) ==
  CASE e.key \in DigitKeys -> [h EXCEPT !.page = PageOfDigit[e.key]]
    [] IsPrevKey(m, e)     -> PrevPage(h)
    [] OTHER               -> NextPage(h)

\* record_and_redraw
Recorded(h, e) == [h EXCEPT !.last = e.key]

(* before_terminal_write: the route of an event, and the state it leaves.  *)
InactiveRoute(m, e) == IF IsOpenKey(m, e) THEN "RedrawFull" ELSE "Pass"

\* Mutant of ActiveRoute: keys without a meaning go on to the shell.
ActiveRouteLeaky(m, e) ==
  CASE IsExitKey(m, e) /\ e.value # 0                          -> "Exit"
    [] IsNavigationKey(m, e) /\ ~IsExitKey(m, e) /\ e.value # 0 -> "RedrawFull"
    [] OTHER                                                   -> "Pass"

ActiveRoute(m, e) ==
  CASE e.value = 0                          -> "Consume"
    [] e.value # 0 /\ IsExitKey(m, e)       -> "Exit"
    [] e.value # 0 /\ ~IsExitKey(m, e) /\ IsNavigationKey(m, e) -> "RedrawFull"
    [] OTHER                                -> "RedrawDelta"

Route(h, m, e) == IF h.active THEN ActiveRoute(m, e) ELSE InactiveRoute(m, e)

HelpAfter(h, m, e) ==
  CASE Route(h, m, e) = "RedrawFull" /\ ~h.active -> Opened(h)
    [] Route(h, m, e) = "RedrawFull" /\ h.active  -> Navigated(h, m, e)
    [] Route(h, m, e) = "Exit"                    -> Closed(h)
    [] Route(h, m, e) = "RedrawDelta"             -> Recorded(h, e)
    [] OTHER                                      -> h
=============================================================================
