----------------------------- MODULE AnsiParser -----------------------------
(***************************************************************************)
(* The escape-sequence decoder of terminal/ansi_parser.hpp, one action per *)
(* branch of the switch in AnsiParser::feed.  A byte is a string: a byte   *)
(* the decoder looks at has its own name ("ESC", "[", ";", "H", "f", "J",  *)
(* the digits), every other byte is told apart only by its user.           *)
(*                                                                         *)
(* param_buf_, a string of digits and semicolons, is kept as the two       *)
(* numbers execute_csi reads out of it: atoi of the text before the first  *)
(* ';' and atoi of the text between the first and the second one.          *)
(***************************************************************************)
EXTENDS Integers

CONSTANTS
  Digits,      \* the digit bytes of the run
  DigitValue,  \* the number each of them stands for
  MaxParam     \* bound: a parameter above it is kept as MaxParam

ASSUME ParserAssumption ==
  /\ DigitValue \in [Digits -> 0..9]
  /\ MaxParam \in Nat
  /\ MaxParam >= 3     \* "a mode execute_csi's callee ignores" stays one
  /\ {"ESC", "[", ";", "H", "f", "J"} \cap Digits = {}

VARIABLE parser

ParserStates == {"Ground", "Escape", "Csi"}

ParserType ==
  [state : ParserStates, a1 : 0..MaxParam, a2 : 0..MaxParam, seps : 0..2]

Idle == [state |-> "Ground", a1 |-> 0, a2 |-> 0, seps |-> 0]

\* One more digit read by atoi.
AddDigit(n, b) ==
  LET v == 10 * n + DigitValue[b]
  IN  IF v > MaxParam THEN MaxParam ELSE v

ParserInit == parser = Idle

StartEscape(b) ==
  /\ parser.state = "Ground"
  /\ b = "ESC"
  /\ parser' = [parser EXCEPT !.state = "Escape"]

\* Everything but ESC goes to on_print_char, control characters too.
PassToHandler(b) ==
  /\ parser.state = "Ground"
  /\ b # "ESC"
  /\ UNCHANGED parser

\* The byte after ESC is swallowed, whatever it is.
Introduce(b) ==
  /\ parser.state = "Escape"
  /\ parser' = IF b = "[" THEN [Idle EXCEPT !.state = "Csi"] ELSE Idle

CollectDigit(b) ==
  /\ parser.state = "Csi"
  /\ b \in Digits
  /\ parser' = CASE parser.seps = 0 -> [parser EXCEPT !.a1 = AddDigit(@, b)]
                 [] parser.seps = 1 -> [parser EXCEPT !.a2 = AddDigit(@, b)]
                 [] OTHER           -> parser

CollectSeparator(b) ==
  /\ parser.state = "Csi"
  /\ b = ";"
  /\ parser' = [parser EXCEPT !.seps = IF @ < 2 THEN @ + 1 ELSE 2]

\* Any other byte, ESC included, ends the sequence.
Terminate(b) ==
  /\ parser.state = "Csi"
  /\ b \notin Digits \cup {";"}
  /\ parser' = Idle
=============================================================================
