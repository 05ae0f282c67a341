---------------------------- MODULE InputManager ----------------------------
(***************************************************************************)
(* Keys to bytes, as input/input_manager.hpp does it with the codes of     *)
(* input/key_catalog.hpp.  A key is the name of its code, an event is a    *)
(* key with value 0 (release), 1 (press) or 2 (autorepeat).  The bytes     *)
(* produced are one token per kind the rest of the program tells apart;    *)
(* "" is the empty string view, "char" any other printable byte, "ctl" any *)
(* other control byte, "esc" a sequence other than the two arrows.         *)
(***************************************************************************)
EXTENDS Integers

CONSTANT Keys   \* the keys of the run

ShiftKeys == {"ShiftL", "ShiftR"}
CtrlKeys  == {"CtrlL", "CtrlR", "Aa"}
AltKeys   == {"AltL", "AltR"}
SymKeys   == {"Sym"}
ModKeys   == ShiftKeys \cup CtrlKeys \cup AltKeys \cup SymKeys

\* Both keys of a pair share one flag.
ModifierOf(k) ==
  CASE k \in ShiftKeys -> "shift"
    [] k \in CtrlKeys  -> "ctrl"
    [] k \in AltKeys   -> "alt"
    [] OTHER           -> "sym"

DigitKeys  == {"1", "2", "3", "4"}
LetterKeys == {"H", "J", "M", "Q", "X"}   \* X: a letter treated like any other

Events == [key : Keys, value : 0..2]

VARIABLE mods   \* the set of modifiers whose flag is set

\* The flags process_event leaves.
ModsAfter(m, e) ==
  CASE e.key \notin ModKeys -> m
    [] e.key \in ModKeys /\ e.value = 0 -> m \ {ModifierOf(e.key)}
    [] OTHER -> m \cup {ModifierOf(e.key)}

\* A letter: Ctrl wins over Shift; Ctrl+H, J and M are BS, LF and CR.
LetterBytes(m, k) ==
  CASE "ctrl" \in m /\ k = "H" -> "BS"
    [] "ctrl" \in m /\ k = "J" -> "LF"
    [] "ctrl" \in m /\ k = "M" -> "CR"
    [] "ctrl" \in m            -> "ctl"
    [] k = "Q" /\ m \cap {"ctrl", "shift"} = {} -> "q"
    [] OTHER -> "char"

\* translate_keycode; keys without a case produce nothing.
Translate(m, k) ==
  CASE k = "Enter"         -> "CR"
    [] k = "Del"           -> "DEL"
    [] k = "Left"          -> "LEFT"
    [] k = "Right"         -> "RIGHT"
    [] k \in {"Up", "Down"} -> "esc"
    [] k \in {"Space", "Dot", "Slash"} -> "char"
    [] k \in DigitKeys     -> IF "shift" \in m THEN "char" ELSE k
    [] k \in LetterKeys    -> LetterBytes(m, k)
    [] OTHER               -> ""

\* What process_event returns; m are the flags it leaves.
BytesOf(m, e) ==
  IF e.key \in ModKeys \/ e.value = 0 THEN "" ELSE Translate(m, e.key)
=============================================================================
