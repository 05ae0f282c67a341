------------------------- MODULE HelpCommandTracker -------------------------
(***************************************************************************)
(* The observer of help/help_command_tracker.hpp: it follows the bytes the *)
(* application writes to the shell and answers true when the user has      *)
(* typed the help command and a line end.  It remembers at most Cap        *)
(* characters (buffer_[8] keeps 7 and a NUL).                              *)
(*                                                                         *)
(* line, plain and peak are history: what a shell reading the same bytes   *)
(* holds on its line as long as only characters and erasures were typed    *)
(* (plain), and the longest that line has been since it was last empty of  *)
(* a submission.  What a shell makes of control characters and escape      *)
(* sequences is not assumed: they clear plain until the next line end.     *)
(***************************************************************************)
EXTENDS Integers, Sequences

CONSTANTS
  Chars,    \* printable characters of the run
  Finals,   \* those of them in 0x40 .. 0x7E, which end a CSI sequence
  Word,     \* "help"
  Cap,      \* sizeof(buffer_) - 1
  MaxLine   \* bound on the line the user types

ASSUME TrackerAssumption ==
  /\ Finals \subseteq Chars
  /\ Word \in Seq(Chars \ {"~"})
  /\ Cap \in Nat /\ Len(Word) < Cap
  /\ MaxLine \in Nat
  /\ {"ESC", "CR", "LF", "DEL", "BS", "CTL"} \cap Chars = {}

VARIABLES
  mode,       \* the flag bits of len_: none ("Text"), FLAG_ESCAPE, FLAG_CSI
  text,       \* current_text()
  triggered,  \* the answer of the last call of process_char
  line, plain, peak

trackerVars == <<mode, text, triggered, line, plain, peak>>

LineEnds == {"CR", "LF"}
Erasures == {"DEL", "BS"}
Keys     == Chars \cup LineEnds \cup Erasures \cup {"ESC", "CTL"}

Mark == "~"   \* what append_char leaves in front of a line it lost

TrackerInit ==
  /\ mode = "Text" /\ text = <<>> /\ triggered = FALSE
  /\ line = <<>> /\ plain = TRUE /\ peak = 0

-----------------------------------------------------------------------------
(* The shell's side of each byte (history only).                           *)

ShellNewLine == line' = <<>> /\ plain' = TRUE /\ peak' = 0

ShellAppends(c) ==
  /\ line' = Append(line, c)
  /\ peak' = IF Len(line) + 1 > peak THEN Len(line) + 1 ELSE peak
  /\ UNCHANGED plain

ShellErases ==
  /\ line' = IF line = <<>> THEN <<>> ELSE SubSeq(line, 1, Len(line) - 1)
  /\ UNCHANGED <<plain, peak>>

ShellUnknown == plain' = FALSE /\ UNCHANGED <<line, peak>>

-----------------------------------------------------------------------------
(* process_char with no flag set.                                          *)

Reset == mode' = "Text" /\ text' = <<>>

BeginEscape ==
  /\ mode = "Text"
  /\ mode' = "Escape" /\ text' = <<>> /\ triggered' = FALSE
  /\ ShellUnknown

\* Mutant of Matches: anything that begins with the command.
MatchesPrefix == Len(text) >= Len(Word) /\ SubSeq(text, 1, Len(Word)) = Word

Matches == text = Word

\* check_and_reset
Submit(c) ==
  /\ mode = "Text" /\ c \in LineEnds
  /\ triggered' = Matches
  /\ Reset
  /\ ShellNewLine

\* Mutant of Backspaced: the shorter length is not stored.
BackspacedNot == text

\* handle_backspace
Backspaced == IF text = <<>> THEN <<>> ELSE SubSeq(text, 1, Len(text) - 1)

Erase(c) ==
  /\ mode = "Text" /\ c \in Erasures
  /\ text' = Backspaced
  /\ triggered' = FALSE
  /\ ShellErases
  /\ UNCHANGED mode

\* is_control_char
Control ==
  /\ mode = "Text"
  /\ Reset /\ triggered' = FALSE
  /\ ShellUnknown

\* Mutant of Stored: the check leaves no place for the NUL.
StoredTooFar(c) == IF Len(text) <= Cap THEN Append(text, c) ELSE [text EXCEPT ![1] = Mark]

\* append_char: a full buffer keeps its length and loses its first character.
Stored(c) == IF Len(text) < Cap THEN Append(text, c) ELSE [text EXCEPT ![1] = Mark]

AppendChar(c) ==
  /\ mode = "Text" /\ c \in Chars
  /\ Len(line) < MaxLine
  /\ text' = Stored(c)
  /\ triggered' = FALSE
  /\ ShellAppends(c)
  /\ UNCHANGED mode

(* process_escape_char, with FLAG_ESCAPE or FLAG_CSI set.                  *)

EscapeLineEnd(c) ==
  /\ mode # "Text" /\ c \in LineEnds
  /\ Reset /\ triggered' = FALSE
  /\ ShellNewLine

EscapeByte(c) ==
  /\ mode # "Text" /\ c \notin LineEnds
  /\ mode' = CASE mode = "Escape" -> IF c = "[" THEN "Csi" ELSE "Text"
               [] OTHER           -> IF c \in Finals THEN "Text" ELSE "Csi"
  /\ triggered' = FALSE
  /\ ShellUnknown
  /\ UNCHANGED text

ProcessChar(c) ==
  \/ c = "ESC" /\ BeginEscape
  \/ c = "CTL" /\ Control
  \/ Submit(c) \/ Erase(c) \/ AppendChar(c)
  \/ EscapeLineEnd(c) \/ EscapeByte(c)

TrackerNext == \E c \in Keys : ProcessChar(c)

TrackerSpec == TrackerInit /\ [][TrackerNext]_trackerVars

-----------------------------------------------------------------------------
(* Properties.                                                             *)

(* Types; text never outgrows buffer_, and is empty while a flag is set    *)
(* (len_ then holds the flag and no length).                               *)
TrackerTypeOK ==
  /\ mode \in {"Text", "Escape", "Csi"}
  /\ text \in Seq(Chars \cup {Mark}) /\ Len(text) <= Cap
  /\ mode # "Text" => text = <<>>
  /\ triggered \in BOOLEAN
  /\ line \in Seq(Chars)
  /\ plain \in BOOLEAN
  /\ peak \in Nat /\ Len(line) <= peak

(* While the line never outgrew the buffer, the tracker holds exactly what *)
(* the shell holds, across any mix of characters and erasures.             *)
TextIsLine == plain /\ peak <= Cap => mode = "Text" /\ text = line

(* The help screen opens on a line end if and only if the line the shell   *)
(* submits is the help command, for lines that never outgrew the buffer.   *)
HelpIffTyped ==
  [][(line' = <<>> /\ peak' = 0 /\ plain /\ peak <= Cap /\ peak > 0)
        => (triggered' <=> line = Word)]_trackerVars

(* The same without the restriction on length: "help" opens the screen     *)
(* only as the whole line, never as the end of a longer one.               *)
HelpOnlyAsWholeLine ==
  [][(triggered' /\ plain) => line = Word]_trackerVars
=============================================================================
