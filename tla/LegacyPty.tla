------------------------------ MODULE LegacyPty ------------------------------
(***************************************************************************)
(* The two buffers between a legacy terminal and its shell (terminal.c):   *)
(* the keys typed and not yet written to the pty, and the output read from *)
(* it and not yet interpreted.  term_keyin() fills the first,              *)
(* handle_shell() serves both when select() finds the pty ready, and       *)
(* page_append() takes from the second what is complete.                   *)
(*                                                                         *)
(* An item is what the shell means as a whole: a character, an escape      *)
(* sequence, or a byte of no character (a character of four bytes is one   *)
(* of three and such a byte); what items do to the page is LegacyTerminal's *)
(* matter.                                                                 *)
(***************************************************************************)
EXTENDS Integers, Sequences, SequencesExt

CONSTANTS
  KMAX, SMAX,  \* sizes of keys[] and sbuf[], the NUL that ends them included
  Slack,       \* page_append() keeps a broken character beyond this offset
  PtyRoom,     \* bytes the kernel takes that the shell has not read
  Item,        \* what the shell writes
  Key,         \* what a key press sends
  MaxItems, MaxKeys   \* bounds: writes and key presses of a behaviour

\* The bytes the code tells apart, L2 and L3 the lead bytes of UTF-8 characters
\* of two and three bytes, "x" any letter that is not named.
Byte == {"NUL", "ESC", "[", "(", "#", "digit", "h", "l", "A", "O", "x",
         "L2", "L3", "cont"}

VARIABLES
  keys, typeahead,     \* keys[], and what the kernel holds for the shell
  wire, sbuf,          \* the output the kernel holds, and sbuf[]
  fd,                  \* FALSE when term_screen() has given the pty up
  kf_priv,             \* arrows are sent in the application's form
  open,                \* the shell has its end of the pty
  typed, got, full,    \* history: keys pressed, read by the shell, cut off
  written, shown, mangled  \* history: items written, items interpreted,
                           \* and whether any was broken on the way

keyboard == <<keys, typeahead, typed, got, full>>
screen   == <<wire, sbuf, kf_priv, written, shown, mangled>>
vars     == <<keyboard, screen, fd, open>>

-----------------------------------------------------------------------------
(* term_keyin() and term_keyboard().                                       *)

Arrow(k) == Len(k) > 2 /\ k[1] = "ESC" /\ k[2] = "[" /\ k[3] = "A"

\* Arrow keys change their second byte in private mode.
Private(k) == IF Arrow(k) THEN [k EXCEPT ![2] = "O"] ELSE k
Mapped(k)  == IF kf_priv THEN Private(k) ELSE k

FitsNoNul(k) == IF Len(keys) + Len(k) <= KMAX THEN k
                ELSE SubSeq(k, 1, KMAX - Len(keys))

\* strncat(): what does not fit is dropped.
Fits(k) == IF Len(keys) + Len(k) <= KMAX - 1 THEN k
           ELSE SubSeq(k, 1, KMAX - 1 - Len(keys))

Keyin(k) ==
  /\ Len(typed) < MaxKeys
  /\ keys' = keys \o Fits(Mapped(k))
  /\ typed' = Append(typed, k)
  /\ full' = (full \/ Fits(Mapped(k)) # Mapped(k))
  /\ UNCHANGED <<typeahead, got, screen, fd, open>>

LeftAll(l) == <<>>

\* What a short write leaves is moved to the front.
Left(l) == SubSeq(keys, l + 1, Len(keys))

TermKeyboardWhole(l) ==
  /\ fd /\ keys # <<>>
  /\ l = Len(keys) /\ Len(typeahead) + l <= PtyRoom
  /\ typeahead' = typeahead \o keys
  /\ keys' = <<>>
  /\ UNCHANGED <<typed, got, full, screen, fd, open>>

\* The pty does not block: write() takes what the kernel has room for, from
\* one byte up.
TermKeyboard(l) ==
  /\ fd /\ keys # <<>>
  /\ l \in 1 .. Len(keys) /\ Len(typeahead) + l <= PtyRoom
  /\ typeahead' = typeahead \o SubSeq(keys, 1, l)
  /\ keys' = Left(l)
  /\ UNCHANGED <<typed, got, full, screen, fd, open>>

-----------------------------------------------------------------------------
(* utf8_to_ucs2(), page_append() and term_screen().                        *)

Lead == [b \in {"L2", "L3"} |-> IF b = "L2" THEN 2 ELSE 3]

\* How many bytes the item at the head of s has, 0 while it is incomplete.
\* Continuation bytes are not looked at; ESC # takes a third byte that may
\* not be there yet (Overrun).
Digits(s) == CHOOSE n \in 0 .. Len(s) - 2 :
               /\ \A i \in 3 .. n + 2 : s[i] = "digit"
               /\ n + 2 = Len(s) \/ s[n + 3] # "digit"

CsiLength(s) == IF Digits(s) + 2 = Len(s) THEN 0 ELSE Digits(s) + 3

EscLengthNoWait(s) ==
  IF Len(s) = 1 THEN 0
  ELSE CASE s[2] = "[" -> CsiLength(s)
         [] s[2] = "(" -> IF Len(s) = 2 THEN 2 ELSE 3
         [] s[2] = "#" -> 3
         [] OTHER -> 2

EscLength(s) ==
  IF Len(s) = 1 THEN 0
  ELSE CASE s[2] = "[" -> CsiLength(s)
         [] s[2] = "(" -> IF Len(s) = 2 THEN 0 ELSE 3
         [] s[2] = "#" -> 3
         [] OTHER -> 2

Length(s) ==
  CASE s[1] = "ESC" -> EscLength(s)
    [] s[1] \in DOMAIN Lead -> IF Len(s) < Lead[s[1]] THEN 0 ELSE Lead[s[1]]
    [] s[1] = "cont" -> 0
    [] OTHER -> 1

Broken(s)  == s[1] \in DOMAIN Lead \cup {"cont"} /\ Length(s) = 0
Overrun(s) == Length(s) > Len(s)

\* What the shell writes ends where page_append() sees its end, or is a byte
\* that continues no character; an ESC or a NUL begins an item.
Stray == <<"cont">>

IsItem(x) ==
  /\ x \in Seq(Byte) /\ x # <<>> /\ (Length(x) = Len(x) \/ x = Stray)
  /\ \A i \in 2 .. Len(x) : x[i] \notin {"ESC", "NUL"}

ASSUME PtyAssumption ==
  /\ KMAX \in Nat \ {0} /\ SMAX \in Nat \ {0, 1}
  /\ Slack \in Nat /\ PtyRoom \in Nat /\ MaxItems \in Nat /\ MaxKeys \in Nat
  /\ Key \subseteq Seq(Byte) /\ \A x \in Item : IsItem(x)

\* The loop of page_append() over the buffer s: what it took and where it
\* stopped.  A broken character or a stray byte near the start of the buffer
\* is replaced, one further on ends the loop and is kept with all behind it,
\* and so is an incomplete escape sequence; past the end it is the bytes of
\* earlier reads that are read.  A stray byte stands for what replaces it.
PageAppend(s) ==
  LET from[i \in 1 .. Len(s) + 1] ==
        IF i > Len(s) THEN [items |-> <<>>, rest |-> <<>>]
        ELSE LET t == SubSeq(s, i, Len(s))
                 next(item, n) ==
                   LET more == from[i + n]
                   IN  [items |-> <<item>> \o more.items, rest |-> more.rest]
             IN  IF Broken(t) /\ i - 1 <= Slack
                   THEN next(IF t[1] = "cont" THEN Stray ELSE <<"fffd">>, 1)
                 ELSE IF Overrun(t)
                   THEN [items |-> <<<<"stale">>>>, rest |-> <<>>]
                 ELSE IF Length(t) = 0 THEN [items |-> <<>>, rest |-> t]
                 ELSE next(SubSeq(t, 1, Length(t)), Length(t))
  IN  from[1]

\* sbuf[] is a C string: what was read after a NUL is not seen again.
CString(s) ==
  IF \E i \in DOMAIN s : s[i] = "NUL"
  THEN SubSeq(s, 1, (CHOOSE i \in DOMAIN s :
                       s[i] = "NUL" /\ \A j \in 1 .. i - 1 : s[j] # "NUL") - 1)
  ELSE s

\* ESC [ digits h, and l, stand for the cursor key mode.
Mode(items) ==
  LET sets == {i \in DOMAIN items : Len(items[i]) > 2 /\ items[i][2] = "["}
  IN  IF sets = {} THEN kf_priv ELSE Last(items[Max(sets)]) = "h"

\* For the history: a read in which a byte came after a NUL, or a NUL after
\* what is kept.
Cut(s, rest) ==
  \E i \in DOMAIN s : s[i] = "NUL" /\ (rest # <<>> \/ \E j \in i + 1 .. Len(s) : s[j] # "NUL")

TermScreenNoMove(l) ==
  /\ fd /\ l \in 1 .. Len(wire) /\ Len(sbuf) + l <= SMAX - 1
  /\ \E read \in {sbuf \o SubSeq(wire, 1, l)} : \E done \in {PageAppend(CString(read))} :
       /\ sbuf' = IF done.rest = <<>> THEN <<>> ELSE CString(read)
       /\ kf_priv' = Mode(done.items)
       /\ shown' = shown \o done.items
  /\ wire' = SubSeq(wire, l + 1, Len(wire))
  /\ UNCHANGED <<written, mangled, keyboard, fd, open>>

TermScreen(l) ==
  /\ fd /\ l \in 1 .. Len(wire) /\ Len(sbuf) + l <= SMAX - 1
  /\ \E read \in {sbuf \o SubSeq(wire, 1, l)} : \E done \in {PageAppend(CString(read))} :
       /\ sbuf' = done.rest
       /\ kf_priv' = Mode(done.items)
       /\ shown' = shown \o done.items
       /\ mangled' = (mangled \/ Cut(read, done.rest) \/ \E i \in DOMAIN done.items :
                                  done.items[i] \in {<<"fffd">>, <<"stale">>})
  /\ wire' = SubSeq(wire, l + 1, Len(wire))
  /\ UNCHANGED <<written, keyboard, fd, open>>

\* read() returns nothing at the end of the output, and also when the buffer
\* has no room left to read into.
TermDead ==
  /\ fd
  /\ \/ wire = <<>> /\ ~ open
     \/ wire # <<>> /\ Len(sbuf) = SMAX - 1
  /\ fd' = FALSE
  /\ UNCHANGED <<keyboard, screen, open>>

-----------------------------------------------------------------------------
(* The shell and the kernel.                                               *)

ShellReads ==
  /\ open /\ typeahead # <<>>
  /\ got' = got \o typeahead /\ typeahead' = <<>>
  /\ UNCHANGED <<keys, typed, full, screen, fd, open>>

ShellWrites(item) ==
  /\ open /\ Len(written) < MaxItems
  /\ wire' = wire \o item
  /\ written' = Append(written, item)
  /\ UNCHANGED <<sbuf, kf_priv, shown, mangled, keyboard, fd, open>>

ShellExits ==
  /\ open /\ open' = FALSE
  /\ UNCHANGED <<keyboard, screen, fd>>

PtyInit ==
  /\ keys = <<>> /\ typeahead = <<>> /\ wire = <<>> /\ sbuf = <<>>
  /\ fd = TRUE /\ open = TRUE /\ kf_priv = FALSE
  /\ typed = <<>> /\ got = <<>> /\ full = FALSE
  /\ written = <<>> /\ shown = <<>> /\ mangled = FALSE

Keyboard == \E l \in 1 .. KMAX : TermKeyboard(l)
Screen   == TermDead \/ \E l \in 1 .. SMAX : TermScreen(l)

PtyNext ==
  \/ \E k \in Key : Keyin(k)
  \/ Keyboard \/ Screen
  \/ ShellReads \/ ShellExits
  \/ \E item \in Item : ShellWrites(item)

\* handle_shell() visits the pty in every pass of the main loop that finds
\* it ready; a shell reads what it is sent.
PtySpec ==
  /\ PtyInit /\ [][PtyNext]_vars
  /\ WF_vars(Keyboard) /\ WF_vars(Screen) /\ WF_vars(ShellReads)

-----------------------------------------------------------------------------
(* Properties.                                                             *)

PtyTypeOK ==
  /\ Len(keys) <= KMAX - 1 /\ Len(typeahead) <= PtyRoom
  /\ Len(sbuf) <= SMAX - 1
  /\ fd \in BOOLEAN /\ open \in BOOLEAN /\ kf_priv \in BOOLEAN
  /\ full \in BOOLEAN /\ mangled \in BOOLEAN

\* The shell reads the keys in the order they were typed, each whole and
\* once and in one of its two forms, however the writes are cut up; unless
\* the queue was ever full.
KeysAsTyped ==
  ~ full => \E private \in SUBSET DOMAIN typed :
              got \o typeahead \o keys =
                FlattenSeq([i \in DOMAIN typed |->
                              IF i \in private THEN Private(typed[i]) ELSE typed[i]])

\* s without the elements that are v.
Without(s, v) ==
  LET kept[i \in 0 .. Len(s)] ==
        IF i = 0 THEN <<>>
        ELSE IF s[i] = v THEN kept[i - 1] ELSE Append(kept[i - 1], s[i])
  IN  kept[Len(s)]

\* Output is interpreted as it was written, wherever the reads cut it: no
\* sequence is broken, and none waits once it has been read whole, but for a
\* byte of no character and what is behind it, which wait for the next read.
\* Broken are, by the history variable, only a character cut near the start
\* of the buffer, ESC # cut off, and what came with a NUL.
OutputAsWritten ==
  ~ mangled =>
    LET items == Without(written, <<"NUL">>)
    IN  /\ IsPrefix(shown, items)
        /\ wire = <<>> => shown = items \/ items[Len(shown) + 1] = Stray

\* A terminal is given up when its shell is gone, or by a sequence that the
\* buffer cannot hold: nothing shorter ever fills it.
DeadShellOnly ==
  ~ fd => ~ open \/ \E i \in DOMAIN written : Len(written[i]) >= SMAX

\* Keys that wait are written in the end, however little the kernel takes at
\* a time.
KeysArrive == keys # <<>> ~> keys = <<>> \/ ~ fd \/ ~ open
=============================================================================
