-------------------------- MODULE LegacyKeys_proofs --------------------------
(* For every set of terminals, every keypad and every length of the          *)
(* scrollback: the modifiers that process_term() believes in are those that  *)
(* are held, the End key does what the modifiers at its press say, and what  *)
(* is drawn of a scrollback is there.                                        *)
EXTENDS LegacyKeys, TLAPS

-----------------------------------------------------------------------------
(* The modifiers.                                                          *)

(* What is remembered of a press of End, in help and in the history.       *)
HelpIsNoted == endmods # {"unseen"} => (help <=> endmods # {})

KeysInv == FlagsAreHeld /\ HelpIsNoted /\ mods \subseteq Mod

(* A press or a release that the code does not see, or that is not one of  *)
(* a modifier, cannot make the flags wrong.                                *)
LEMMA FlagsKept ==
  ASSUME FlagsAreHeld, UNCHANGED <<held, mods, missed>>
  PROVE  FlagsAreHeld'
  BY DEF FlagsAreHeld

LEMMA PressKeepsFlags ==
  ASSUME FlagsAreHeld, NEW k, Press(k)
  PROVE  FlagsAreHeld'
<1>1. held' = held \cup {k}
  BY DEF Press
<1>2. CASE ~ InTerminal
  <2>1. mods' = mods /\ missed' = missed \cup ({k} \cap Mod)
    BY <1>2 DEF Press, Unseen, statics
  <2> QED
    BY <1>1, <2>1 DEF FlagsAreHeld
<1>3. CASE InTerminal /\ k \in Mod
  <2>1. ModPress(k)
    <3>1. TermPress(k) /\ k # "End"
      BY <1>3 DEF Press, Mod
    <3> QED
      BY <1>3, <3>1 DEF TermPress, Mod, Single, Sends
  <2>2. CASE TurnsLock(k)
    <3>1. mods' = mods /\ missed' = missed /\ k = "Lang"
      BY <2>1, <2>2 DEF ModPress, PressedMods, TurnsLock
    <3> QED
      BY <1>1, <3>1 DEF FlagsAreHeld
  <2>3. CASE ~ TurnsLock(k)
    <3>1. mods' = mods \cup {k} /\ missed' = missed \ {k}
      BY <1>3, <2>1, <2>3 DEF ModPress, PressedMods
    <3> QED
      BY <1>1, <3>1 DEF FlagsAreHeld
  <2> QED
    BY <2>2, <2>3
<1>4. CASE InTerminal /\ k \notin Mod
  <2>1. mods' = mods /\ missed' = missed
    <3>1. TermPress(k)
      BY <1>4 DEF Press
    <3>2. EndPress \/ ScrollPress(k) \/ SendPress(k)
          \/ UNCHANGED <<statics, curterm, terms, view, history>>
      BY <1>4, <3>1 DEF TermPress
    <3> QED
      BY <3>2 DEF EndPress, ScrollPress, SendPress, statics, history
  <2> QED
    BY <1>1, <1>4, <2>1 DEF FlagsAreHeld
<1> QED
  BY <1>2, <1>3, <1>4

LEMMA ReleaseKeepsFlags ==
  ASSUME FlagsAreHeld, NEW k, Release(k)
  PROVE  FlagsAreHeld'
<1>1. held' = held \ {k}
  BY DEF Release
<1>2. CASE ~ InTerminal
  <2>1. mods' = mods /\ missed' = missed \cup ({k} \cap Mod)
    BY <1>2 DEF Release, Unseen, statics
  <2> QED
    BY <1>1, <2>1 DEF FlagsAreHeld
<1>3. CASE InTerminal /\ k = "End"
  <2>1. mods' = mods /\ missed' = missed
    BY <1>3 DEF Release, TermRelease, EndRelease
  <2>2. "End" \notin Mod
    BY DEF Mod
  <2> QED
    BY <1>1, <1>3, <2>1, <2>2 DEF FlagsAreHeld
<1>4. CASE InTerminal /\ k # "End"
  <2>1. mods' = mods \ {k} /\ missed' = missed \ {k}
    BY <1>4 DEF Release, TermRelease, ReleasedMods
  <2> QED
    BY <1>1, <2>1 DEF FlagsAreHeld
<1> QED
  BY <1>2, <1>3, <1>4

(* What is not a key leaves the keys and the static variables alone, and   *)
(* at most forgets what the history knew of End.                           *)
Elsewhere ==
  \/ \E n \in Name : Activate(n) \/ Output(n) \/ ShellDies(n)
  \/ Draw
  \/ \E lines \in SbChoice : Reload(lines)

LEMMA ElsewhereKeepsKeys ==
  ASSUME Elsewhere
  PROVE  /\ UNCHANGED <<held, statics, missed>>
         /\ endmods' \in {endmods, {"unseen"}}
<1>1. ASSUME NEW n \in Name, Activate(n) \/ Output(n) \/ ShellDies(n)
      PROVE  /\ UNCHANGED <<held, statics, missed>>
             /\ endmods' \in {endmods, {"unseen"}}
  BY <1>1 DEF Activate, Output, ShellDies, history
<1>2. CASE Draw
  BY <1>2 DEF Draw, history
<1>3. ASSUME NEW lines \in SbChoice, Reload(lines)
      PROVE  /\ UNCHANGED <<held, statics, missed>>
             /\ endmods' \in {endmods, {"unseen"}}
  BY <1>3 DEF Reload, history
<1> QED
  BY <1>1, <1>2, <1>3 DEF Elsewhere

-----------------------------------------------------------------------------
(* The End key.                                                            *)

LEMMA KeyKeepsNote ==
  ASSUME KeysInv, NEW k, Press(k) \/ Release(k)
  PROVE  HelpIsNoted'
<1>1. CASE UNCHANGED <<help, endmods>>
  BY <1>1 DEF KeysInv, HelpIsNoted
<1>2. CASE ~ InTerminal
  <2>1. Unseen(k)
    BY <1>2 DEF Press, Release
  <2> QED
    BY <1>1, <2>1 DEF Unseen, statics
<1>3. CASE InTerminal /\ Press(k) /\ k = "End"
  <2>1. help' = (mods \ {"Lang"} # {}) /\ endmods' = Noted
    BY <1>3 DEF Press, TermPress, EndPress, Mod, Single, Sends
  <2>2. missed = {} => (mods \ {"Lang"}) \cap Mod = held \cap (Mod \ {"Lang"})
    BY DEF KeysInv, FlagsAreHeld
  <2> QED
    BY <2>1, <2>2 DEF HelpIsNoted, Noted, KeysInv
<1>4. CASE InTerminal /\ Press(k) /\ k # "End"
  <2>1. TermPress(k)
    BY <1>4 DEF Press
  <2>2. ModPress(k) \/ ScrollPress(k) \/ SendPress(k)
        \/ UNCHANGED <<statics, curterm, terms, view, history>>
    BY <1>4, <2>1 DEF TermPress
  <2> QED
    BY <1>1, <2>2 DEF ModPress, ScrollPress, SendPress, statics, history
<1>5. CASE InTerminal /\ Release(k)
  <2>1. TermRelease(k)
    BY <1>5 DEF Release
  <2>2. (help' = FALSE /\ endmods' = {}) \/ UNCHANGED <<help, endmods>>
    BY <2>1 DEF TermRelease, EndRelease
  <2> QED
    BY <1>1, <2>2 DEF HelpIsNoted
<1> QED
  BY <1>2, <1>3, <1>4, <1>5

LEMMA ModsStay ==
  ASSUME mods \subseteq Mod, KeysNext
  PROVE  mods' \subseteq Mod
<1>1. ASSUME NEW k, Press(k) \/ Release(k)
      PROVE  mods' \in {mods, mods \cup ({k} \cap Mod), mods \ {k}}
  <2>1. CASE ~ InTerminal
    BY <1>1, <2>1 DEF Press, Release, Unseen, statics
  <2>2. CASE InTerminal /\ Press(k)
    BY <2>2 DEF Press, TermPress, EndPress, ModPress, PressedMods, ScrollPress, SendPress, statics
  <2>3. CASE InTerminal /\ Release(k)
    BY <2>3 DEF Release, TermRelease, EndRelease, ReleasedMods
  <2> QED
    BY <1>1, <2>1, <2>2, <2>3
<1>2. CASE Elsewhere
  BY <1>2, ElsewhereKeepsKeys DEF statics
<1> QED
  BY <1>1, <1>2 DEF KeysNext, Elsewhere

LEMMA KeysStep ==
  ASSUME KeysInv, KeysNext
  PROVE  KeysInv'
<1>1. ASSUME NEW k, Press(k) \/ Release(k) PROVE FlagsAreHeld' /\ HelpIsNoted'
  <2>1. FlagsAreHeld
    BY DEF KeysInv
  <2>2. FlagsAreHeld'
    BY <1>1, <2>1, PressKeepsFlags, ReleaseKeepsFlags
  <2>3. HelpIsNoted'
    BY <1>1, KeyKeepsNote
  <2> QED
    BY <2>2, <2>3
<1>2. ASSUME Elsewhere PROVE FlagsAreHeld' /\ HelpIsNoted'
  <2>1. /\ held' = held /\ mods' = mods /\ help' = help /\ missed' = missed
        /\ endmods' \in {endmods, {"unseen"}}
    BY <1>2, ElsewhereKeepsKeys DEF statics
  <2> QED
    BY <2>1, FlagsKept DEF KeysInv, HelpIsNoted
<1>3. FlagsAreHeld' /\ HelpIsNoted'
  BY <1>1, <1>2 DEF KeysNext, Elsewhere
<1> QED
  BY <1>3, ModsStay DEF KeysInv

LEMMA KeysAlways == KeysSpec => []KeysInv
<1>1. KeysInit => KeysInv
  BY DEF KeysInit, KeysInv, FlagsAreHeld, HelpIsNoted
<1>2. KeysInv /\ UNCHANGED vars => KeysInv'
  BY DEF KeysInv, FlagsAreHeld, HelpIsNoted, vars, statics, history
<1> QED
  BY <1>1, <1>2, KeysStep, PTL DEF KeysSpec

(* The static variables of process_term() are the modifiers that are down,  *)
(* but for those last moved while no terminal was on the screen.            *)
THEOREM ModifiersTrue == KeysSpec => []FlagsAreHeld
<1>1. KeysInv => FlagsAreHeld
  BY DEF KeysInv
<1> QED
  BY <1>1, KeysAlways, PTL

(* The release of End ends terminal mode exactly if no modifier was down    *)
(* at its last press, or repeat, which the code does not ignore.            *)
THEOREM EndIsPlain == KeysSpec => EndKey
<1>1. ASSUME KeysInv, InTerminal, endmods # {"unseen"}, Release("End")
      PROVE  curterm' = None <=> endmods = {}
  <2>1. EndRelease
    BY <1>1 DEF Release, TermRelease
  <2>2. IF help THEN curterm' = curterm ELSE curterm' = None
    BY <2>1 DEF EndRelease, curterm_end
  <2> QED
    BY <1>1, <2>2 DEF KeysInv, HelpIsNoted, InTerminal
<1>2. KeysInv /\ [KeysNext]_vars =>
        [InTerminal /\ endmods # {"unseen"} /\ Release("End")
         => (curterm' = None <=> endmods = {})]_vars
  BY <1>1
<1> QED
  BY <1>2, KeysAlways, PTL DEF KeysSpec, EndKey

-----------------------------------------------------------------------------
(* The scrollback.                                                         *)

Terminals == [Name -> [on : BOOLEAN, lines : Nat, top : Nat]]

ViewType ==
  /\ terms \in Terminals
  /\ curterm \in Name \cup {None}
  /\ sb_lines \in Nat /\ sb_step \in Nat /\ sb_pos \in Nat

ViewInv == ViewType /\ DrawsHeldRows

(* Whatever position is asked for, the rows drawn are rows that are held.  *)
LEMMA CutIsHeld ==
  ASSUME ViewType, InTerminal, NEW pos \in Nat, process_screen(pos),
         terms' = terms, curterm' = curterm
  PROVE  ViewInv'
<1> DEFINE t == terms[curterm]
           top == t.top
<1>1. curterm \in Name /\ t.lines \in Nat /\ top \in Nat /\ Rows \in Nat /\ sb_lines \in Nat
  BY KeysAssumption DEF ViewType, InTerminal, Terminals
<1>2. Cut(pos) = IF pos > top THEN top ELSE pos
  BY DEF Cut, term_state
<1>3. Cut(pos) \in Nat /\ Cut(pos) <= top
  BY <1>1, <1>2
<1>4. /\ drawn' = Drawn(pos) /\ sb_pos' = Cut(pos)
      /\ sb_lines' = sb_lines /\ sb_step' = sb_step
  BY DEF process_screen
<1>5. /\ Drawn(pos).term = curterm
      /\ Drawn(pos).rows = sb_lines - Cut(pos) ..
           sb_lines - Cut(pos) + (IF Cut(pos) >= Rows THEN Rows ELSE Cut(pos)) - 1
  BY DEF Drawn, DrawnUncut, term_state, print_buf
<1> HIDE DEF top
<1>6. t.lines = sb_lines => Drawn(pos).rows \subseteq t.lines - top .. t.lines - 1
  BY <1>1, <1>3, <1>5
<1>7. DrawsHeldRows'
  <2>1. terms'[drawn'.term] = t
    BY <1>4, <1>5
  <2> QED
    BY <1>4, <1>6, <2>1 DEF DrawsHeldRows, top
<1>8. ViewType'
  BY <1>3, <1>4 DEF ViewType
<1> QED
  BY <1>7, <1>8 DEF ViewInv

(* A step that draws nothing.                                              *)
LEMMA NothingDrawn ==
  ASSUME ViewType', drawn' = NoRows
  PROVE  ViewInv'
  BY DEF ViewInv, DrawsHeldRows

LEMMA SameView ==
  ASSUME ViewType, UNCHANGED <<terms, view>>, curterm' \in {curterm, None}
  PROVE  ViewType'
  BY DEF ViewType, view

LEMMA KeyView ==
  ASSUME ViewInv, NEW k, Press(k) \/ Release(k)
  PROVE  ViewInv'
<1>1. ViewType /\ sb_pos \in Nat /\ sb_step \in Nat /\ 0 \in Nat
  BY DEF ViewInv, ViewType
<1>2. CASE Quiet /\ UNCHANGED <<curterm, terms, view>>
  BY <1>1, <1>2, SameView, NothingDrawn DEF Quiet
<1>3. CASE ~ InTerminal
  <2>1. Unseen(k)
    BY <1>3 DEF Press, Release
  <2> QED
    BY <1>2, <2>1 DEF Unseen
<1>4. CASE InTerminal /\ Press(k)
  <2>1. TermPress(k)
    BY <1>4 DEF Press
  <2>2. CASE EndPress \/ ModPress(k)
             \/ (Quiet /\ UNCHANGED <<statics, curterm, terms, view, history>>)
    BY <1>2, <2>2 DEF EndPress, ModPress
  <2>3. CASE ScrollPress(k)
    <3> DEFINE pos == IF k = "ScrollUp" THEN sb_pos + sb_step
                      ELSE IF sb_pos < sb_step THEN 0 ELSE sb_pos - sb_step
    <3>1. pos \in Nat
      BY <1>1
    <3>2. process_screen(pos) /\ terms' = terms /\ curterm' = curterm
      BY <2>3 DEF ScrollPress
    <3> HIDE DEF pos
    <3> QED
      BY <1>1, <1>4, <3>1, <3>2, CutIsHeld
  <2>4. CASE SendPress(k)
    <3>1. terms' = terms /\ curterm' = curterm
      BY <2>4 DEF SendPress
    <3>2. process_screen(0) \/ (drawn' = NoRows /\ UNCHANGED view)
      BY <2>4 DEF SendPress
    <3>3. CASE process_screen(0)
      BY <1>1, <1>4, <3>1, <3>3, CutIsHeld
    <3>4. CASE drawn' = NoRows /\ UNCHANGED view
      BY <1>1, <3>1, <3>4, SameView, NothingDrawn
    <3> QED
      BY <3>2, <3>3, <3>4
  <2> QED
    BY <2>1, <2>2, <2>3, <2>4 DEF TermPress
<1>5. CASE InTerminal /\ Release(k)
  <2>1. CASE k # "End"
    BY <1>2, <1>5, <2>1 DEF Release, TermRelease
  <2>2. CASE k = "End"
    <3>1. EndRelease
      BY <1>5, <2>2 DEF Release, TermRelease
    <3>2. CASE help
      <4>1. process_screen(sb_pos) /\ terms' = terms /\ curterm' = curterm
        BY <3>1, <3>2 DEF EndRelease
      <4> QED
        BY <1>1, <1>5, <4>1, CutIsHeld
    <3>3. CASE ~ help
      <4>1. drawn' = NoRows /\ UNCHANGED <<terms, view>> /\ curterm' = None
        BY <3>1, <3>3 DEF EndRelease, curterm_end
      <4> QED
        BY <1>1, <4>1, SameView, NothingDrawn
    <3> QED
      BY <3>2, <3>3
  <2> QED
    BY <2>1, <2>2
<1> QED
  BY <1>3, <1>4, <1>5

LEMMA ElsewhereView ==
  ASSUME ViewInv, Elsewhere
  PROVE  ViewInv'
<1>1. /\ ViewType /\ sb_pos \in Nat /\ sb_step \in Nat /\ sb_lines \in Nat
      /\ terms \in Terminals /\ curterm \in Name \cup {None}
  BY DEF ViewInv, ViewType
<1>2. ASSUME NEW n \in Name, Activate(n) PROVE ViewInv'
  <2>1. /\ curterm' = n /\ sb_lines' = sb_lines /\ sb_pos' = sb_pos
        /\ drawn' = NoRows
        /\ sb_step' \in {sb_step, Rows \div 2}
        /\ terms' \in {terms, [terms EXCEPT ![n] = [on |-> TRUE, lines |-> sb_lines, top |-> 0]]}
    BY <1>2 DEF Activate, Quiet
  <2>2. terms' \in Terminals
    <3> DEFINE new == [on |-> TRUE, lines |-> sb_lines, top |-> 0]
    <3>1. new \in [on : BOOLEAN, lines : Nat, top : Nat]
      BY <1>1
    <3> HIDE DEF new
    <3> QED
      BY <1>1, <2>1, <3>1 DEF Terminals, new
  <2>3. Rows \div 2 \in Nat
    BY KeysAssumption
  <2>4. ViewType'
    BY <1>1, <2>1, <2>2, <2>3 DEF ViewType
  <2> QED
    BY <2>1, <2>4, NothingDrawn
<1>3. ASSUME NEW n \in Name, Output(n) \/ ShellDies(n) PROVE ViewInv'
  <2>1. UNCHANGED view /\ drawn' = NoRows /\ curterm' \in {curterm, None}
    BY <1>3 DEF Output, ShellDies, Quiet, curterm_end
  <2>2. terms' \in Terminals
    <3>1. CASE Output(n)
      <4>1. PICK top \in {0, terms[n].top + 1} : terms' = [terms EXCEPT ![n].top = top]
        BY <3>1 DEF Output
      <4>2. terms[n].top \in Nat /\ terms[n] \in [on : BOOLEAN, lines : Nat, top : Nat]
        BY <1>1, <1>3 DEF Terminals
      <4>3. top \in Nat
        BY <4>2
      <4>4. [terms[n] EXCEPT !.top = top] \in [on : BOOLEAN, lines : Nat, top : Nat]
        BY <4>2, <4>3
      <4>5. terms' = [terms EXCEPT ![n] = [terms[n] EXCEPT !.top = top]]
        BY <4>1
      <4> QED
        BY <1>1, <4>4, <4>5 DEF Terminals
    <3>2. CASE ShellDies(n)
      BY <1>1, <3>2 DEF ShellDies, Terminals
    <3> QED
      BY <1>3, <3>1, <3>2
  <2>3. ViewType'
    BY <1>1, <2>1, <2>2 DEF ViewType, view
  <2> QED
    BY <2>1, <2>3, NothingDrawn
<1>4. CASE Draw
  BY <1>1, <1>4, CutIsHeld DEF Draw
<1>5. ASSUME NEW lines \in SbChoice, Reload(lines) PROVE ViewInv'
  <2>1. /\ curterm' = None /\ drawn' = NoRows /\ terms' = terms
        /\ sb_lines' = lines /\ sb_step' = 0 /\ sb_pos' = 0 /\ lines \in Nat
    BY <1>5, KeysAssumption DEF Reload, curterm_end, Quiet
  <2>2. ViewType'
    BY <1>1, <2>1 DEF ViewType
  <2> QED
    BY <2>1, <2>2, NothingDrawn
<1> QED
  BY <1>2, <1>3, <1>4, <1>5 DEF Elsewhere

(* However sb_pos was left by another terminal or another key, the rows of  *)
(* a scrollback that process_screen() draws are rows that it holds.         *)
THEOREM RowsDrawnAreHeld == KeysSpec => []DrawsHeldRows
<1>1. KeysInit => ViewInv
  <2>1. SUFFICES ASSUME KeysInit PROVE ViewType /\ drawn = NoRows
    BY DEF ViewInv, DrawsHeldRows
  <2>2. terms \in Terminals /\ sb_lines \in Nat
    BY <2>1, KeysAssumption DEF KeysInit, Terminals
  <2> QED
    BY <2>1, <2>2 DEF KeysInit, ViewType
<1>2. ViewInv /\ [KeysNext]_vars => ViewInv'
  <2>1. ViewInv /\ UNCHANGED vars => ViewInv'
    BY DEF ViewInv, ViewType, DrawsHeldRows, vars, view, output
  <2> QED
    BY <2>1, KeyView, ElsewhereView DEF KeysNext, Elsewhere
<1>3. ViewInv => DrawsHeldRows
  BY DEF ViewInv
<1> QED
  BY <1>1, <1>2, <1>3, PTL DEF KeysSpec
=============================================================================
