--------------------------- MODULE Launchpad_proofs ---------------------------
(***************************************************************************)
(* The safety properties of Launchpad for any number of terminals and of   *)
(* sessions.  The properties are not inductive alone: LaunchpadInv adds    *)
(* that a step of a visit has a session to return to, that a reload that   *)
(* is due finds a free session, and what saved holds in terminal mode.     *)
(***************************************************************************)
EXTENDS Launchpad, SequenceTheorems, TLAPS

VisitHasSession == phase \in {"special", "due"} => at \in DOMAIN sess
ReloadHasSession == signal = 1 => Free(LpId) # {}
SavedIsScreen ==
  /\ mode.fb = "open" => mode.curterm # None
  /\ mode.curterm # None /\ ~switched => mode.fb = "open" /\ mode.saved = "ui"

TypeInv  == LaunchpadTypeOK /\ VisitHasSession
ListInv  == OneList /\ ReloadHasSession
TermInv  == TerminalsHaveShells /\ GrabbedInTerminalMode /\ ShellsAreReachable
FrontInv == SavedIsScreen /\ ScreenIsGivenBack

LaunchpadInv == TypeInv /\ ListInv /\ TermInv /\ FrontInv

-----------------------------------------------------------------------------
(* Lists.                                                                  *)

LEMMA Members ==
  ASSUME NEW S, NEW s \in Seq(S)
  PROVE  \A x : x \in ToSet(s) <=> \E i \in 1 .. Len(s) : s[i] = x
  BY DEF ToSet

LEMMA Pushed ==
  ASSUME NEW S, NEW x \in S, NEW t \in Seq(S), NEW s \in Seq(S)
  PROVE  /\ <<x>> \o t \in Seq(S)
         /\ ToSet(<<x>> \o t) = ToSet(t) \cup {x}
         /\ x \notin ToSet(t) \cup ToSet(s) /\ IsInjective(t \o s)
              => IsInjective((<<x>> \o t) \o s)
<1>1. /\ <<x>> \in Seq(S) /\ Len(<<x>>) = 1 /\ <<x>>[1] = x
  OBVIOUS
<1>2. /\ <<x>> \o t \in Seq(S) /\ Len(<<x>> \o t) = 1 + Len(t)
      /\ \A i \in 1 .. 1 + Len(t) :
           (<<x>> \o t)[i] = IF i = 1 THEN x ELSE t[i - 1]
  BY <1>1, ConcatProperties
<1>3. ToSet(<<x>> \o t) = ToSet(t) \cup {x}
  <2>1. ASSUME NEW y \in ToSet(t) PROVE y \in ToSet(<<x>> \o t)
    <3>1. PICK i \in 1 .. Len(t) : t[i] = y
      BY Members
    <3>2. i + 1 \in 1 .. Len(<<x>> \o t) /\ (<<x>> \o t)[i + 1] = y
      BY <1>2, <3>1
    <3> QED BY <1>2, <3>2, Members
  <2>2. x \in ToSet(<<x>> \o t)
    <3>1. 1 \in 1 .. Len(<<x>> \o t) /\ (<<x>> \o t)[1] = x
      BY <1>2
    <3> QED BY <1>2, <3>1, Members
  <2>3. ASSUME NEW y \in ToSet(<<x>> \o t), y # x PROVE y \in ToSet(t)
    <3>1. PICK i \in 1 .. Len(<<x>> \o t) : (<<x>> \o t)[i] = y
      BY <1>2, Members
    <3>2. i - 1 \in 1 .. Len(t) /\ t[i - 1] = y
      BY <1>2, <2>3, <3>1
    <3> QED BY <3>2, Members
  <2> QED BY <2>1, <2>2, <2>3
<1>4. ASSUME x \notin ToSet(t) \cup ToSet(s), IsInjective(t \o s)
      PROVE  IsInjective((<<x>> \o t) \o s)
  <2> DEFINE u == t \o s
  <2>1. (<<x>> \o t) \o s = <<x>> \o u
    BY <1>1, ConcatAssociative
  <2>2. /\ u \in Seq(S) /\ Len(u) = Len(t) + Len(s)
        /\ \A i \in 1 .. Len(t) + Len(s) :
             u[i] = IF i <= Len(t) THEN t[i] ELSE s[i - Len(t)]
    BY ConcatProperties
  <2>3. \A i \in 1 .. Len(u) : u[i] # x
    BY <1>4, <2>2 DEF ToSet
  <2>4. IsInjective(u)
    BY <1>4
  <2> HIDE DEF u
  <2>5. /\ <<x>> \o u \in Seq(S) /\ Len(<<x>> \o u) = 1 + Len(u)
        /\ \A i \in 1 .. 1 + Len(u) :
             (<<x>> \o u)[i] = IF i = 1 THEN x ELSE u[i - 1]
    BY <1>1, <2>2, ConcatProperties
  <2>6. IsInjective(<<x>> \o u)
    BY <2>2, <2>3, <2>4, <2>5 DEF IsInjective
  <2> QED BY <2>1, <2>6
<1> QED BY <1>2, <1>3, <1>4

LEMMA Merged ==
  ASSUME NEW S, NEW t \in Seq(S), NEW s \in Seq(S)
  PROVE  /\ t \o s \in Seq(S) /\ <<>> \in Seq(S)
         /\ ToSet(t \o s) \cup ToSet(<<>>) = ToSet(s) \cup ToSet(t)
         /\ IsInjective(t \o s) => IsInjective(<<>> \o (t \o s))
<1>1. /\ t \o s \in Seq(S) /\ Len(t \o s) = Len(t) + Len(s)
      /\ \A i \in 1 .. Len(t) + Len(s) :
           (t \o s)[i] = IF i <= Len(t) THEN t[i] ELSE s[i - Len(t)]
  BY ConcatProperties
<1>2. ASSUME NEW x \in ToSet(s) \cup ToSet(t) PROVE x \in ToSet(t \o s)
  <2>1. CASE x \in ToSet(t)
    <3>1. PICK i \in 1 .. Len(t) : t[i] = x
      BY <2>1, Members
    <3>2. i \in 1 .. Len(t \o s) /\ (t \o s)[i] = x
      BY <1>1, <3>1
    <3> QED BY <1>1, <3>2, Members
  <2>2. CASE x \in ToSet(s)
    <3>1. PICK i \in 1 .. Len(s) : s[i] = x
      BY <2>2, Members
    <3>2. i + Len(t) \in 1 .. Len(t \o s) /\ (t \o s)[i + Len(t)] = x
      BY <1>1, <3>1
    <3> QED BY <1>1, <3>2, Members
  <2> QED BY <2>1, <2>2
<1>3. ToSet(t \o s) = ToSet(s) \cup ToSet(t)
  <2>1. ASSUME NEW x \in ToSet(t \o s) PROVE x \in ToSet(s) \cup ToSet(t)
    <3>1. PICK i \in 1 .. Len(t \o s) : (t \o s)[i] = x
      BY <1>1, Members
    <3>2. \/ i \in 1 .. Len(t) /\ t[i] = x
          \/ i - Len(t) \in 1 .. Len(s) /\ s[i - Len(t)] = x
      BY <1>1, <3>1
    <3> QED BY <3>2, Members
  <2> QED BY <1>2, <2>1
<1>4. ToSet(<<>>) = {} /\ <<>> \o (t \o s) = t \o s /\ <<>> \in Seq(S)
  BY <1>1, ConcatEmptySeq DEF ToSet
<1> QED BY <1>1, <1>3, <1>4

LEMMA Removed ==
  ASSUME NEW S, NEW t \in Seq(S), NEW s \in Seq(S), NEW i \in 1 .. Len(s)
  PROVE  /\ RemoveAt(s, i) \in Seq(S)
         /\ Len(RemoveAt(s, i)) = Len(s) - 1
         /\ ToSet(RemoveAt(s, i)) \subseteq ToSet(s)
         /\ \A x \in ToSet(s) : x # s[i] => x \in ToSet(RemoveAt(s, i))
         /\ IsInjective(t \o s) => IsInjective(t \o RemoveAt(s, i))
<1> DEFINE r == RemoveAt(s, i)
           a == SubSeq(s, 1, i - 1)
           b == SubSeq(s, i + 1, Len(s))
<1>1. /\ a \in Seq(S) /\ Len(a) = i - 1
      /\ \A j \in 1 .. i - 1 : a[j] = s[j]
  OBVIOUS
<1>2. /\ b \in Seq(S) /\ Len(b) = Len(s) - i
      /\ \A j \in 1 .. Len(s) - i : b[j] = s[j + i]
  OBVIOUS
<1>3. /\ r \in Seq(S) /\ Len(r) = Len(s) - 1
      /\ \A j \in 1 .. Len(s) - 1 : r[j] = IF j < i THEN s[j] ELSE s[j + 1]
  <2>1. r = a \o b
    BY DEF RemoveAt
  <2>2. /\ r \in Seq(S) /\ Len(r) = Len(a) + Len(b)
        /\ \A j \in 1 .. Len(a) + Len(b) :
             r[j] = IF j <= Len(a) THEN a[j] ELSE b[j - Len(a)]
    <3> HIDE DEF a, b, r
    <3> QED BY <1>1, <1>2, <2>1, ConcatProperties
  <2> HIDE DEF a, b, r
  <2>3. Len(a) + Len(b) = Len(s) - 1
    BY <1>1, <1>2
  <2>4. ASSUME NEW j \in 1 .. Len(s) - 1
        PROVE  r[j] = IF j < i THEN s[j] ELSE s[j + 1]
    <3>0. /\ j \in 1 .. Len(a) + Len(b) /\ Len(a) = i - 1
          /\ r[j] = IF j <= Len(a) THEN a[j] ELSE b[j - Len(a)]
      BY <1>1, <2>2, <2>3
    <3>1. CASE j < i
      <4>1. j \in 1 .. i - 1 /\ j <= Len(a)
        BY <3>0, <3>1
      <4>2. a[j] = s[j]
        BY <1>1, <4>1
      <4> QED BY <3>0, <3>1, <4>1, <4>2
    <3>2. CASE j >= i
      <4>1. r[j] = b[j - (i - 1)]
        BY <3>0, <3>2
      <4>2. j - (i - 1) \in 1 .. Len(s) - i
        BY <3>2
      <4>3. b[j - (i - 1)] = s[(j - (i - 1)) + i]
        BY <1>2, <4>2
      <4> QED BY <3>2, <4>1, <4>3
    <3> QED BY <3>1, <3>2
  <2> QED BY <2>2, <2>3, <2>4
<1> HIDE DEF r
<1>4. ToSet(r) \subseteq ToSet(s)
  BY <1>3 DEF ToSet
<1>5. ASSUME NEW x \in ToSet(s), x # s[i]
      PROVE  x \in ToSet(r)
  <2>1. PICK j \in 1 .. Len(s) : s[j] = x /\ j # i
    BY <1>5 DEF ToSet
  <2>2. j < i => j \in 1 .. Len(s) - 1 /\ r[j] = x
    BY <1>3, <2>1
  <2>3. j > i => j - 1 \in 1 .. Len(s) - 1 /\ r[j - 1] = x
    BY <1>3, <2>1
  <2> QED BY <1>3, <2>1, <2>2, <2>3 DEF ToSet
<1>6. ASSUME IsInjective(t \o s)
      PROVE  IsInjective(t \o r)
  <2>1. /\ t \o s \in Seq(S) /\ Len(t \o s) = Len(t) + Len(s)
        /\ \A j \in 1 .. Len(t) + Len(s) :
             (t \o s)[j] = IF j <= Len(t) THEN t[j] ELSE s[j - Len(t)]
    BY ConcatProperties
  <2>2. /\ t \o r \in Seq(S) /\ Len(t \o r) = Len(t) + Len(r)
        /\ \A j \in 1 .. Len(t) + Len(r) :
             (t \o r)[j] = IF j <= Len(t) THEN t[j] ELSE r[j - Len(t)]
    BY <1>3, ConcatProperties
  <2> DEFINE place(j) == IF j < Len(t) + i THEN j ELSE j + 1
  <2>3. \A j \in 1 .. Len(t) + Len(r) :
          /\ place(j) \in 1 .. Len(t) + Len(s)
          /\ (t \o r)[j] = (t \o s)[place(j)]
    <3> SUFFICES ASSUME NEW j \in 1 .. Len(t) + Len(r)
                 PROVE  /\ place(j) \in 1 .. Len(t) + Len(s)
                        /\ (t \o r)[j] = (t \o s)[place(j)]
      OBVIOUS
    <3>1. CASE j <= Len(t)
      BY <1>3, <2>1, <2>2, <3>1
    <3>2. CASE j > Len(t)
      <4>1. (t \o r)[j] = r[j - Len(t)]
        BY <1>3, <2>2, <3>2
      <4>2. j - Len(t) \in 1 .. Len(s) - 1
        BY <1>3, <3>2
      <4>3. r[j - Len(t)] = IF j < Len(t) + i THEN s[j - Len(t)] ELSE s[j - Len(t) + 1]
        BY <1>3, <4>2
      <4> QED BY <1>3, <2>1, <3>2, <4>1, <4>2, <4>3
    <3> QED BY <3>1, <3>2
  <2>4. \A j, k \in 1 .. Len(t) + Len(r) : place(j) = place(k) => j = k
    BY <1>3
  <2>5. ASSUME NEW j \in 1 .. Len(t) + Len(r), NEW k \in 1 .. Len(t) + Len(r),
               (t \o r)[j] = (t \o r)[k]
        PROVE  j = k
    <3> HIDE DEF place
    <3>1. (t \o s)[place(j)] = (t \o s)[place(k)]
      BY <2>3, <2>5
    <3>2. place(j) = place(k)
      BY <1>6, <2>1, <2>3, <3>1 DEF IsInjective
    <3> QED BY <2>4, <3>2
  <2> QED BY <2>2, <2>5 DEF IsInjective
<1> QED BY <1>3, <1>4, <1>5, <1>6 DEF r
-----------------------------------------------------------------------------
(* Sessions.                                                               *)

LEMMA Unlinked ==
  ASSUME TypeInv, OneList, at \in DOMAIN sess, Unlink
  PROVE  /\ sess' \in Seq(Sessions) /\ tmp' \in Seq(Sessions)
         /\ at' \in 1 .. Len(sess') + 1
         /\ Allocated' \subseteq Allocated
         /\ \A x \in Allocated : x # sess[at] => x \in Allocated'
         /\ OneList'
<1>1. /\ sess \in Seq(Sessions) /\ tmp \in Seq(Sessions) /\ at \in 1 .. Len(sess)
      /\ sess' = RemoveAt(sess, at) /\ tmp' = tmp /\ at' = at
  BY DEF TypeInv, LaunchpadTypeOK, LoopOK, Unlink
<1>2. /\ RemoveAt(sess, at) \in Seq(Sessions)
      /\ Len(RemoveAt(sess, at)) = Len(sess) - 1
      /\ ToSet(RemoveAt(sess, at)) \subseteq ToSet(sess)
      /\ \A x \in ToSet(sess) : x # sess[at] => x \in ToSet(RemoveAt(sess, at))
      /\ IsInjective(tmp \o sess) => IsInjective(tmp \o RemoveAt(sess, at))
  BY <1>1, Removed
<1>3. at' \in 1 .. Len(sess') + 1
  BY <1>1, <1>2
<1> QED BY <1>1, <1>2, <1>3 DEF Allocated, OneList

LEMMA NewSession ==
  ASSUME TypeInv, OneList, NEW ids \in SUBSET Sessions, Free(ids) # {},
         tmp' = <<Fresh(ids)>> \o tmp, sess' = sess
  PROVE  /\ Fresh(ids) \in ids /\ Fresh(ids) \notin Allocated
         /\ tmp' \in Seq(Sessions)
         /\ Allocated' = Allocated \cup {Fresh(ids)}
         /\ OneList'
<1> DEFINE x == Fresh(ids)
<1>1. x \in ids /\ x \notin Allocated
  BY DEF Fresh, Free
<1>2. x \in Sessions /\ sess \in Seq(Sessions) /\ tmp \in Seq(Sessions)
  BY <1>1 DEF TypeInv, LaunchpadTypeOK, LoopOK
<1> HIDE DEF x
<1>3. /\ <<x>> \o tmp \in Seq(Sessions)
      /\ ToSet(<<x>> \o tmp) = ToSet(tmp) \cup {x}
      /\ x \notin ToSet(tmp) \cup ToSet(sess) /\ IsInjective(tmp \o sess)
           => IsInjective((<<x>> \o tmp) \o sess)
  BY <1>2, Pushed
<1>4. tmp' = <<x>> \o tmp
  BY DEF x
<1>5. OneList'
  BY <1>1, <1>3, <1>4 DEF OneList, Allocated
<1> QED BY <1>1, <1>3, <1>4, <1>5 DEF Allocated, x

LEMMA Selected ==
  ASSUME TypeInv, OneList, sess' = tmp \o sess, tmp' = <<>>
  PROVE  /\ sess' \in Seq(Sessions) /\ tmp' \in Seq(Sessions)
         /\ Allocated' = Allocated /\ OneList'
<1>1. sess \in Seq(Sessions) /\ tmp \in Seq(Sessions)
  BY DEF TypeInv, LaunchpadTypeOK, LoopOK
<1> QED BY <1>1, Merged DEF Allocated, OneList

LEMMA Blanks ==
  /\ NoShells \in [ShellId -> Shells]
  /\ NoTerminals \in [Name -> ShellId \cup {None}]
  /\ UiMode \in Modes
  /\ <<>> \in Seq(Sessions) /\ Len(<<>>) = 0
  BY EmptySeq DEF NoShells, Freed, Shells, NoTerminals, UiMode, Modes

LEMMA Died ==
  ASSUME TypeInv, Die
  PROVE  LaunchpadInv'
<1>1. TypeInv'
  <2>1. 1 \in 1 .. Len(<<>>) + 1
    BY Blanks
  <2>2. LoopOK' /\ VisitHasSession'
    BY <2>1, Blanks DEF Die, LoopOK, VisitHasSession
  <2>3. StateOK'
    BY Blanks DEF Die, TypeInv, LaunchpadTypeOK, StateOK
  <2> QED BY <2>2, <2>3 DEF TypeInv, LaunchpadTypeOK
<1>2. ListInv'
  <2>1. (tmp \o sess)' = <<>>
    BY EmptySeq, ConcatEmptySeq DEF Die
  <2>2. IsInjective(<<>>)
    BY DEF IsInjective
  <2> QED BY <2>1, <2>2 DEF Die, ListInv, OneList, ReloadHasSession
<1>3. TermInv'
  BY DEF Die, TermInv, TerminalsHaveShells, GrabbedInTerminalMode,
         ShellsAreReachable, Listed, NoTerminals, UiMode, NoShells, Freed
<1>4. FrontInv'
  BY DEF Die, FrontInv, SavedIsScreen, ScreenIsGivenBack, UiMode
<1> QED BY <1>1, <1>2, <1>3, <1>4 DEF LaunchpadInv

LEMMA Initially == LaunchpadInit => LaunchpadInv
<1> SUFFICES ASSUME LaunchpadInit PROVE LaunchpadInv
  OBVIOUS
<1>1. PICK l \in LpId : tmp = <<l>>
  BY DEF LaunchpadInit
<1>2. tmp \in Seq(Sessions) /\ Len(tmp) = 1 /\ tmp[1] = l
  BY <1>1 DEF Sessions
<1>3. TypeInv
  <2>1. 1 \in 1 .. Len(<<>>) + 1
    BY Blanks
  <2>2. LoopOK /\ VisitHasSession
    BY <1>2, <2>1, Blanks DEF LaunchpadInit, LoopOK, VisitHasSession
  <2>3. StateOK
    BY Blanks DEF LaunchpadInit, StateOK, Images
  <2> QED BY <2>2, <2>3 DEF TypeInv, LaunchpadTypeOK
<1>4. ListInv
  <2>1. tmp \o sess = tmp
    BY <1>2, ConcatEmptySeq DEF LaunchpadInit
  <2>2. IsInjective(tmp)
    BY <1>2 DEF IsInjective
  <2> QED BY <2>1, <2>2 DEF LaunchpadInit, ListInv, OneList, ReloadHasSession
<1>5. TermInv
  BY DEF LaunchpadInit, TermInv, TerminalsHaveShells, GrabbedInTerminalMode,
         ShellsAreReachable, Listed, NoTerminals, UiMode, NoShells, Freed
<1>6. FrontInv
  BY DEF LaunchpadInit, FrontInv, SavedIsScreen, ScreenIsGivenBack, UiMode
<1> QED BY <1>3, <1>4, <1>5, <1>6 DEF LaunchpadInv

-----------------------------------------------------------------------------
(* What the parts of the actions keep.                                     *)

LEMMA ModeEnded ==
  ASSUME StateOK, CurtermEnd
  PROVE  mode' \in Modes /\ screen' \in Images /\ switched' \in BOOLEAN
<1>1. /\ mode \in Modes /\ screen \in Images /\ switched \in BOOLEAN
      /\ mode.due \in BOOLEAN /\ mode.saved \in Images \cup {"nothing"}
  BY DEF StateOK, Modes
<1>2. Restores => mode.saved \in Images
  BY <1>1 DEF Restores
<1> QED BY <1>1, <1>2 DEF CurtermEnd, Modes

LEMMA ScreenProcessed ==
  ASSUME StateOK, ProcessScreen
  PROVE  /\ mode' \in Modes /\ screen' \in Images /\ switched' \in BOOLEAN
         /\ shell' \in [ShellId -> Shells]
         /\ mode' = [mode EXCEPT !.due = FALSE] /\ switched' = switched
         /\ \A s \in ShellId : /\ shell'[s].alive = shell[s].alive
                              /\ shell'[s].fd = shell[s].fd
<1>1. mode' \in Modes
  BY DEF StateOK, Modes, ProcessScreen
<1>2. screen' \in Images /\ switched' \in BOOLEAN
  BY DEF StateOK, Modes, Images, ProcessScreen, Drawable
<1>3. shell' \in [ShellId -> Shells]
  BY DEF StateOK, Shells, ProcessScreen
<1>4. \A s \in ShellId : /\ shell'[s].alive = shell[s].alive
                        /\ shell'[s].fd = shell[s].fd
  BY DEF StateOK, Shells, ProcessScreen
<1> QED BY <1>1, <1>2, <1>3, <1>4 DEF ProcessScreen

LEMMA TerminalsFreed ==
  ASSUME StateOK, FreeTerminals
  PROVE  /\ shell' \in [ShellId -> Shells]
         /\ allterm' \in [Name -> ShellId \cup {None}]
         /\ Listed' = {}
         /\ \A s \in ShellId : shell'[s].alive => shell[s].alive /\ s \notin KilledShells
         /\ \A s \in ShellId : shell'[s].fd = shell[s].fd
<1>1. allterm' = NoTerminals /\ Listed' = {}
  BY DEF FreeTerminals, NoTerminals, Listed
<1>2. ASSUME NEW s \in ShellId
      PROVE  /\ shell'[s] \in Shells
             /\ shell'[s].alive => shell[s].alive /\ s \notin KilledShells
             /\ shell'[s].fd = shell[s].fd
  <2>1. shell'[s] = [shell[s] EXCEPT !.alive = @ /\ s \notin KilledShells]
    BY DEF FreeTerminals
  <2>2. shell[s] \in Shells
    BY DEF StateOK
  <2> QED BY <2>1, <2>2 DEF Shells
<1>3. shell' = [s \in ShellId |-> shell'[s]]
  BY DEF FreeTerminals
<1> QED BY <1>1, <1>2, <1>3, Blanks

LEMMA Released ==
  ASSUME StateOK, Deinit, help' \in BOOLEAN
  PROVE  StateOK'
<1>1. kpad' \in BOOLEAN /\ signal' \in {0, 1, 2} /\ handled' \in BOOLEAN
  BY DEF Deinit
<1> QED BY <1>1, ModeEnded, TerminalsFreed DEF Deinit, StateOK

-----------------------------------------------------------------------------
(* Every step keeps the type invariant.                                    *)

LEMMA TypeStep ==
  ASSUME LaunchpadInv, [LaunchpadNext]_vars
  PROVE  TypeInv'
<1> USE DEF LaunchpadInv, TypeInv, LaunchpadTypeOK
<1>0. /\ StateOK /\ LoopOK /\ VisitHasSession /\ OneList
      /\ LpId \in SUBSET Sessions /\ ShellId \in SUBSET Sessions
  BY DEF ListInv, Sessions
<1>1. CASE Die
  BY <1>1, Died
\* The session at hand is there, and the next place is in reach.
<1>2. at \in DOMAIN sess /\ Advance => LoopOK' /\ VisitHasSession'
  BY <1>0 DEF Advance, LoopOK, VisitHasSession
<1>3. at \in DOMAIN sess /\ phase = "run" /\ Unlink => LoopOK' /\ VisitHasSession'
  BY <1>0, Unlinked DEF Unlink, LoopOK, VisitHasSession
<1>4. at \in DOMAIN sess /\ ToSpecial => LoopOK' /\ VisitHasSession'
  BY <1>0 DEF ToSpecial, LoopOK, VisitHasSession
<1>5. phase = "special" /\ ToTimer /\ tmp' \in Seq(Sessions)
        => LoopOK' /\ VisitHasSession'
  BY <1>0 DEF ToTimer, LoopOK, VisitHasSession
<1>6. /\ LpRuns => at \in DOMAIN sess /\ phase = "run"
      /\ \A t \in ShellId : Running(t) => at \in DOMAIN sess /\ phase = "run" /\ sess[at] = t
      /\ phase = "due" => at \in DOMAIN sess
  BY <1>0 DEF LpRuns, Running, VisitHasSession
<1>7. CASE NextPass
  <2>1. LoopOK' /\ VisitHasSession'
    BY <1>0, <1>7 DEF NextPass, LoopOK, VisitHasSession
  <2>2. StateOK'
    BY <1>0, <1>7 DEF NextPass, StateOK, terms, lp, view
  <2> QED BY <2>1, <2>2
<1>8. ASSUME NEW r \in SUBSET ShellId, Select(r)
      PROVE  TypeInv'
  <2>1. LoopOK' /\ VisitHasSession'
    BY <1>0, <1>8, Selected DEF Select, LoopOK, VisitHasSession
  <2>2. mode' \in Modes
    BY <1>0, <1>8 DEF Select, StateOK, Modes
  <2>3. StateOK'
    BY <1>0, <1>8, <2>2 DEF Select, StateOK, terms, lp
  <2> QED BY <2>1, <2>3
<1>9. CASE LpGone
  <2>1. CASE Deinit /\ Unlink /\ UNCHANGED help
    BY <1>0, <1>3, <1>6, <1>9, <2>1, Released DEF LpGone, StateOK
  <2> QED BY <1>1, <1>9, <2>1 DEF LpGone
<1>10. CASE LpExit
  <2>1. CASE Deinit /\ Advance /\ UNCHANGED help
    BY <1>0, <1>2, <1>6, <1>10, <2>1, Released DEF LpExit, StateOK
  <2> QED BY <1>1, <1>10, <2>1 DEF LpExit
<1>11. CASE LpReload
  <2>1. CASE ~CurtermEndFaults
    <3>1. Free(LpId) # {} /\ tmp' = <<Fresh(LpId)>> \o tmp /\ sess' = sess
      BY <1>11, <2>1 DEF LpReload, ListInv, ReloadHasSession
    <3>2. tmp' \in Seq(Sessions)
      BY <1>0, <3>1, NewSession
    <3>3. LoopOK' /\ VisitHasSession'
      BY <1>0, <1>6, <1>11, <2>1, <3>1, <3>2 DEF LpReload, LoopOK, VisitHasSession
    <3>4. mode' \in Modes /\ screen' \in Images
      BY <1>0, <1>11, <2>1, Blanks DEF LpReload, StateOK, Modes, Images, Restores
    <3>5. /\ kpad' \in BOOLEAN /\ signal' \in {0, 1, 2} /\ handled' \in BOOLEAN
          /\ UNCHANGED <<switched, help>>
      BY <1>11, <2>1 DEF LpReload
    <3>6. UNCHANGED terms \/ FreeTerminals
      BY <1>11, <2>1 DEF LpReload
    <3>7. StateOK'
      BY <1>0, <3>4, <3>5, <3>6, TerminalsFreed DEF StateOK, terms
    <3> QED BY <3>3, <3>7
  <2> QED BY <1>1, <1>11, <2>1 DEF LpReload
<1>12. CASE NoKey
  <2>1. StateOK'
    BY <1>0, <1>12 DEF NoKey, StateOK, terms, lp, view
  <2> QED BY <1>4, <1>6, <1>12, <2>1 DEF NoKey, LpReads
<1>13. ASSUME NEW m \in BOOLEAN, EndPressed(m)
       PROVE  TypeInv'
  <2>1. help' \in BOOLEAN \/ Die
    BY <1>13 DEF EndPressed
  <2>2. CASE ProcessScreen /\ ToSpecial /\ UNCHANGED <<allterm, lp>>
    <3>1. StateOK' \/ Die
      BY <1>0, <2>1, <2>2, ScreenProcessed DEF StateOK, lp
    <3> QED BY <1>1, <1>4, <1>6, <1>13, <2>2, <3>1 DEF EndPressed, KeyRead, LpReads
  <2>3. CASE ToSpecial /\ UNCHANGED <<terms, lp, view>>
    <3>1. StateOK' \/ Die
      BY <1>0, <2>1, <2>3 DEF StateOK, terms, lp, view
    <3> QED BY <1>1, <1>4, <1>6, <1>13, <2>3, <3>1 DEF EndPressed, KeyRead, LpReads
  <2> QED BY <1>1, <1>13, <2>2, <2>3 DEF EndPressed
<1>14. CASE EndReleased
  <2>1. CASE /\ ToSpecial /\ help' = FALSE /\ UNCHANGED <<allterm, lp>>
             /\ ProcessScreen \/ (CurtermEnd /\ UNCHANGED shell)
    <3>1. /\ mode' \in Modes /\ screen' \in Images /\ switched' \in BOOLEAN
          /\ shell' \in [ShellId -> Shells]
      BY <1>0, <2>1, ScreenProcessed, ModeEnded DEF StateOK
    <3>2. StateOK'
      BY <1>0, <2>1, <3>1 DEF StateOK, lp
    <3> QED BY <1>4, <1>6, <1>14, <2>1, <3>2 DEF EndReleased, KeyRead, LpReads
  <2>2. CASE help
    BY <1>1, <1>14, <2>1, <2>2, Zenon DEF EndReleased
  <2>3. CASE ~help
    BY <1>1, <1>14, <2>1, <2>3, Zenon DEF EndReleased
  <2> QED BY <2>2, <2>3
<1>15. CASE Redraw
  <2>1. CASE ProcessScreen /\ ToSpecial /\ UNCHANGED <<allterm, lp, help>>
    <3>1. StateOK'
      BY <1>0, <2>1, ScreenProcessed DEF StateOK, lp
    <3> QED BY <1>4, <1>6, <1>15, <2>1, <3>1 DEF Redraw, KeyRead, LpReads
  <2> QED BY <1>1, <1>15, <2>1 DEF Redraw
<1>16. CASE NoRequest
  <2>1. StateOK'
    BY <1>0, <1>16 DEF NoRequest, StateOK, terms, lp, view
  <2> QED BY <1>0, <1>5, <1>16, <2>1 DEF NoRequest, LoopOK
\* The special FIFO: what differs is the terminal and the mode.
<1>17. ASSUME Requested, tmp' \in Seq(Sessions), mode' \in Modes,
              shell' \in [ShellId -> Shells],
              allterm' \in [Name -> ShellId \cup {None}],
              UNCHANGED screen, Switched
       PROVE  TypeInv'
  <2>1. switched' \in BOOLEAN
    BY <1>0, <1>17 DEF Switched, StateOK
  <2>2. StateOK'
    BY <1>0, <1>17, <2>1 DEF Requested, StateOK, lp
  <2> QED BY <1>5, <1>17, <2>2 DEF Requested
<1>18. ASSUME NEW n \in Name, Activate(n)
       PROVE  mode' \in Modes /\ UNCHANGED screen /\ Switched
  BY <1>0, <1>18 DEF Activate, StateOK, Modes
<1>19. ASSUME ScreenLeft
       PROVE  mode' \in Modes /\ UNCHANGED screen /\ Switched
  BY <1>0, <1>19 DEF ScreenLeft, StateOK, Modes
<1>20. ASSUME NEW n \in Name, SwitchTo(n)
       PROVE  TypeInv'
  BY <1>0, <1>17, <1>18, <1>20 DEF SwitchTo, StateOK, LoopOK, terms
<1>21. ASSUME NEW n \in Name, NoMemory(n)
       PROVE  TypeInv'
  BY <1>0, <1>17, <1>19, <1>21 DEF NoMemory, StateOK, LoopOK, terms
<1>22. ASSUME Requested, Free(ShellId) # {}, tmp' = <<Fresh(ShellId)>> \o tmp
       PROVE  tmp' \in Seq(Sessions) /\ Fresh(ShellId) \in ShellId
  BY <1>0, <1>22, NewSession DEF Requested, ToTimer
<1>23. ASSUME NEW n \in Name, OpenShell(n)
       PROVE  TypeInv'
  <2>1. tmp' \in Seq(Sessions) /\ Fresh(ShellId) \in ShellId
    BY <1>22, <1>23 DEF OpenShell
  <2>2. shell' \in [ShellId -> Shells]
    BY <1>0, <1>23, <2>1 DEF OpenShell, StateOK, Shells
  <2>3. allterm' \in [Name -> ShellId \cup {None}]
    BY <1>0, <1>23, <2>1 DEF OpenShell, StateOK
  <2> QED BY <1>17, <1>18, <1>23, <2>1, <2>2, <2>3 DEF OpenShell
<1>24. ASSUME NEW n \in Name, NoPty(n)
       PROVE  TypeInv'
  <2>1. tmp' \in Seq(Sessions) /\ Fresh(ShellId) \in ShellId
    BY <1>22, <1>24 DEF NoPty
  <2>2. shell' \in [ShellId -> Shells]
    BY <1>0, <1>24, <2>1 DEF NoPty, StateOK, Shells, Freed
  <2> QED BY <1>0, <1>17, <1>19, <1>24, <2>1, <2>2 DEF NoPty, StateOK
<1>25. ASSUME NEW n \in Name, NoScreen(n)
       PROVE  TypeInv'
  <2>1. CASE Requested /\ mode' = [mode EXCEPT !.fb = "none"]
             /\ UNCHANGED <<tmp, terms, screen>> /\ Switched
    <3>1. mode' \in Modes
      BY <1>0, <2>1 DEF StateOK, Modes
    <3> QED BY <1>0, <1>17, <2>1, <3>1 DEF StateOK, LoopOK, terms
  <2> QED BY <1>1, <1>25, <2>1 DEF NoScreen
<1>26. CASE TimerDue
  <2>1. CASE ProcessScreen /\ Advance /\ UNCHANGED <<allterm, lp, help>>
    <3>1. StateOK'
      BY <1>0, <2>1, ScreenProcessed DEF StateOK, lp
    <3> QED BY <1>2, <1>6, <1>26, <2>1, <3>1 DEF TimerDue
  <2> QED BY <1>1, <1>26, <2>1 DEF TimerDue
<1>27. CASE TimerNotDue
  <2>1. StateOK'
    BY <1>0, <1>27 DEF TimerNotDue, StateOK, terms, lp, view
  <2> QED BY <1>2, <1>6, <1>27, <2>1 DEF TimerNotDue
<1>28. ASSUME NEW t \in ShellId, ShellGone(t)
       PROVE  TypeInv'
  <2>1. CASE /\ CurtermEnd \/ UNCHANGED view
             /\ allterm' = [n \in Name |-> IF allterm[n] = t THEN None ELSE allterm[n]]
             /\ shell' = [shell EXCEPT ![t] = Freed]
             /\ Unlink /\ UNCHANGED <<lp, help>>
    <3>1. mode' \in Modes /\ screen' \in Images /\ switched' \in BOOLEAN
      BY <1>0, <2>1, ModeEnded DEF view, StateOK
    <3>2. shell' \in [ShellId -> Shells]
      BY <1>0, <2>1 DEF StateOK, Freed, Shells
    <3>3. allterm' \in [Name -> ShellId \cup {None}]
      BY <1>0, <2>1 DEF StateOK
    <3>4. StateOK'
      BY <1>0, <2>1, <3>1, <3>2, <3>3 DEF StateOK, lp
    <3> QED BY <1>3, <1>6, <1>28, <2>1, <3>4 DEF ShellGone
  <2> QED BY <1>1, <1>28, <2>1 DEF ShellGone
<1>29. ASSUME NEW t \in ShellId, ShellServed(t)
       PROVE  TypeInv'
  <2>1. shell' \in [ShellId -> Shells]
    BY <1>0, <1>29 DEF ShellServed, StateOK, Shells
  <2>2. StateOK'
    BY <1>0, <1>29, <2>1 DEF ShellServed, StateOK, lp, view
  <2> QED BY <1>2, <1>6, <1>29, <2>2 DEF ShellServed
<1>30. ASSUME NEW t \in ShellId, ShellExits(t)
       PROVE  TypeInv'
  <2>1. shell' \in [ShellId -> Shells]
    BY <1>0, <1>30 DEF ShellExits, StateOK, Shells
  <2>2. StateOK'
    BY <1>0, <1>30, <2>1 DEF ShellExits, StateOK, lp, view
  <2>3. LoopOK' /\ VisitHasSession'
    BY <1>0, <1>30 DEF ShellExits, LoopOK, VisitHasSession, loop
  <2> QED BY <2>2, <2>3
<1>31. ASSUME NEW k \in {1, 2}, Signal(k)
       PROVE  TypeInv'
  <2>1. CASE signal' = k /\ UNCHANGED <<loop, terms, kpad, handled, view, help>>
    <3>1. StateOK'
      BY <1>0, <2>1 DEF StateOK, terms, view
    <3>2. LoopOK' /\ VisitHasSession'
      BY <1>0, <2>1 DEF LoopOK, VisitHasSession, loop
    <3> QED BY <3>1, <3>2
  <2> QED BY <1>1, <1>31, <2>1 DEF Signal
<1>32. CASE UNCHANGED vars
  <2>1. LoopOK' /\ VisitHasSession'
    BY <1>0, <1>32 DEF vars, loop, LoopOK, VisitHasSession
  <2>2. StateOK'
    BY <1>0, <1>32 DEF vars, terms, lp, view, StateOK
  <2> QED BY <2>1, <2>2
<1> QED
  BY <1>7, <1>8, <1>9, <1>10, <1>11, <1>12, <1>13, <1>14, <1>15, <1>16, <1>20,
     <1>21, <1>23, <1>24, <1>25, <1>26, <1>27, <1>28, <1>29, <1>30, <1>31, <1>32
  DEF LaunchpadNext, LoopStep, LpStep, ShellStep

-----------------------------------------------------------------------------
(* Every step keeps the lists sound.                                         *)

LEMMA ListStep ==
  ASSUME LaunchpadInv, [LaunchpadNext]_vars
  PROVE  ListInv'
<1>0. /\ TypeInv /\ OneList /\ ReloadHasSession
      /\ LpId \in SUBSET Sessions /\ ShellId \in SUBSET Sessions
      /\ sess \in Seq(Sessions) /\ tmp \in Seq(Sessions)
  BY DEF LaunchpadInv, ListInv, Sessions, TypeInv, LaunchpadTypeOK, LoopOK
<1>1. CASE Die
  BY <1>0, <1>1, Died DEF LaunchpadInv
<1>2. ASSUME UNCHANGED <<sess, tmp>>, signal' \in {0, signal}
      PROVE  ListInv'
  BY <1>0, <1>2 DEF ListInv, OneList, ReloadHasSession, Free, Allocated
<1>3. ASSUME Unlink, at \in DOMAIN sess, signal' \in {0, signal}
      PROVE  ListInv'
  <2>1. OneList' /\ Allocated' \subseteq Allocated
    BY <1>0, <1>3, Unlinked
  <2> QED BY <1>0, <1>3, <2>1 DEF ListInv, ReloadHasSession, Free
<1>4. ASSUME Requested, Free(ShellId) # {}, tmp' = <<Fresh(ShellId)>> \o tmp
      PROVE  ListInv'
  <2>1. /\ OneList' /\ Allocated' = Allocated \cup {Fresh(ShellId)}
        /\ Fresh(ShellId) \in ShellId /\ signal' = signal
    BY <1>0, <1>4, NewSession DEF Requested, ToTimer, lp
  <2>2. Free(LpId)' = Free(LpId)
    BY <2>1, LaunchpadAssumption DEF Free
  <2> QED BY <1>0, <2>1, <2>2 DEF ListInv, ReloadHasSession
<1>5. ASSUME NEW r \in SUBSET ShellId, Select(r)
      PROVE  ListInv'
  <2>1. OneList' /\ Allocated' = Allocated /\ signal' = signal
    BY <1>0, <1>5, Selected DEF Select, lp
  <2> QED BY <1>0, <2>1 DEF ListInv, ReloadHasSession, Free
<1>6. CASE LpReload
  <2>1. CASE ~CurtermEndFaults
    <3>1. /\ Free(LpId) # {} /\ tmp' = <<Fresh(LpId)>> \o tmp /\ sess' = sess
          /\ signal' = 0
      BY <1>0, <1>6, <2>1 DEF LpReload, ReloadHasSession
    <3>2. OneList'
      BY <1>0, <3>1, NewSession
    <3> QED BY <3>1, <3>2 DEF ListInv, ReloadHasSession
  <2> QED BY <1>1, <1>6, <2>1 DEF LpReload
<1>7. CASE LpGone
  BY <1>1, <1>3, <1>7 DEF LpGone, LpRuns, Running, Deinit
<1>8. CASE LpExit
  BY <1>1, <1>2, <1>8 DEF LpExit, Deinit, Advance
<1>9. ASSUME NEW m \in BOOLEAN, EndPressed(m)
      PROVE  ListInv'
  BY <1>1, <1>2, <1>9 DEF EndPressed, ToSpecial, lp
<1>10. CASE EndReleased
  BY <1>1, <1>2, <1>10 DEF EndReleased, ToSpecial, lp
<1>11. CASE Redraw
  BY <1>1, <1>2, <1>11 DEF Redraw, ToSpecial, lp
<1>12. CASE NoKey \/ NoRequest \/ NextPass \/ TimerNotDue
  BY <1>2, <1>12 DEF NoKey, NoRequest, NextPass, TimerNotDue, ToSpecial, ToTimer,
                     Advance, lp
<1>13. CASE TimerDue
  BY <1>1, <1>2, <1>13 DEF TimerDue, Advance, lp
<1>14. ASSUME NEW n \in Name, SwitchTo(n) \/ NoMemory(n)
       PROVE  ListInv'
  BY <1>2, <1>14 DEF SwitchTo, NoMemory, Requested, ToTimer, lp
<1>15. ASSUME NEW n \in Name, NoScreen(n)
       PROVE  ListInv'
  BY <1>1, <1>2, <1>15 DEF NoScreen, Requested, ToTimer, lp
<1>16. ASSUME NEW n \in Name, OpenShell(n) \/ NoPty(n)
       PROVE  ListInv'
  BY <1>4, <1>16 DEF OpenShell, NoPty
<1>17. ASSUME NEW t \in ShellId, ShellGone(t)
       PROVE  ListInv'
  BY <1>1, <1>3, <1>17 DEF ShellGone, Running, lp
<1>18. ASSUME NEW t \in ShellId, ShellServed(t) \/ ShellExits(t)
       PROVE  ListInv'
  BY <1>2, <1>18 DEF ShellServed, ShellExits, Advance, loop, lp
<1>19. ASSUME NEW k \in {1, 2}, Signal(k)
       PROVE  ListInv'
  <2>1. CASE signal' = k /\ UNCHANGED <<loop, terms, kpad, handled, view, help>>
    <3>1. UNCHANGED <<sess, tmp>> /\ (signal' = 1 => Free(LpId) # {})
      BY <1>19, <2>1 DEF Signal, loop
    <3> QED BY <1>0, <3>1 DEF ListInv, OneList, ReloadHasSession, Free, Allocated
  <2> QED BY <1>1, <1>19, <2>1 DEF Signal
<1>20. CASE UNCHANGED vars
  BY <1>2, <1>20 DEF vars, loop, lp
<1> QED
  BY <1>5, <1>6, <1>7, <1>8, <1>9, <1>10, <1>11, <1>12, <1>13, <1>14, <1>15,
     <1>16, <1>17, <1>18, <1>19, <1>20
  DEF LaunchpadNext, LoopStep, LpStep, ShellStep

-----------------------------------------------------------------------------
(* Every step keeps terminals and sessions in step.                        *)

LEMMA TermStep ==
  ASSUME LaunchpadInv, [LaunchpadNext]_vars
  PROVE  TermInv'
<1>0. /\ TypeInv /\ StateOK /\ OneList /\ TermInv
      /\ TerminalsHaveShells /\ GrabbedInTerminalMode /\ ShellsAreReachable
      /\ ShellId \in SUBSET Sessions /\ LpId \in SUBSET Sessions
      /\ sess \in Seq(Sessions) /\ tmp \in Seq(Sessions)
  BY DEF LaunchpadInv, ListInv, TypeInv, LaunchpadTypeOK, LoopOK, TermInv, Sessions
<1>1. CASE Die
  BY <1>0, <1>1, Died DEF LaunchpadInv
<1> DEFINE SameMode  == /\ mode'.curterm = mode.curterm
                        /\ mode'.grabbed = mode.grabbed
           EndedMode == mode'.curterm = None /\ mode'.grabbed = FALSE
           OldShells == \A s \in ShellId : shell'[s].alive /\ shell'[s].fd
                                            => shell[s].alive /\ shell[s].fd
\* No terminal comes or goes: the mode may end, sessions be added, shells die.
<1>2. ASSUME UNCHANGED allterm, Allocated \subseteq Allocated', OldShells,
             SameMode \/ EndedMode
      PROVE  TermInv'
  BY <1>0, <1>2 DEF TermInv, TerminalsHaveShells, GrabbedInTerminalMode,
                    ShellsAreReachable, Listed
<1>3. UNCHANGED <<sess, tmp>> => Allocated' = Allocated
  BY DEF Allocated
<1>4. UNCHANGED shell => OldShells
  OBVIOUS
<1>5. /\ CurtermEnd => EndedMode
      /\ ProcessScreen => SameMode /\ OldShells
      /\ UNCHANGED view => SameMode
  <2>1. CurtermEnd => EndedMode
    BY DEF CurtermEnd
  <2>2. ProcessScreen => SameMode /\ OldShells
    BY <1>0, ScreenProcessed DEF StateOK, Modes
  <2> QED BY <2>1, <2>2 DEF view
\* All of them go at once.
<1>6. ASSUME FreeTerminals, EndedMode
      PROVE  TermInv'
  <2>1. /\ Listed' = {}
        /\ \A s \in ShellId : shell'[s].alive => shell[s].alive /\ s \notin KilledShells
        /\ \A s \in ShellId : shell'[s].fd = shell[s].fd
    BY <1>0, <1>6, TerminalsFreed
  <2>2. \A s \in ShellId : shell[s].alive /\ shell[s].fd => s \in KilledShells
    BY <1>0, LaunchpadAssumption DEF ShellsAreReachable, KilledShells, Listed
  <2> QED BY <1>6, <2>1, <2>2
          DEF TermInv, TerminalsHaveShells, GrabbedInTerminalMode, ShellsAreReachable
<1>7. ASSUME NEW r \in SUBSET ShellId, Select(r)
      PROVE  TermInv'
  <2>1. Allocated' = Allocated
    BY <1>0, <1>7, Selected DEF Select
  <2>2. SameMode
    BY <1>0, <1>7 DEF Select, StateOK, Modes
  <2> QED BY <1>2, <1>7, <2>1, <2>2 DEF Select, terms
<1>8. CASE LpReload
  <2>1. CASE ~CurtermEndFaults
    <3>1. /\ Free(LpId) # {} /\ tmp' = <<Fresh(LpId)>> \o tmp /\ sess' = sess
      BY <1>8, <2>1 DEF LpReload, LaunchpadInv, ListInv, ReloadHasSession
    <3>2. Allocated \subseteq Allocated'
      BY <1>0, <3>1, NewSession
    <3>3. EndedMode
      BY <1>8, <2>1 DEF LpReload, UiMode
    <3>4. FreeTerminals \/ UNCHANGED terms
      BY <1>8, <2>1 DEF LpReload
    <3> QED BY <1>2, <1>6, <3>2, <3>3, <3>4 DEF terms
  <2> QED BY <1>1, <1>8, <2>1 DEF LpReload
<1>9. CASE LpGone \/ LpExit
  BY <1>1, <1>5, <1>6, <1>9 DEF LpGone, LpExit, Deinit
<1>10. ASSUME NEW m \in BOOLEAN, EndPressed(m)
       PROVE  TermInv'
  BY <1>1, <1>2, <1>3, <1>4, <1>5, <1>10 DEF EndPressed, ToSpecial, terms
<1>11. CASE EndReleased
  <2>1. CASE help
    BY <1>1, <1>2, <1>3, <1>5, <1>11, <2>1 DEF EndReleased, ToSpecial
  <2>2. CASE ~help
    BY <1>1, <1>2, <1>3, <1>4, <1>5, <1>11, <2>2 DEF EndReleased, ToSpecial
  <2> QED BY <2>1, <2>2
<1>12. CASE Redraw
  BY <1>1, <1>2, <1>3, <1>5, <1>12 DEF Redraw, ToSpecial
<1>13. CASE NoKey \/ NoRequest \/ NextPass \/ TimerNotDue
  BY <1>2, <1>3, <1>4, <1>5, <1>13
  DEF NoKey, NoRequest, NextPass, TimerNotDue, ToSpecial, ToTimer, Advance, terms
<1>14. CASE TimerDue
  BY <1>1, <1>2, <1>3, <1>5, <1>14 DEF TimerDue, Advance
\* A request: the current terminal is one that is listed.
<1>15. ASSUME NEW n \in Name, SwitchTo(n)
       PROVE  TermInv'
  <2>1. /\ UNCHANGED <<shell, allterm>> /\ Allocated' = Allocated
        /\ mode'.curterm = n /\ mode'.grabbed = TRUE /\ n \in Listed
    BY <1>3, <1>15 DEF SwitchTo, Requested, ToTimer, terms, Activate
  <2>2. n # None
    BY LaunchpadAssumption
  <2> QED BY <1>0, <2>1, <2>2 DEF TermInv, TerminalsHaveShells,
             GrabbedInTerminalMode, ShellsAreReachable, Listed
<1>16. ASSUME Requested, Free(ShellId) # {}, tmp' = <<Fresh(ShellId)>> \o tmp
       PROVE  /\ Fresh(ShellId) \in ShellId /\ Fresh(ShellId) \notin Allocated
              /\ Allocated' = Allocated \cup {Fresh(ShellId)}
  BY <1>0, <1>16, NewSession DEF Requested, ToTimer
<1>17. ASSUME NEW n \in Name, OpenShell(n)
       PROVE  TermInv'
  <2> DEFINE s == Fresh(ShellId)
  <2>1. /\ s \in ShellId /\ s \notin Allocated /\ Allocated' = Allocated \cup {s}
        /\ n \notin Listed /\ n # None /\ s # None
    BY <1>16, <1>17, LaunchpadAssumption DEF OpenShell
  <2>2. /\ allterm' = [allterm EXCEPT ![n] = s]
        /\ \A t \in ShellId : t # s => shell'[t] = shell[t]
        /\ mode'.curterm = n /\ mode'.grabbed = TRUE
    BY <1>0, <1>17 DEF OpenShell, Activate, StateOK
  <2>3. allterm'[n] = s /\ \A m \in Name : m # n => allterm'[m] = allterm[m]
    BY <1>0, <2>2 DEF StateOK
  <2>4. Listed' = Listed \cup {n}
    BY <2>1, <2>3 DEF Listed
  <2> HIDE DEF s
  <2>5. TerminalsHaveShells'
    BY <1>0, <2>1, <2>2, <2>3, <2>4 DEF TerminalsHaveShells
  <2>6. ShellsAreReachable'
    <3> SUFFICES ASSUME NEW t \in ShellId, shell'[t].alive, shell'[t].fd
                 PROVE  \E m \in Name : allterm'[m] = t
      BY DEF ShellsAreReachable
    <3>1. CASE t = s
      BY <2>3, <3>1
    <3>2. CASE t # s
      <4>1. PICK m \in Name : allterm[m] = t
        BY <1>0, <2>2, <3>2 DEF ShellsAreReachable
      <4>2. t # None
        BY LaunchpadAssumption
      <4>3. m # n
        BY <2>1, <4>1, <4>2 DEF Listed
      <4> QED BY <2>3, <4>1, <4>3
    <3> QED BY <3>1, <3>2
  <2> QED BY <2>1, <2>2, <2>5, <2>6 DEF TermInv, GrabbedInTerminalMode
<1>18. ScreenLeft => SameMode
  BY <1>0 DEF ScreenLeft, StateOK, Modes
<1>19. ASSUME NEW n \in Name, NoMemory(n)
       PROVE  TermInv'
  BY <1>2, <1>3, <1>4, <1>18, <1>19 DEF NoMemory, Requested, ToTimer, terms
<1>20. ASSUME NEW n \in Name, NoPty(n)
       PROVE  TermInv'
  <2>1. OldShells
    BY <1>0, <1>20 DEF NoPty, StateOK, Shells, Freed
  <2>2. Allocated \subseteq Allocated'
    BY <1>16, <1>20 DEF NoPty
  <2> QED BY <1>2, <1>18, <1>20, <2>1, <2>2 DEF NoPty
<1>21. ASSUME NEW n \in Name, NoScreen(n)
       PROVE  TermInv'
  <2>1. mode' = [mode EXCEPT !.fb = "none"] => SameMode
    BY <1>0 DEF StateOK, Modes
  <2> QED BY <1>1, <1>2, <1>3, <1>4, <1>21, <2>1
          DEF NoScreen, Requested, ToTimer, terms
\* The terminal of a shell that goes is unlisted first.
<1>22. ASSUME NEW t \in ShellId, ShellGone(t)
       PROVE  TermInv'
  <2> DEFINE current == mode.curterm # None /\ allterm[mode.curterm] = t
  <2>1. CASE current /\ CurtermEndFaults
    BY <1>1, <1>22, <2>1 DEF ShellGone
  <2>2. CASE ~(current /\ CurtermEndFaults)
    <3>1. /\ at \in DOMAIN sess /\ sess[at] = t /\ Unlink
          /\ allterm' = [n \in Name |-> IF allterm[n] = t THEN None ELSE allterm[n]]
          /\ shell' = [shell EXCEPT ![t] = Freed]
      BY <1>22, <2>2 DEF ShellGone, Running
    <3>2. IF current THEN EndedMode ELSE SameMode
      BY <1>5, <1>22, <2>2 DEF ShellGone
    <3>3. /\ Allocated' \subseteq Allocated
          /\ \A x \in Allocated : x # t => x \in Allocated'
      BY <1>0, <3>1, Unlinked
    <3>4. /\ \A n \in Listed' : n \in Listed /\ allterm'[n] = allterm[n] /\ allterm[n] # t
          /\ \A n \in Listed : allterm[n] # t => n \in Listed'
      BY <3>1 DEF Listed
    <3>5. TerminalsHaveShells'
      BY <1>0, <3>2, <3>3, <3>4 DEF TerminalsHaveShells
    <3>6. GrabbedInTerminalMode'
      BY <1>0, <3>2 DEF GrabbedInTerminalMode
    <3>7. ShellsAreReachable'
      BY <1>0, <3>1 DEF ShellsAreReachable, StateOK, Freed
    <3> QED BY <3>5, <3>6, <3>7 DEF TermInv
  <2> QED BY <2>1, <2>2
<1>23. ASSUME NEW t \in ShellId, ShellServed(t)
       PROVE  TermInv'
  <2>1. OldShells
    BY <1>0, <1>23 DEF ShellServed, StateOK, Shells
  <2> QED BY <1>2, <1>3, <1>5, <1>23, <2>1 DEF ShellServed, Advance
<1>24. ASSUME NEW t \in ShellId, ShellExits(t)
       PROVE  TermInv'
  <2>1. OldShells
    BY <1>0, <1>24 DEF ShellExits, StateOK, Shells
  <2> QED BY <1>2, <1>3, <1>5, <1>24, <2>1 DEF ShellExits, loop
<1>25. ASSUME NEW k \in {1, 2}, Signal(k)
       PROVE  TermInv'
  BY <1>1, <1>2, <1>3, <1>4, <1>5, <1>25 DEF Signal, loop, terms
<1>26. CASE UNCHANGED vars
  BY <1>2, <1>3, <1>4, <1>5, <1>26 DEF vars, loop, terms
<1> QED
  BY <1>7, <1>8, <1>9, <1>10, <1>11, <1>12, <1>13, <1>14, <1>15, <1>17, <1>19,
     <1>20, <1>21, <1>22, <1>23, <1>24, <1>25, <1>26
  DEF LaunchpadNext, LoopStep, LpStep, ShellStep

-----------------------------------------------------------------------------
(* Every step keeps what is needed to give the screen back.                *)

LEMMA FrontStep ==
  ASSUME LaunchpadInv, [LaunchpadNext]_vars
  PROVE  FrontInv'
<1>0. StateOK /\ mode \in Modes /\ SavedIsScreen /\ ScreenIsGivenBack
  BY DEF LaunchpadInv, TypeInv, LaunchpadTypeOK, StateOK, FrontInv
<1>1. CASE Die
  BY <1>0, <1>1, Died DEF LaunchpadInv
<1> DEFINE Goes      == phase # "ended" \/ phase' = phase
           SameFront == /\ mode'.curterm = mode.curterm /\ mode'.fb = mode.fb
                        /\ mode'.saved = mode.saved /\ switched' = switched
\* What is shown stays, or is a terminal in terminal mode.
<1>2. ASSUME Goes, SameFront, screen' = screen \/ mode.curterm # None
      PROVE  FrontInv'
  BY <1>0, <1>2 DEF FrontInv, SavedIsScreen, ScreenIsGivenBack
<1>3. UNCHANGED view => SameFront /\ screen' = screen
  BY DEF view
<1>4. ProcessScreen => SameFront /\ (screen' = screen \/ mode.curterm # None)
  <2> SUFFICES ASSUME ProcessScreen
               PROVE  SameFront /\ (screen' = screen \/ mode.curterm # None)
    OBVIOUS
  <2>1. SameFront
    BY <1>0 DEF ProcessScreen, Modes
  <2>2. screen' = screen \/ mode.curterm # None
    BY DEF ProcessScreen, Drawable
  <2> QED BY <2>1, <2>2
\* Terminal mode ends: it was on exactly when there is a screen to restore.
<1>5. ASSUME Goes, mode'.curterm = None, mode'.fb = "none", switched' = switched,
             screen' = IF Restores THEN mode.saved ELSE screen
      PROVE  FrontInv'
  <2>1. SavedIsScreen'
    BY <1>5 DEF SavedIsScreen
  <2>2. ASSUME phase' # "ended", ~switched'
        PROVE  screen' = "ui"
    <3>1. phase # "ended" /\ ~switched
      BY <1>5, <2>2
    <3>2. CASE mode.curterm # None
      BY <1>0, <1>5, <3>1, <3>2 DEF SavedIsScreen, Restores
    <3>3. CASE mode.curterm = None
      BY <1>0, <1>5, <3>1, <3>3 DEF SavedIsScreen, ScreenIsGivenBack, Restores
    <3> QED BY <3>2, <3>3
  <2> QED BY <2>1, <2>2 DEF FrontInv, ScreenIsGivenBack
<1>6. ASSUME Goes, CurtermEnd
      PROVE  FrontInv'
  BY <1>5, <1>6 DEF CurtermEnd
<1>7. ASSUME NEW r \in SUBSET ShellId, Select(r)
      PROVE  FrontInv'
  <2>1. SameFront /\ screen' = screen /\ Goes
    BY <1>0, <1>7 DEF Select, Modes
  <2> QED BY <1>2, <2>1
<1>8. CASE LpReload
  <2>1. CASE ~CurtermEndFaults
    BY <1>5, <1>8, <2>1 DEF LpReload, LpRuns, Running, UiMode
  <2> QED BY <1>1, <1>8, <2>1 DEF LpReload
<1>9. CASE LpGone \/ LpExit
  BY <1>1, <1>6, <1>9 DEF LpGone, LpExit, LpRuns, Running, Deinit
<1>10. ASSUME NEW m \in BOOLEAN, EndPressed(m)
       PROVE  FrontInv'
  BY <1>1, <1>2, <1>3, <1>4, <1>10 DEF EndPressed, KeyRead, LpReads, LpRuns, Running
<1>11. CASE EndReleased
  <2>1. CASE help
    BY <1>1, <1>2, <1>4, <1>11, <2>1 DEF EndReleased, KeyRead, LpReads, LpRuns, Running
  <2>2. CASE ~help
    BY <1>1, <1>6, <1>11, <2>2 DEF EndReleased, KeyRead, LpReads, LpRuns, Running
  <2> QED BY <2>1, <2>2
<1>12. CASE Redraw
  BY <1>1, <1>2, <1>4, <1>12 DEF Redraw, KeyRead, LpReads, LpRuns, Running
<1>13. CASE NoKey \/ NoRequest \/ NextPass \/ TimerNotDue
  BY <1>2, <1>3, <1>13
  DEF NoKey, NoRequest, NextPass, TimerNotDue, LpReads, LpRuns, Running
<1>14. CASE TimerDue
  BY <1>1, <1>2, <1>4, <1>14 DEF TimerDue
\* A request saves what is shown: the device's screen, out of terminal mode.
<1>15. ASSUME NEW n \in Name, phase = "special", Activate(n)
       PROVE  FrontInv'
  <2>1. /\ mode'.curterm = n /\ mode'.fb = "open" /\ mode'.saved = screen
        /\ n # None /\ switched' = (switched \/ mode.curterm # None)
    BY <1>15, LaunchpadAssumption DEF Activate, Switched
  <2> QED BY <1>0, <1>15, <2>1 DEF FrontInv, SavedIsScreen, ScreenIsGivenBack
<1>16. ASSUME NEW n \in Name, SwitchTo(n) \/ OpenShell(n)
       PROVE  FrontInv'
  BY <1>15, <1>16 DEF SwitchTo, OpenShell, Requested
\* A request that fails leaves no screen to draw on.
<1>17. ASSUME phase = "special", mode'.curterm = mode.curterm, mode'.fb # "open",
              screen' = screen, Switched
       PROVE  FrontInv'
  BY <1>0, <1>17 DEF FrontInv, SavedIsScreen, ScreenIsGivenBack, Switched
<1>18. ASSUME NEW n \in Name, NoMemory(n) \/ NoPty(n)
       PROVE  FrontInv'
  <2>1. phase = "special" /\ ScreenLeft
    BY <1>18 DEF NoMemory, NoPty, Requested
  <2>2. mode'.curterm = mode.curterm /\ mode'.fb = "closed"
    BY <1>0, <2>1 DEF ScreenLeft, Modes
  <2> QED BY <1>17, <2>1, <2>2 DEF ScreenLeft
<1>19. ASSUME NEW n \in Name, NoScreen(n)
       PROVE  FrontInv'
  <2>1. CASE n \in Listed
    <3>1. mode'.curterm = mode.curterm /\ mode'.fb = "none"
      BY <1>0, <1>19, <2>1 DEF NoScreen, Modes
    <3> QED BY <1>17, <1>19, <2>1, <3>1 DEF NoScreen
  <2> QED BY <1>1, <1>19, <2>1 DEF NoScreen
<1>20. ASSUME NEW t \in ShellId, ShellGone(t)
       PROVE  FrontInv'
  BY <1>1, <1>2, <1>3, <1>6, <1>20 DEF ShellGone, Running
<1>21. ASSUME NEW t \in ShellId, ShellServed(t) \/ ShellExits(t)
       PROVE  FrontInv'
  BY <1>2, <1>3, <1>21 DEF ShellServed, ShellExits, Running, loop
<1>22. ASSUME NEW k \in {1, 2}, Signal(k)
       PROVE  FrontInv'
  BY <1>1, <1>2, <1>3, <1>22 DEF Signal, loop
<1>23. CASE UNCHANGED vars
  BY <1>2, <1>3, <1>23 DEF vars, loop
<1> QED
  BY <1>7, <1>8, <1>9, <1>10, <1>11, <1>12, <1>13, <1>14, <1>16, <1>18, <1>19,
     <1>20, <1>21, <1>22, <1>23
  DEF LaunchpadNext, LoopStep, LpStep, ShellStep

-----------------------------------------------------------------------------

LEMMA Inductive == LaunchpadSpec => []LaunchpadInv
<1>1. LaunchpadInv /\ [LaunchpadNext]_vars => LaunchpadInv'
  BY TypeStep, ListStep, TermStep, FrontStep DEF LaunchpadInv
<1> QED BY Initially, <1>1, PTL DEF LaunchpadSpec

(***************************************************************************)
(* Every variable keeps its range, the place mainloop() visits stays       *)
(* within the list it walks, even when that list shrinks under it.         *)
(***************************************************************************)
THEOREM LaunchpadTypeCorrect == LaunchpadSpec => []LaunchpadTypeOK
<1>1. LaunchpadInv => LaunchpadTypeOK
  BY DEF LaunchpadInv, TypeInv
<1> QED BY <1>1, Inductive, PTL

(***************************************************************************)
(* mainloop() and the handlers that link and unlink sessions never have    *)
(* one in the two lists twice, whatever is created during a visit.         *)
(***************************************************************************)
THEOREM ListsAreSound == LaunchpadSpec => []OneList
<1>1. LaunchpadInv => OneList
  BY DEF LaunchpadInv, ListInv
<1> QED BY <1>1, Inductive, PTL

(***************************************************************************)
(* The launchpad's terminals and mainloop()'s sessions refer to each other *)
(* soundly: term_dead() and term_kill() leave no pointer to freed memory.  *)
(***************************************************************************)
THEOREM TerminalsAlwaysHaveShells == LaunchpadSpec => []TerminalsHaveShells
<1>1. LaunchpadInv => TerminalsHaveShells
  BY DEF LaunchpadInv, TermInv
<1> QED BY <1>1, Inductive, PTL

(***************************************************************************)
(* fw_onoff() is balanced: the keypad is grabbed exactly while a terminal  *)
(* is current, by whichever of curterm_end()'s callers the mode ends.      *)
(***************************************************************************)
THEOREM GrabIsBalanced == LaunchpadSpec => []GrabbedInTerminalMode
<1>1. LaunchpadInv => GrabbedInTerminalMode
  BY DEF LaunchpadInv, TermInv
<1> QED BY <1>1, Inductive, PTL

(***************************************************************************)
(* launchpad_deinit() and a shell's death are the only ways a terminal     *)
(* leaves the list: no shell is left running behind a lost name.           *)
(***************************************************************************)
THEOREM ShellsAlwaysReachable == LaunchpadSpec => []ShellsAreReachable
<1>1. LaunchpadInv => ShellsAreReachable
  BY DEF LaunchpadInv, TermInv
<1> QED BY <1>1, Inductive, PTL

(***************************************************************************)
(* curterm_end() restores what process_event() saved: the device has its   *)
(* screen back, unless terminals were switched while one was shown.        *)
(***************************************************************************)
THEOREM ScreenAlwaysGivenBack == LaunchpadSpec => []ScreenIsGivenBack
<1>1. LaunchpadInv => ScreenIsGivenBack
  BY DEF LaunchpadInv, FrontInv
<1> QED BY <1>1, Inductive, PTL
=============================================================================
