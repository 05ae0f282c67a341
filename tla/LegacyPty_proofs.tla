--------------------------- MODULE LegacyPty_proofs --------------------------
(***************************************************************************)
(* The buffers of a legacy terminal for every size, everything a shell may *)
(* write and every way the kernel may cut it: keys arrive as they were     *)
(* typed, output is interpreted as it was written, and only a dead shell   *)
(* or a sequence the buffer cannot hold ends the terminal.                 *)
(***************************************************************************)
EXTENDS LegacyPty, SequenceLemmas, TLAPS

LEMMA PtyFacts ==
  /\ KMAX \in Nat /\ KMAX > 0 /\ SMAX \in Nat /\ SMAX > 1
  /\ Slack \in Nat /\ PtyRoom \in Nat
  /\ Key \subseteq Seq(Byte) /\ \A x \in Item : IsItem(x)
  /\ Item \subseteq Seq(Byte)
  BY PtyAssumption DEF IsItem

-----------------------------------------------------------------------------
(* How long the item at the head of a buffer is.                           *)

IsDigits(s, n) ==
  /\ n \in 0 .. Len(s) - 2
  /\ \A i \in 3 .. n + 2 : s[i] = "digit"
  /\ n + 2 = Len(s) \/ s[n + 3] # "digit"

LEMMA DigitsExist ==
  ASSUME NEW s \in Seq(Byte), Len(s) >= 2
  PROVE  \E n \in 0 .. Len(s) - 2 : IsDigits(s, n)
<1> DEFINE ends == {n \in 0 .. Len(s) - 2 : n + 2 = Len(s) \/ s[n + 3] # "digit"}
<1>1. Len(s) - 2 \in ends /\ ends \in SUBSET Nat
  OBVIOUS
<1>2. PICK n \in ends : \A m \in ends : n <= m
  BY <1>1, LeastOf
<1>3. ASSUME NEW i \in 3 .. n + 2 PROVE s[i] = "digit"
  <2>1. i - 3 \in 0 .. Len(s) - 2 /\ i - 3 < n /\ i - 3 + 3 = i
    OBVIOUS
  <2>2. i - 3 \notin ends
    BY <1>2, <2>1
  <2> QED  BY <2>1, <2>2
<1> QED  BY <1>3 DEF IsDigits

LEMMA DigitsUnique ==
  ASSUME NEW s \in Seq(Byte), NEW n, NEW m, IsDigits(s, n), IsDigits(s, m)
  PROVE  n = m
<1>1. n \in Nat /\ m \in Nat /\ n <= Len(s) - 2 /\ m <= Len(s) - 2
  BY DEF IsDigits
<1>2. ~ n < m
  <2> SUFFICES ASSUME n < m PROVE FALSE
    OBVIOUS
  <2>1. n + 3 \in 3 .. m + 2 /\ n + 2 # Len(s)
    BY <1>1
  <2> QED  BY <2>1 DEF IsDigits
<1>3. ~ m < n
  <2> SUFFICES ASSUME m < n PROVE FALSE
    OBVIOUS
  <2>1. m + 3 \in 3 .. n + 2 /\ m + 2 # Len(s)
    BY <1>1
  <2> QED  BY <2>1 DEF IsDigits
<1> QED  BY <1>1, <1>2, <1>3

LEMMA DigitsIs ==
  ASSUME NEW s \in Seq(Byte), Len(s) >= 2
  PROVE  IsDigits(s, Digits(s))
<1>1. \E n \in 0 .. Len(s) - 2 : IsDigits(s, n)
  BY DigitsExist
<1>2. Digits(s) = CHOOSE n \in 0 .. Len(s) - 2 : IsDigits(s, n)
  <2>1. \A n \in 0 .. Len(s) - 2 :
          IsDigits(s, n) <=> /\ \A i \in 3 .. n + 2 : s[i] = "digit"
                             /\ n + 2 = Len(s) \/ s[n + 3] # "digit"
    BY DEF IsDigits
  <2> QED  BY <2>1 DEF Digits
<1> QED  BY <1>1, <1>2

LEMMA LengthInNat ==
  ASSUME NEW s \in Seq(Byte), s # <<>>
  PROVE  Length(s) \in Nat
<1>1. Len(s) \in Nat /\ Len(s) >= 1
  OBVIOUS
<1>2. ASSUME Len(s) # 1 PROVE Digits(s) \in Nat
  <2>1. Len(s) >= 2
    <3> DEFINE n == Len(s)
    <3>1. n \in Nat /\ n >= 1 /\ n # 1
      BY <1>1, <1>2
    <3> HIDE DEF n
    <3>2. n >= 2
      BY <3>1
    <3> QED  BY <3>2 DEF n
  <2>2. IsDigits(s, Digits(s))
    BY <2>1, DigitsIs
  <2> QED  BY <1>1, <2>2 DEF IsDigits
<1>3. EscLength(s) \in Nat
  BY <1>1, <1>2 DEF EscLength, CsiLength
<1>4. DOMAIN Lead = {"L2", "L3"} /\ Lead["L2"] = 2 /\ Lead["L3"] = 3
  BY DEF Lead
<1> QED  BY <1>3, <1>4 DEF Length

Begins(t, x) == Len(t) <= Len(x) /\ \A i \in 1 .. Len(t) : t[i] = x[i]

\* A byte of no character is an item of its own.
LEMMA StrayIs ==
  /\ Stray \in Seq(Byte) /\ Len(Stray) = 1 /\ Stray[1] = "cont"
  /\ \A x : IsItem(x) /\ x[1] = "cont" => x = Stray
<1>1. "cont" \in Byte /\ "cont" # "ESC" /\ "cont" \notin DOMAIN Lead
  BY DEF Byte, Lead
<1>2. Stray \in Seq(Byte) /\ Len(Stray) = 1 /\ Stray[1] = "cont"
  BY <1>1 DEF Stray
<1>3. ASSUME NEW x, IsItem(x), x[1] = "cont" PROVE x = Stray
  <2>1. x \in Seq(Byte) /\ Len(x) # 0 /\ (Length(x) = Len(x) \/ x = Stray)
    BY <1>3 DEF IsItem
  <2>2. Length(x) = 0
    BY <1>1, <1>3 DEF Length
  <2> QED  BY <2>1, <2>2
<1> QED  BY <1>2, <1>3

\* Once an item is there, its end is seen whatever comes after it.
LEMMA LengthOfItem ==
  ASSUME NEW x, IsItem(x), x # Stray, NEW t \in Seq(Byte), Begins(x, t)
  PROVE  Length(t) = Len(x)
<1>1. /\ x \in Seq(Byte) /\ Len(x) \in Nat /\ Len(x) >= 1 /\ Len(t) \in Nat
      /\ Len(t) >= Len(x) /\ t[1] = x[1] /\ Length(x) = Len(x)
  BY DEF IsItem, Begins
<1>2. DOMAIN Lead = {"L2", "L3"} /\ Lead["L2"] = 2 /\ Lead["L3"] = 3
  BY DEF Lead
<1>3. CASE x[1] = "ESC"
  <2>1. EscLength(x) = Len(x) /\ Length(t) = EscLength(t)
    BY <1>1, <1>2, <1>3 DEF Length
  <2>2. Len(x) >= 2 /\ t[2] = x[2]
    BY <1>1, <2>1 DEF EscLength, Begins
  <2>3. CASE x[2] = "["
    <3> DEFINE n == Digits(x)
    <3>1. CsiLength(x) = Len(x) /\ EscLength(t) = CsiLength(t)
      BY <1>1, <2>1, <2>2, <2>3 DEF EscLength
    <3>2. IsDigits(x, n)
      BY <1>1, <2>2, DigitsIs
    <3>3. n \in Nat /\ n + 2 # Len(x) /\ n + 3 = Len(x)
      BY <1>1, <2>2, <3>1, <3>2 DEF CsiLength, IsDigits
    <3>4. IsDigits(t, n)
      <4> HIDE DEF n
      <4> QED  BY <1>1, <3>2, <3>3 DEF IsDigits, Begins
    <3>5. Digits(t) = n
      BY <1>1, <2>2, <3>4, DigitsIs, DigitsUnique
    <3> QED  BY <1>1, <2>1, <3>1, <3>3, <3>5 DEF CsiLength
  <2> QED  BY <1>1, <2>1, <2>2, <2>3 DEF EscLength
<1> QED  BY <1>1, <1>2, <1>3 DEF Length

\* Before that it waits, or reads on behind the end.
LEMMA LengthOfPart ==
  ASSUME NEW x, IsItem(x), NEW t \in Seq(Byte), t # <<>>, Begins(t, x), Len(t) < Len(x)
  PROVE  Length(t) = 0 \/ Overrun(t)
<1>1. /\ x \in Seq(Byte) /\ Len(x) \in Nat /\ Len(t) >= 1 /\ Len(t) \in Nat
      /\ t[1] = x[1] /\ Length(x) = Len(x)
  <2>1. /\ x \in Seq(Byte) /\ Len(x) \in Nat /\ Len(t) >= 1 /\ Len(t) \in Nat
        /\ t[1] = x[1] /\ (Length(x) = Len(x) \/ x = Stray)
    BY DEF IsItem, Begins
  <2>2. x # Stray
    BY <2>1, StrayIs
  <2> QED  BY <2>1, <2>2
<1>2. DOMAIN Lead = {"L2", "L3"} /\ Lead["L2"] = 2 /\ Lead["L3"] = 3
  BY DEF Lead
<1>3. CASE x[1] = "ESC"
  <2>1. EscLength(x) = Len(x) /\ Length(t) = EscLength(t)
    BY <1>1, <1>2, <1>3 DEF Length
  <2>2. CASE ~ Len(t) >= 2
    <3> DEFINE n == Len(t)
    <3>1. n \in Nat /\ n >= 1 /\ ~ n >= 2
      BY <1>1, <2>2
    <3> HIDE DEF n
    <3>2. n = 1
      BY <3>1
    <3> QED  BY <2>1, <3>2 DEF EscLength, n
  <2>3. CASE Len(t) >= 2
    <3>0. t[2] = x[2]
      BY <1>1, <2>3 DEF Begins
    <3>1. CASE x[2] = "["
      <4> DEFINE n == Digits(x)
                 k == Len(t) - 2
      <4>1. CsiLength(x) = Len(x) /\ EscLength(t) = CsiLength(t)
        BY <1>1, <2>1, <2>3, <3>0, <3>1 DEF EscLength
      <4>2. IsDigits(x, n)
        BY <1>1, <2>3, DigitsIs
      <4>3. n \in Nat /\ n + 3 = Len(x) /\ k \in Nat /\ k <= n /\ k + 2 = Len(t)
        BY <1>1, <2>3, <4>1, <4>2 DEF CsiLength, IsDigits
      <4>4. IsDigits(t, k)
        <5> HIDE DEF n, k
        <5> QED  BY <1>1, <4>2, <4>3 DEF IsDigits, Begins
      <4>5. Digits(t) = k
        BY <2>3, <4>4, DigitsIs, DigitsUnique
      <4> QED  BY <2>1, <4>1, <4>3, <4>5 DEF CsiLength
    <3> QED  BY <1>1, <2>1, <2>3, <3>0, <3>1 DEF EscLength, Overrun
  <2> QED  BY <2>2, <2>3
<1>4. CASE x[1] # "ESC"
  <2>1. x[1] \in DOMAIN Lead /\ Lead[x[1]] = Len(x)
    BY <1>1, <1>2, <1>4 DEF Length
  <2>2. t[1] \in DOMAIN Lead /\ Len(t) < Lead[t[1]] /\ t[1] # "ESC"
    BY <1>1, <1>4, <2>1
  <2>3. Length(t) = IF Len(t) < Lead[t[1]] THEN 0 ELSE Lead[t[1]]
    BY <1>2, <2>2 DEF Length
  <2> QED  BY <2>2, <2>3
<1> QED  BY <1>3, <1>4

-----------------------------------------------------------------------------
(* A sequence without some of its elements.                                *)

Next1(f, x, v) == IF x = v THEN f ELSE Append(f, x)

KeptTo(g, s, v, n) ==
  g = [i \in 0 .. n |-> IF i = 0 THEN <<>> ELSE Next1(g[i - 1], s[i], v)]

LEMMA KeptAt ==
  ASSUME NEW s, NEW v, NEW g, NEW n \in Nat, KeptTo(g, s, v, n)
  PROVE  /\ g[0] = <<>>
         /\ \A k \in Nat : k < n => g[k + 1] = Next1(g[k], s[k + 1], v)
<1> DEFINE e(j) == IF j = 0 THEN <<>> ELSE Next1(g[j - 1], s[j], v)
<1>1. g = [j \in 0 .. n |-> e(j)]
  BY DEF KeptTo
<1> HIDE DEF e
<1>2. g[0] = e(0)
  BY <1>1
<1>3. ASSUME NEW k \in Nat, k < n PROVE g[k + 1] = Next1(g[k], s[k + 1], v)
  <2>1. k + 1 \in 0 .. n /\ k + 1 # 0 /\ k + 1 - 1 = k
    BY <1>3
  <2>2. g[k + 1] = e(k + 1)
    BY <1>1, <2>1
  <2> QED  BY <2>1, <2>2 DEF e
<1> QED  BY <1>2, <1>3 DEF e

\* The same, to build one.
LEMMA KeptFrom ==
  ASSUME NEW s, NEW v, NEW n \in Nat, NEW g, g = [i \in 0 .. n |-> g[i]], g[0] = <<>>,
         \A k \in Nat : k < n => g[k + 1] = Next1(g[k], s[k + 1], v)
  PROVE  KeptTo(g, s, v, n)
<1> DEFINE e(j) == IF j = 0 THEN <<>> ELSE Next1(g[j - 1], s[j], v)
<1>1. ASSUME NEW i \in 0 .. n PROVE g[i] = e(i)
  <2>1. CASE i = 0
    BY <2>1
  <2>2. CASE i # 0
    <3>1. i - 1 \in Nat /\ i - 1 < n /\ i - 1 + 1 = i
      BY <2>2
    <3>2. g[i] = Next1(g[i - 1], s[i], v)
      BY <3>1
    <3> QED  BY <2>2, <3>2
  <2> QED  BY <2>1, <2>2
<1>2. g = [i \in 0 .. n |-> e(i)]
  <2> HIDE DEF e
  <2> QED  BY <1>1
<1> QED  BY <1>2 DEF KeptTo

LEMMA KeptExists ==
  ASSUME NEW s, NEW v, NEW n \in Nat
  PROVE  \E g : KeptTo(g, s, v, n)
<1> DEFINE To(g, n0) == /\ g = [i \in 0 .. n0 |-> g[i]] /\ g[0] = <<>>
                        /\ \A k \in Nat : k < n0 => g[k + 1] = Next1(g[k], s[k + 1], v)
           T == {n0 \in Nat : \E g : To(g, n0)}
<1>1. 0 \in T
  <2>1. To([i \in 0 .. 0 |-> <<>>], 0)
    OBVIOUS
  <2> HIDE DEF To
  <2> QED  BY <2>1
<1>2. ASSUME NEW m \in Nat, m \in T PROVE m + 1 \in T
  <2>1. PICK g : To(g, m)
    BY <1>2
  <2> DEFINE e == Next1(g[m], s[m + 1], v)
             h == [i \in 0 .. m + 1 |-> IF i = m + 1 THEN e ELSE g[i]]
  <2>2. h = [i \in 0 .. m + 1 |-> h[i]] /\ h[0] = <<>>
    <3> HIDE DEF e
    <3> QED  BY <2>1
  <2>3. ASSUME NEW k \in Nat, k < m + 1 PROVE h[k + 1] = Next1(h[k], s[k + 1], v)
    <3>1. CASE k = m
      <4>1. h[k + 1] = e /\ h[k] = g[k]
        <5> HIDE DEF e
        <5> QED  BY <3>1
      <4> HIDE DEF h
      <4> QED  BY <3>1, <4>1
    <3>2. CASE k # m
      <4>1. k < m /\ h[k + 1] = g[k + 1] /\ h[k] = g[k]
        <5> HIDE DEF e
        <5> QED  BY <2>3, <3>2
      <4> HIDE DEF h
      <4> QED  BY <2>1, <4>1
    <3> QED  BY <3>1, <3>2
  <2>4. To(h, m + 1)
    <3> HIDE DEF h
    <3> QED  BY <2>2, <2>3
  <2> HIDE DEF To, h
  <2> QED  BY <2>4
<1>3. n \in T
  <2> HIDE DEF T
  <2> QED  BY <1>1, <1>2, Counting
<1>4. PICK g : To(g, n)
  BY <1>3
<1>5. KeptTo(g, s, v, n)
  BY <1>4, KeptFrom
<1> QED  BY <1>5

LEMMA KeptAgree ==
  ASSUME NEW s, NEW t, NEW v, NEW g, NEW h, NEW n \in Nat, NEW m \in Nat, n <= m,
         \A i \in 1 .. n : s[i] = t[i], KeptTo(g, s, v, n), KeptTo(h, t, v, m)
  PROVE  \A i \in 0 .. n : g[i] = h[i]
<1> DEFINE T == {k \in Nat : k \in 0 .. n => g[k] = h[k]}
<1>1. 0 \in T
  <2>1. g[0] = <<>> /\ h[0] = <<>>
    BY KeptAt
  <2> QED  BY <2>1
<1>2. ASSUME NEW k \in Nat, k \in T PROVE k + 1 \in T
  <2>1. CASE k + 1 \in 0 .. n
    <3>1. k < n /\ k < m /\ s[k + 1] = t[k + 1] /\ k \in 0 .. n
      BY <2>1
    <3>2. g[k + 1] = Next1(g[k], s[k + 1], v)
      BY <3>1, KeptAt
    <3>3. h[k + 1] = Next1(h[k], t[k + 1], v)
      BY <3>1, KeptAt
    <3>4. g[k] = h[k]
      BY <1>2, <3>1
    <3> QED  BY <3>1, <3>2, <3>3, <3>4
  <2>2. CASE k + 1 \notin 0 .. n
    BY <2>2
  <2> QED  BY <2>1, <2>2
<1> HIDE DEF T
<1>3. \A k \in Nat : k \in T
  BY <1>1, <1>2, Counting
<1> QED  BY <1>3 DEF T

LEMMA WithoutIs ==
  ASSUME NEW s, NEW v, NEW g, Len(s) \in Nat, KeptTo(g, s, v, Len(s))
  PROVE  Without(s, v) = g[Len(s)]
<1> DEFINE c == CHOOSE f : KeptTo(f, s, v, Len(s))
<1>1. KeptTo(c, s, v, Len(s))
  OBVIOUS
<1>2. Without(s, v) = c[Len(s)]
  BY DEF Without, KeptTo, Next1
<1> HIDE DEF c
<1>3. \A i \in 0 .. Len(s) : c[i] = g[i]
  BY <1>1, KeptAgree
<1> QED  BY <1>2, <1>3

\* What the first k elements of s leave.
First(s, k, v) == Without(SubSeq(s, 1, k), v)

LEMMA FirstIs ==
  ASSUME NEW S, NEW s \in Seq(S), NEW v, NEW g, NEW n \in Nat, n = Len(s),
         KeptTo(g, s, v, n), NEW k \in 0 .. n
  PROVE  First(s, k, v) = g[k]
<1> DEFINE r == SubSeq(s, 1, k)
<1>1. r \in Seq(S) /\ Len(r) = k /\ k \in Nat /\ k <= n /\ \A i \in 1 .. k : r[i] = s[i]
  OBVIOUS
<1> HIDE DEF r
<1>2. PICK h : KeptTo(h, r, v, k)
  BY <1>1, KeptExists
<1>3. Without(r, v) = h[k]
  BY <1>1, <1>2, WithoutIs
<1>4. \A i \in 0 .. k : h[i] = g[i]
  BY <1>1, <1>2, KeptAgree
<1> QED  BY <1>1, <1>3, <1>4 DEF First, r

LEMMA FirstSteps ==
  ASSUME NEW S, NEW s \in Seq(S), NEW v
  PROVE  /\ First(s, 0, v) = <<>>
         /\ First(s, Len(s), v) = Without(s, v)
         /\ \A k \in Nat : k < Len(s) => First(s, k + 1, v) = Next1(First(s, k, v), s[k + 1], v)
<1> DEFINE n == Len(s)
<1>1. n \in Nat /\ n = Len(s) /\ SubSeq(s, 1, n) = s
  OBVIOUS
<1> HIDE DEF n
<1>2. PICK g : KeptTo(g, s, v, n)
  BY <1>1, KeptExists
<1>3. \A k \in 0 .. n : First(s, k, v) = g[k]
  BY <1>1, <1>2, FirstIs
<1>4. First(s, 0, v) = <<>>
  <2>1. 0 \in 0 .. n
    BY <1>1
  <2>2. g[0] = <<>>
    BY <1>1, <1>2, KeptAt
  <2> QED  BY <1>3, <2>1, <2>2
<1>5. First(s, n, v) = Without(s, v)
  BY <1>1 DEF First
<1>6. ASSUME NEW k \in Nat, k < n
      PROVE  First(s, k + 1, v) = Next1(First(s, k, v), s[k + 1], v)
  <2>1. k \in 0 .. n /\ k + 1 \in 0 .. n
    BY <1>1, <1>6
  <2>2. g[k + 1] = Next1(g[k], s[k + 1], v)
    BY <1>1, <1>2, <1>6, KeptAt
  <2>3. First(s, k + 1, v) = g[k + 1] /\ First(s, k, v) = g[k]
    BY <1>3, <2>1
  <2> QED  BY <2>2, <2>3
<1> QED  BY <1>1, <1>4, <1>5, <1>6

LEMMA FirstType ==
  ASSUME NEW S, NEW s \in Seq(S), NEW v
  PROVE  \A k \in 0 .. Len(s) : First(s, k, v) \in Seq(S)
<1> DEFINE T == {k \in Nat : k \in 0 .. Len(s) => First(s, k, v) \in Seq(S)}
<1>1. 0 \in T
  <2>1. First(s, 0, v) = <<>>
    BY FirstSteps
  <2>2. <<>> \in Seq(S)
    OBVIOUS
  <2> QED  BY <2>1, <2>2
<1>2. ASSUME NEW k \in Nat, k \in T PROVE k + 1 \in T
  <2> SUFFICES ASSUME k + 1 \in 0 .. Len(s) PROVE First(s, k + 1, v) \in Seq(S)
    OBVIOUS
  <2>1. k \in 0 .. Len(s) /\ k + 1 \in 1 .. Len(s) /\ k < Len(s)
    OBVIOUS
  <2>2. First(s, k, v) \in Seq(S) /\ s[k + 1] \in S
    BY <1>2, <2>1
  <2>3. First(s, k + 1, v) = Next1(First(s, k, v), s[k + 1], v)
    BY <2>1, FirstSteps
  <2>4. Append(First(s, k, v), s[k + 1]) \in Seq(S)
    BY <2>2
  <2> QED  BY <2>2, <2>3, <2>4 DEF Next1
<1> HIDE DEF T
<1>3. \A k \in Nat : k \in T
  BY <1>1, <1>2, Counting
<1> QED  BY <1>3 DEF T

LEMMA FirstOfAppend ==
  ASSUME NEW S, NEW s \in Seq(S), NEW x \in S, NEW v, NEW k \in 0 .. Len(s)
  PROVE  First(Append(s, x), k, v) = First(s, k, v)
<1>1. SubSeq(Append(s, x), 1, k) = SubSeq(s, 1, k)
  OBVIOUS
<1> QED  BY <1>1 DEF First

Joins(a, b, c) == Append(a \o b, c) = a \o Append(b, c)

LEMMA AppendOfConcat ==
  ASSUME NEW S, NEW a \in Seq(S), NEW b \in Seq(S), NEW c \in S
  PROVE  Joins(a, b, c)
  BY DEF Joins

\* What the beginning leaves begins what the whole leaves.
LEMMA FirstBegins ==
  ASSUME NEW S, NEW s \in Seq(S), NEW v, NEW m \in 0 .. Len(s)
  PROVE  IsPrefix(First(s, m, v), Without(s, v))
<1>00. PICK f : f = First(s, m, v)
  OBVIOUS
<1> DEFINE Longer(k) == \E u \in Seq(S) : First(s, k, v) = f \o u
           T == {k \in Nat : m + k <= Len(s) => Longer(m + k)}
<1>0. f \in Seq(S)
  BY <1>00, FirstType
<1>1. 0 \in T
  <2>1. <<>> \in Seq(S) /\ f \o <<>> = f /\ m + 0 = m
    BY <1>0
  <2> QED  BY <1>00, <2>1
<1>2. ASSUME NEW k \in Nat, k \in T PROVE k + 1 \in T
  <2> SUFFICES ASSUME m + (k + 1) <= Len(s) PROVE Longer(m + (k + 1))
    OBVIOUS
  <2> DEFINE j == m + k
  <2>1. j \in Nat /\ j < Len(s) /\ j + 1 \in 1 .. Len(s) /\ m + (k + 1) = j + 1
    OBVIOUS
  <2>2. PICK u \in Seq(S) : First(s, j, v) = f \o u
    BY <1>2, <2>1
  <2> DEFINE x == s[j + 1]
  <2> HIDE DEF j
  <2>3. First(s, j + 1, v) = Next1(f \o u, s[j + 1], v)
    BY <2>1, <2>2, FirstSteps
  <2>4. s[j + 1] \in S
    BY <2>1
  <2>6. Longer(j + 1)
    <3>1. PICK c \in S : c = s[j + 1]
      BY <2>4
    <3>2. Append(u, c) \in Seq(S)
      BY AppendProperties
    <3>3. Joins(f, u, c)
      BY <1>0, AppendOfConcat
    <3> QED  BY <2>3, <3>1, <3>2, <3>3 DEF Next1, Joins
  <2> QED  BY <2>1, <2>6
<1> HIDE DEF T
<1>3. Len(s) - m \in T
  <2>1. Len(s) - m \in Nat
    OBVIOUS
  <2> QED  BY <1>1, <1>2, <2>1, Counting
<1>4. PICK u \in Seq(S) : Without(s, v) = f \o u
  <2>1. m + (Len(s) - m) = Len(s)
    OBVIOUS
  <2>2. Longer(Len(s))
    BY <1>3, <2>1 DEF T
  <2> QED  BY <2>2, FirstSteps
<1>5. Len(f \o u) >= Len(f) /\ SubSeq(f, 1, Len(f)) = SubSeq(f \o u, 1, Len(f))
  BY <1>0
<1> QED  BY <1>00, <1>4, <1>5 DEF IsPrefix

-----------------------------------------------------------------------------
(* The loop of page_append().                                              *)

Then(item, more) == [items |-> <<item>> \o more.items, rest |-> more.rest]

Take(s, f, i) ==
  IF i > Len(s) THEN [items |-> <<>>, rest |-> <<>>]
  ELSE LET t == SubSeq(s, i, Len(s))
       IN  IF Broken(t) /\ i - 1 <= Slack
             THEN Then(IF t[1] = "cont" THEN Stray ELSE <<"fffd">>, f[i + 1])
           ELSE IF Overrun(t) THEN [items |-> <<<<"stale">>>>, rest |-> <<>>]
           ELSE IF Length(t) = 0 THEN [items |-> <<>>, rest |-> t]
           ELSE Then(SubSeq(t, 1, Length(t)), f[i + Length(t)])

FromOf(f, s) == f = [i \in 1 .. Len(s) + 1 |-> Take(s, f, i)]

\* A step of the loop looks only at what comes after it.
LEMMA TakeDepends ==
  ASSUME NEW s \in Seq(Byte), NEW f, NEW g, NEW i \in 1 .. Len(s) + 1,
         \A j \in i + 1 .. Len(s) + 1 : f[j] = g[j]
  PROVE  Take(s, f, i) = Take(s, g, i)
<1>1. CASE i > Len(s)
  BY <1>1 DEF Take
<1>2. CASE ~ i > Len(s)
  <2> DEFINE t == SubSeq(s, i, Len(s))
  <2>0. i \in 1 .. Len(s) /\ Len(s) - i + 1 # 0
    BY <1>2
  <2>1. t \in Seq(Byte) /\ t # <<>> /\ Len(t) = Len(s) - i + 1 /\ i \in 1 .. Len(s)
    <3>1. t \in Seq(Byte) /\ Len(t) = Len(s) - i + 1
      BY FromIs DEF From
    <3> QED  BY <2>0, <3>1
  <2>2. Length(t) \in Nat
    BY <2>1, LengthInNat
  <2>3. f[i + 1] = g[i + 1]
    BY <2>1
  <2>4. ~ Overrun(t) /\ Length(t) # 0 => f[i + Length(t)] = g[i + Length(t)]
    <3> SUFFICES ASSUME ~ Overrun(t), Length(t) # 0
                 PROVE  i + Length(t) \in i + 1 .. Len(s) + 1
      OBVIOUS
    <3> DEFINE n == Length(t)
    <3>1. n \in Nat /\ n # 0 /\ ~ n > Len(t)
      BY <2>2 DEF Overrun
    <3> HIDE DEF n
    <3>2. i + n \in i + 1 .. Len(s) + 1
      BY <2>1, <3>1
    <3> QED  BY <3>2 DEF n
  <2> HIDE DEF t
  <2> QED  BY <1>2, <2>3, <2>4 DEF Take, t
<1> QED  BY <1>1, <1>2

LEMMA FromExists ==
  ASSUME NEW s \in Seq(Byte)
  PROVE  \E f : FromOf(f, s)
<1> DEFINE N == Len(s) + 1
           To(g, k) == /\ g = [i \in 1 .. N |-> g[i]]
                       /\ \A i \in 1 .. N : i + k > N => g[i] = Take(s, g, i)
           T == {k \in Nat : \E g : To(g, k)}
<1>0. N \in Nat /\ N = Len(s) + 1
  OBVIOUS
<1> HIDE DEF N
<1>1. 0 \in T
  <2>1. To([i \in 1 .. N |-> 0], 0)
    BY <1>0
  <2> HIDE DEF To
  <2> QED  BY <2>1
<1>2. ASSUME NEW k \in Nat, k \in T PROVE k + 1 \in T
  <2>1. PICK g : To(g, k)
    BY <1>2
  <2> DEFINE e == Take(s, g, N - k)
             h == [i \in 1 .. N |-> IF i = N - k THEN e ELSE g[i]]
  <2>2. h = [i \in 1 .. N |-> h[i]]
    OBVIOUS
  <2>3. ASSUME NEW i \in 1 .. N, i + (k + 1) > N PROVE h[i] = Take(s, h, i)
    <3>1. \A j \in i + 1 .. N : g[j] = h[j]
      <4> HIDE DEF e
      <4> QED  BY <1>0, <2>3
    <3>2. Take(s, g, i) = Take(s, h, i)
      <4> HIDE DEF h
      <4> QED  BY <1>0, <3>1, TakeDepends
    <3>3. h[i] = Take(s, g, i)
      <4>1. CASE i = N - k
        BY <4>1
      <4>2. CASE i # N - k
        <5>1. i + k > N
          BY <1>0, <2>3, <4>2
        <5>2. g[i] = Take(s, g, i)
          BY <2>1, <5>1
        <5>3. h[i] = g[i]
          <6> HIDE DEF e
          <6> QED  BY <4>2
        <5> QED  BY <5>2, <5>3
      <4> QED  BY <4>1, <4>2
    <3> QED  BY <3>2, <3>3
  <2>4. To(h, k + 1)
    <3> HIDE DEF h
    <3> QED  BY <2>2, <2>3
  <2> HIDE DEF To, h
  <2> QED  BY <2>4
<1>3. N \in T
  <2> HIDE DEF T
  <2> QED  BY <1>0, <1>1, <1>2, Counting
<1>4. PICK f : To(f, N)
  BY <1>3
<1>5. \A i \in 1 .. N : f[i] = Take(s, f, i)
  BY <1>0, <1>4
<1>6. f = [i \in 1 .. N |-> Take(s, f, i)]
  BY <1>4, <1>5
<1> QED  BY <1>6 DEF FromOf, N

LEMMA PageAppendIs ==
  ASSUME NEW s \in Seq(Byte)
  PROVE  \E f : FromOf(f, s) /\ PageAppend(s) = f[1]
<1> DEFINE c == CHOOSE f : FromOf(f, s)
<1>1. FromOf(c, s)
  BY FromExists
<1>2. PageAppend(s) = c[1]
  BY DEF PageAppend, FromOf, Take, Then
<1> HIDE DEF c
<1> QED  BY <1>1, <1>2

\* What the loop does at i.
LEMMA FromAt ==
  ASSUME NEW s \in Seq(Byte), NEW f, FromOf(f, s), NEW i \in 1 .. Len(s) + 1
  PROVE  f[i] = Take(s, f, i)
<1> DEFINE e(j) == Take(s, f, j)
<1>1. f = [j \in 1 .. Len(s) + 1 |-> e(j)]
  BY DEF FromOf
<1> HIDE DEF e
<1>2. f[i] = e(i)
  BY <1>1
<1> QED  BY <1>2 DEF e

LEMMA FromCases ==
  ASSUME NEW s \in Seq(Byte), NEW f, FromOf(f, s), NEW i \in 1 .. Len(s)
  PROVE  \/ f[i] = Then(<<"fffd">>, f[i + 1])
         \/ /\ From(s, i)[1] = "cont"
            /\ f[i] = Then(Stray, f[i + 1])
         \/ /\ Overrun(From(s, i))
            /\ f[i] = [items |-> <<<<"stale">>>>, rest |-> <<>>]
         \/ /\ Length(From(s, i)) = 0 /\ ~ (Broken(From(s, i)) /\ i - 1 <= Slack)
            /\ f[i] = [items |-> <<>>, rest |-> From(s, i)]
         \/ /\ Length(From(s, i)) \in 1 .. Len(From(s, i))
            /\ f[i] = Then(SubSeq(From(s, i), 1, Length(From(s, i))),
                           f[i + Length(From(s, i))])
<1> DEFINE t == From(s, i)
<1>1. i \in 1 .. Len(s) + 1 /\ ~ i > Len(s) /\ Len(s) - i + 1 # 0
  OBVIOUS
<1>2. t \in Seq(Byte) /\ t # <<>>
  <2>1. t \in Seq(Byte) /\ Len(t) = Len(s) - i + 1
    BY <1>1, FromIs
  <2> QED  BY <1>1, <2>1
<1>3. f[i] = Take(s, f, i)
  BY <1>1, FromAt
<1>4. f[i] = IF Broken(t) /\ i - 1 <= Slack
               THEN Then(IF t[1] = "cont" THEN Stray ELSE <<"fffd">>, f[i + 1])
             ELSE IF Overrun(t) THEN [items |-> <<<<"stale">>>>, rest |-> <<>>]
             ELSE IF Length(t) = 0 THEN [items |-> <<>>, rest |-> t]
             ELSE Then(SubSeq(t, 1, Length(t)), f[i + Length(t)])
  BY <1>1, <1>3 DEF Take, From
<1>5. ~ Overrun(t) /\ Length(t) # 0 => Length(t) \in 1 .. Len(t)
  <2> DEFINE n == Length(t)
  <2>1. n \in Nat /\ Len(t) \in Nat
    BY <1>2, LengthInNat
  <2> HIDE DEF n
  <2>2. ~ n > Len(t) /\ n # 0 => n \in 1 .. Len(t)
    BY <2>1
  <2> QED  BY <2>2 DEF n, Overrun
<1> HIDE DEF t
<1> QED  BY <1>4, <1>5 DEF t

\* What is kept waits for more, and comes late in the buffer or with ESC.
LEMMA RestWaits ==
  ASSUME NEW s \in Seq(Byte), NEW f, FromOf(f, s)
  PROVE  \E j \in 1 .. Len(s) + 1 :
           /\ f[1].rest = From(s, j)
           /\ j # Len(s) + 1 =>
                Length(From(s, j)) = 0 /\ ~ (Broken(From(s, j)) /\ j - 1 <= Slack)
<1> DEFINE N == Len(s) + 1
           Waits(j) == Length(From(s, j)) = 0 /\ ~ (Broken(From(s, j)) /\ j - 1 <= Slack)
           R(i) == \E j \in i .. N : f[i].rest = From(s, j) /\ (j # N => Waits(j))
           Q == {i \in 1 .. N : R(i)}
<1>0. N \in Nat /\ N = Len(s) + 1 /\ From(s, N) = <<>> /\ 1 \in 1 .. N
  BY FromEmpty
<1> HIDE DEF N
<1>1. ASSUME NEW i \in 1 .. N, \A j \in i + 1 .. N : j \in Q PROVE i \in Q
  <2>1. CASE i = N
    <3>1. f[i].rest = <<>>
      <4>1. f[i] = Take(s, f, i) /\ i > Len(s)
        BY <1>0, <2>1, FromAt
      <4> QED  BY <4>1 DEF Take
    <3> QED  BY <1>0, <2>1, <3>1
  <2>2. CASE i # N
    <3>1. i \in 1 .. Len(s) /\ N \in i .. N /\ i \in i .. N
      BY <1>0, <2>2
    <3>2. Len(From(s, i)) = N - i
      <4>1. i \in 1 .. Len(s) + 1 /\ Len(s) \in Nat /\ Len(s) - i + 1 = N - i
        BY <1>0, <3>1
      <4> QED  BY <4>1, FromIs
    <3>3. CASE f[i] = Then(<<"fffd">>, f[i + 1]) \/ f[i] = Then(Stray, f[i + 1])
      <4>1. i + 1 \in i + 1 .. N
        BY <1>0, <3>1
      <4>2. R(i + 1)
        BY <1>1, <4>1
      <4>3. f[i].rest = f[i + 1].rest
        BY <3>3 DEF Then
      <4> QED  BY <4>2, <4>3, <1>0
    <3>4. CASE f[i] = [items |-> <<<<"stale">>>>, rest |-> <<>>]
      BY <1>0, <3>1, <3>4
    <3>5. CASE /\ Length(From(s, i)) = 0 /\ ~ (Broken(From(s, i)) /\ i - 1 <= Slack)
               /\ f[i] = [items |-> <<>>, rest |-> From(s, i)]
      BY <3>1, <3>5
    <3>6. CASE /\ Length(From(s, i)) \in 1 .. Len(From(s, i))
               /\ f[i] = Then(SubSeq(From(s, i), 1, Length(From(s, i))),
                              f[i + Length(From(s, i))])
      <4> DEFINE k == i + Length(From(s, i))
      <4>1. k \in i + 1 .. N
        <5>1. PICK n \in 1 .. Len(From(s, i)) : n = Length(From(s, i))
          BY <3>6
        <5>2. i + n \in i + 1 .. N
          BY <1>0, <3>1, <3>2, <5>1
        <5> QED  BY <5>1, <5>2
      <4>2. f[i].rest = f[k].rest
        BY <3>6 DEF Then
      <4> HIDE DEF k
      <4>3. R(k)
        BY <1>1, <4>1
      <4>4. \A j \in k .. N : j \in i .. N
        BY <1>0, <3>1, <4>1
      <4> QED  BY <4>2, <4>3, <4>4
    <3> QED  BY <3>1, <3>3, <3>4, <3>5, <3>6, FromCases
  <2> QED  BY <2>1, <2>2
<1> HIDE DEF Q
<1>2. 1 \in Q
  BY <1>0, <1>1, Descending
<1> QED  BY <1>2 DEF Q, N

Taken == Seq(Byte) \cup {<<"fffd">>, <<"stale">>}

LEMMA ItemsType ==
  ASSUME NEW s \in Seq(Byte), NEW f, FromOf(f, s)
  PROVE  \A i \in 1 .. Len(s) + 1 : f[i].items \in Seq(Taken)
<1> DEFINE N == Len(s) + 1
           X == Taken
           Q == {i \in 1 .. N : f[i].items \in Seq(X)}
<1>0. N \in Nat /\ N = Len(s) + 1
  OBVIOUS
<1>2. <<"fffd">> \in X /\ <<"stale">> \in X
  BY DEF Taken
<1>5. <<>> \in Seq(X)
  <2> HIDE DEF X
  <2> QED  OBVIOUS
<1>6. ASSUME NEW x \in X PROVE <<x>> \in Seq(X)
  <2> HIDE DEF X
  <2> QED  OBVIOUS
<1> HIDE DEF N
<1>1. ASSUME NEW i \in 1 .. N, \A j \in i + 1 .. N : j \in Q PROVE i \in Q
  <2>0. ASSUME NEW x \in X, NEW more, more.items \in Seq(X)
        PROVE  Then(x, more).items \in Seq(X)
    <3> HIDE DEF X
    <3>1. <<x>> \o more.items \in Seq(X)
      BY <2>0
    <3> QED  BY <3>1 DEF Then
  <2>1. CASE i = N
    <3>1. f[i] = Take(s, f, i) /\ i > Len(s)
      BY <1>0, <2>1, FromAt
    <3>2. f[i].items = <<>>
      BY <3>1 DEF Take
    <3>3. f[i].items \in Seq(X)
      BY <1>5, <3>2
    <3> HIDE DEF X
    <3> QED  BY <3>3
  <2>2. CASE i # N
    <3>1. i \in 1 .. Len(s) /\ i + 1 \in i + 1 .. N
      BY <1>0, <2>2
    <3>2. Len(From(s, i)) = N - i /\ From(s, i) \in Seq(Byte)
      <4>1. i \in 1 .. Len(s) + 1 /\ Len(s) \in Nat /\ Len(s) - i + 1 = N - i
        BY <1>0, <3>1
      <4> QED  BY <4>1, FromIs
    <3>3. CASE f[i] = Then(<<"fffd">>, f[i + 1]) \/ f[i] = Then(Stray, f[i + 1])
      <4>1. Stray \in X
        BY StrayIs DEF Taken
      <4> HIDE DEF X
      <4> QED  BY <1>1, <1>2, <2>0, <3>1, <3>3, <4>1
    <3>4. CASE f[i] = [items |-> <<<<"stale">>>>, rest |-> <<>>]
      <4>1. <<<<"stale">>>> \in Seq(X)
        BY <1>2, <1>6
      <4>2. f[i].items \in Seq(X)
        BY <3>4, <4>1
      <4> HIDE DEF X
      <4> QED  BY <4>2
    <3>5. CASE f[i] = [items |-> <<>>, rest |-> From(s, i)]
      <4>1. f[i].items \in Seq(X)
        BY <1>5, <3>5
      <4> HIDE DEF X
      <4> QED  BY <4>1
    <3>6. CASE /\ Length(From(s, i)) \in 1 .. Len(From(s, i))
               /\ f[i] = Then(SubSeq(From(s, i), 1, Length(From(s, i))),
                              f[i + Length(From(s, i))])
      <4> DEFINE n == Length(From(s, i))
                 t == From(s, i)
                 x == SubSeq(t, 1, n)
      <4>1. n \in 1 .. Len(t) /\ t \in Seq(Byte) /\ Len(t) = N - i
        BY <3>2, <3>6
      <4>2. f[i] = Then(x, f[i + n])
        BY <3>6
      <4> HIDE DEF n, t
      <4>3. i + n \in i + 1 .. N
        BY <1>0, <3>1, <4>1
      <4>4. x \in X
        <5>1. x \in Seq(Byte)
          BY <4>1
        <5> QED  BY <5>1 DEF Taken
      <4> HIDE DEF x, X
      <4> QED  BY <1>1, <2>0, <4>2, <4>3, <4>4
    <3> QED  BY <3>1, <3>3, <3>4, <3>5, <3>6, FromCases
  <2> QED  BY <2>1, <2>2
<1> HIDE DEF Q
<1>3. \A i \in 1 .. N : i \in Q
  BY <1>0, <1>1, Descending
<1> QED  BY <1>3 DEF Q, N

-----------------------------------------------------------------------------
(* Output cut anywhere.                                                    *)

Written(W) == W \in Seq(Seq(Byte)) /\ \A i \in 1 .. Len(W) : IsItem(W[i])

Same(a, u, x, r) == a \o u = x \o r

LEMMA NextItem ==
  ASSUME NEW W, Written(W), NEW k \in 0 .. Len(W),
         NEW a \in Seq(Byte), a # <<>>, NEW u \in Seq(Byte),
         a \o u = FlattenSeq(From(W, k + 1))
  PROVE  /\ k < Len(W) /\ IsItem(W[k + 1])
         /\ FlattenSeq(From(W, k + 2)) \in Seq(Byte)
         /\ Same(a, u, W[k + 1], FlattenSeq(From(W, k + 2)))
<1> DEFINE X == Seq(Byte)
           n == Len(W)
<1>1. W \in Seq(X) /\ n \in Nat /\ k \in Nat /\ k <= n
  BY DEF Written
<1> HIDE DEF n
<1>2. k < n
  <2> SUFFICES ASSUME ~ k < n PROVE FALSE
    OBVIOUS
  <2>1. k = n
    BY <1>1
  <2>2. From(W, k + 1) = <<>>
    <3> HIDE DEF X
    <3> QED  BY <1>1, <2>1, FromEmpty DEF n
  <2>3. a \o u = <<>>
    BY <2>2, FlatEmpty
  <2>4. Len(a \o u) = Len(a) + Len(u) /\ Len(a) # 0
    OBVIOUS
  <2> QED  BY <2>3, <2>4
<1>3. k + 1 \in 1 .. Len(W) /\ k + 1 + 1 = k + 2 /\ k + 2 \in 1 .. Len(W) + 1
  BY <1>1, <1>2 DEF n
<1>4. From(W, k + 2) \in Seq(X)
  <2> HIDE DEF X
  <2> QED  BY <1>1, <1>3, FromIs
<1>5. FlattenSeq(From(W, k + 1)) = W[k + 1] \o FlattenSeq(From(W, k + 2))
  <2> DEFINE j == k + 1
  <2>1. j \in 1 .. Len(W) /\ j + 1 = k + 2
    BY <1>3
  <2> HIDE DEF j
  <2>2. FlattenSeq(SubSeq(W, j, Len(W))) = W[j] \o FlattenSeq(SubSeq(W, j + 1, Len(W)))
    BY <1>1, <2>1, FlatFirst
  <2> QED  BY <2>1, <2>2 DEF From, j
<1>6. FlattenSeq(From(W, k + 2)) \in Seq(Byte)
  BY <1>4, FlatType
<1> QED  BY <1>2, <1>3, <1>5, <1>6 DEF Written, n, Same

\* The head of the buffer is the next item, or begins it.
HeadIs(x, r, a, u) ==
  /\ x[1] = a[1]
  /\ \/ /\ Len(x) \in 1 .. Len(a) /\ (Length(a) = Len(x) \/ x = Stray)
        /\ SubSeq(a, 1, Len(x)) = x /\ From(a, Len(x) + 1) \o u = r
     \/ Len(x) > Len(a) /\ (Length(a) = 0 \/ Overrun(a))

LEMMA HeadOfBuffer ==
  ASSUME NEW x, NEW r \in Seq(Byte), NEW a \in Seq(Byte), NEW u \in Seq(Byte),
         IsItem(x), a # <<>>, Same(a, u, x, r)
  PROVE  HeadIs(x, r, a, u)
<1>0. a \o u = x \o r
  BY DEF Same
<1>1. x \in Seq(Byte) /\ Len(x) \in Nat /\ Len(x) # 0 /\ Len(a) \in Nat /\ Len(a) # 0
  BY DEF IsItem
<1>2. CASE Len(x) <= Len(a)
  <2>1. \A i \in 1 .. Len(x) : a[i] = x[i]
    BY <1>0, <1>1, <1>2, CutTwice
  <2>2. SubSeq(a, 1, Len(x)) = x
    BY <1>0, <1>1, <1>2, CutTwice
  <2>3. From(a, Len(x) + 1) \o u = r
    <3>1. Leaves(a, Len(x) + 1, u, r)
      BY <1>0, <1>1, <1>2, CutTwice
    <3> QED  BY <3>1 DEF Leaves
  <2>4. Begins(x, a)
    BY <1>2, <2>1 DEF Begins
  <2>5. Length(a) = Len(x) \/ x = Stray
    BY <2>4, LengthOfItem
  <2>6. Len(x) \in 1 .. Len(a) /\ x[1] = a[1]
    BY <1>1, <1>2, <2>1
  <2> QED  BY <2>2, <2>3, <2>5, <2>6 DEF HeadIs
<1>3. CASE ~ Len(x) <= Len(a)
  <2>1. Len(a) <= Len(x) /\ Len(a) < Len(x) /\ Len(x) > Len(a) /\ x \o r = a \o u
    BY <1>0, <1>1, <1>3
  <2>2. \A i \in 1 .. Len(a) : x[i] = a[i]
    BY <1>1, <2>1, CutTwice
  <2>4. Begins(a, x)
    BY <2>1, <2>2 DEF Begins
  <2>5. Length(a) = 0 \/ Overrun(a)
    BY <2>1, <2>4, LengthOfPart
  <2>6. x[1] = a[1]
    BY <1>1, <2>2
  <2> QED  BY <2>1, <2>5, <2>6 DEF HeadIs
<1> QED  BY <1>2, <1>3

Clean(items) == \A i \in DOMAIN items : items[i] \notin {<<"fffd">>, <<"stale">>}

LEMMA ThenClean ==
  ASSUME NEW x, NEW more, more.items \in Seq(Taken), x \in Taken, Clean(Then(x, more).items)
  PROVE  x \notin {<<"fffd">>, <<"stale">>} /\ Clean(more.items)
<1> DEFINE m == more.items
           w == <<x>> \o m
<1>1. m \in Seq(Taken) /\ Clean(w)
  BY DEF Then
<1>2. /\ 1 \in DOMAIN w /\ w[1] = x
      /\ \A i \in DOMAIN m : i + 1 \in DOMAIN w /\ w[i + 1] = m[i]
  <2> HIDE DEF m
  <2> QED  BY <1>1
<1> HIDE DEF w
<1>3. x \notin {<<"fffd">>, <<"stale">>}
  BY <1>1, <1>2 DEF Clean
<1>4. Clean(m)
  <2> HIDE DEF m
  <2> QED  BY <1>1, <1>2 DEF Clean
<1> QED  BY <1>3, <1>4

\* Read as items, the output of which the buffer holds a part is what was
\* written, item by item; what stays begins the next one.
TakesTo(f, i, u, W, k, l) ==
  /\ f[i].items = SubSeq(W, k + 1, l)
  /\ f[i].rest \o u = FlattenSeq(From(W, l + 1))
  /\ \A p \in k + 1 .. l : W[p] # <<"NUL">>

NoNul(s) == \A i \in 1 .. Len(s) : s[i] # "NUL"

LEMMA AsWritten ==
  ASSUME NEW s \in Seq(Byte), NEW u \in Seq(Byte), NEW f,
         NEW W, NEW m \in 0 .. Len(W), Written(W), FromOf(f, s), NoNul(s),
         s \o u = FlattenSeq(From(W, m + 1)), Clean(f[1].items)
  PROVE  \E l \in m .. Len(W) : TakesTo(f, 1, u, W, m, l)
<1> DEFINE N == Len(s) + 1
           n == Len(W)
           Good(i, k) == /\ From(s, i) \o u = FlattenSeq(From(W, k + 1))
                         /\ Clean(f[i].items)
           R(i) == \A k \in 0 .. n : Good(i, k) => \E l \in k .. n : TakesTo(f, i, u, W, k, l)
           Q == {i \in 1 .. N : R(i)}
<1>0. /\ N \in Nat /\ N = Len(s) + 1 /\ 1 \in 1 .. N /\ n \in Nat /\ n = Len(W)
      /\ m \in 0 .. n /\ W \in Seq(Seq(Byte))
  BY DEF Written
<1> HIDE DEF N, n
<1>1. ASSUME NEW i \in 1 .. N, \A j \in i + 1 .. N : j \in Q PROVE i \in Q
  <2> SUFFICES ASSUME NEW k \in 0 .. n, Good(i, k)
               PROVE  \E l \in k .. n : TakesTo(f, i, u, W, k, l)
    OBVIOUS
  <2>0. k \in k .. n /\ SubSeq(W, k + 1, k) = <<>> /\ k \in Nat
       /\ \A p \in k + 1 .. k : W[p] # <<"NUL">>
    OBVIOUS
  <2> DEFINE t == From(s, i)
  <2>9. t \in Seq(Byte) /\ Len(t) = N - i
    <3>1. i \in 1 .. Len(s) + 1 /\ Len(s) \in Nat /\ Len(s) - i + 1 = N - i
      BY <1>0
    <3> QED  BY <3>1, FromIs
  <2>1. CASE i = N
    <3>1. f[i] = Take(s, f, i) /\ i > Len(s)
      BY <1>0, <2>1, FromAt
    <3>2. f[i].items = <<>> /\ f[i].rest = <<>>
      BY <3>1 DEF Take
    <3>3. From(s, i) = <<>>
      BY <1>0, <2>1, FromEmpty
    <3>4. f[i].rest \o u = FlattenSeq(From(W, k + 1))
      BY <3>2, <3>3
    <3> QED  BY <2>0, <3>2, <3>4 DEF TakesTo
  <2>2. CASE i # N
    <3>1. i \in 1 .. Len(s) /\ i + 1 \in 1 .. Len(s) + 1 /\ t # <<>>
      <4>1. i \in 1 .. Len(s) /\ i + 1 \in 1 .. Len(s) + 1 /\ N - i # 0
        BY <1>0, <2>2
      <4>2. Len(t) # 0
        BY <2>9, <4>1
      <4> QED  BY <4>1, <4>2
    <3> DEFINE x == W[k + 1]
               r == FlattenSeq(From(W, k + 2))
    <3>2. k < n /\ IsItem(x) /\ r \in Seq(Byte) /\ Same(t, u, x, r)
      BY <1>0, <2>9, <3>1, NextItem
    <3>8. t[1] # "NUL"
      <4>1. i \in 1 .. Len(s) + 1 /\ 1 \in 1 .. Len(s) - i + 1 /\ i + 1 - 1 = i
        BY <3>1
      <4>2. t[1] = s[i]
        BY <4>1, FromIs
      <4> QED  BY <3>1, <4>2 DEF NoNul
    <3> HIDE DEF t, x, r
    <3>3. /\ x[1] = t[1]
          /\ \/ /\ Len(x) \in 1 .. Len(t) /\ (Length(t) = Len(x) \/ x = Stray)
                /\ SubSeq(t, 1, Len(x)) = x /\ From(t, Len(x) + 1) \o u = r
             \/ Len(x) > Len(t) /\ (Length(t) = 0 \/ Overrun(t))
      <4>1. HeadIs(x, r, t, u)
        BY <2>9, <3>1, <3>2, HeadOfBuffer
      <4> QED  BY <4>1 DEF HeadIs
    <3>4. CASE f[i] = Then(<<"fffd">>, f[i + 1])
      <4>1. Clean(Then(<<"fffd">>, f[i + 1]).items) /\ f[i + 1].items \in Seq(Taken)
            /\ <<"fffd">> \in Taken
        BY <3>1, <3>4, ItemsType DEF Taken
      <4>2. <<"fffd">> \notin {<<"fffd">>, <<"stale">>}
        BY <4>1, ThenClean
      <4> QED  BY <4>2
    <3>5. CASE f[i] = [items |-> <<<<"stale">>>>, rest |-> <<>>]
      <4>1. Clean(<<<<"stale">>>>)
        BY <3>5
      <4>2. 1 \in DOMAIN <<<<"stale">>>> /\ <<<<"stale">>>>[1] = <<"stale">>
        OBVIOUS
      <4> QED  BY <4>1, <4>2 DEF Clean
    <3>6. CASE f[i] = [items |-> <<>>, rest |-> t]
      <4>1. f[i].items = <<>> /\ f[i].rest = t
        BY <3>6
      <4>2. f[i].rest \o u = FlattenSeq(From(W, k + 1))
        BY <4>1 DEF t
      <4> QED  BY <2>0, <4>1, <4>2 DEF TakesTo
    <3>9. ASSUME /\ Length(t) \in 1 .. Len(t)
                 /\ f[i] = Then(SubSeq(t, 1, Length(t)), f[i + Length(t)])
          PROVE  /\ Len(x) \in 1 .. Len(t) /\ f[i] = Then(x, f[i + Len(x)])
                 /\ SubSeq(t, 1, Len(x)) = x /\ From(t, Len(x) + 1) \o u = r
      <4>1. ~ (Length(t) = 0 \/ Overrun(t))
        <5>1. PICK q \in 1 .. Len(t) : q = Length(t)
          BY <3>9
        <5>2. q # 0 /\ ~ q > Len(t)
          BY <2>9, <5>1
        <5> QED  BY <5>1, <5>2 DEF Overrun
      <4>2. x # Stray
        <5>1. x = Stray => t[1] = "cont"
          BY <3>3, StrayIs
        <5>2. t[1] = "cont" => Length(t) = 0
          BY DEF Length, Lead
        <5> QED  BY <4>1, <5>1, <5>2
      <4>3. /\ Len(x) \in 1 .. Len(t) /\ Length(t) = Len(x)
            /\ SubSeq(t, 1, Len(x)) = x /\ From(t, Len(x) + 1) \o u = r
        BY <3>3, <4>1, <4>2
      <4> QED  BY <3>9, <4>3
    <3>10. ASSUME t[1] = "cont", f[i] = Then(Stray, f[i + 1])
           PROVE  /\ Len(x) \in 1 .. Len(t) /\ f[i] = Then(x, f[i + Len(x)])
                  /\ SubSeq(t, 1, Len(x)) = x /\ From(t, Len(x) + 1) \o u = r
      <4>1. x = Stray /\ Len(x) = 1
        BY <3>2, <3>3, <3>10, StrayIs
      <4>2. ~ Len(x) > Len(t)
        <5>1. Len(t) \in Nat /\ Len(t) # 0
          BY <2>9, <3>1
        <5> QED  BY <4>1, <5>1
      <4> QED  BY <3>3, <3>10, <4>1, <4>2
    <3>7. CASE /\ Len(x) \in 1 .. Len(t) /\ f[i] = Then(x, f[i + Len(x)])
               /\ SubSeq(t, 1, Len(x)) = x /\ From(t, Len(x) + 1) \o u = r
      <4> DEFINE d == Len(x)
                 j == i + d
      <4>1. /\ d \in 1 .. Len(t)
            /\ SubSeq(t, 1, d) = x /\ From(t, d + 1) \o u = r
        BY <3>7
      <4>2. f[i] = Then(x, f[j])
        BY <3>7
      <4> HIDE DEF d
      <4>3. j \in i + 1 .. N /\ d \in Nat /\ d <= Len(s) - i + 1
        BY <1>0, <2>9, <3>1, <4>1
      <4>4. From(s, j) = From(t, d + 1)
        BY <1>0, <4>3, FromFrom DEF t
      <4> HIDE DEF j
      <4>5. f[j].items \in Seq(Taken) /\ x \in Taken
        <5>1. j \in 1 .. Len(s) + 1
          BY <1>0, <4>3
        <5> QED  BY <3>2, <5>1, ItemsType DEF IsItem, Taken
      <4>6. Clean(f[j].items)
        BY <4>2, <4>5, ThenClean
      <4> DEFINE k1 == k + 1
      <4>7. k1 \in 0 .. n /\ k1 + 1 = k + 2
        BY <3>2, <1>0
      <4>8. Good(j, k1)
        BY <4>1, <4>4, <4>6, <4>7 DEF r
      <4>9. R(j)
        BY <1>1, <4>3
      <4>10. PICK l \in k1 .. n : TakesTo(f, j, u, W, k1, l)
        BY <4>7, <4>8, <4>9
      <4>11. f[i].items = <<x>> \o f[j].items /\ f[i].rest = f[j].rest
        <5> DEFINE y == <<x>> \o f[j].items
        <5>1. f[i] = [items |-> y, rest |-> f[j].rest]
          BY <4>2 DEF Then
        <5> HIDE DEF y
        <5>2. f[i].items = y /\ f[i].rest = f[j].rest
          BY <5>1
        <5> QED  BY <5>2 DEF y
      <4>12. SubSeq(W, k + 1, l) = <<x>> \o SubSeq(W, k1 + 1, l)
        <5>1. k1 \in 1 .. n /\ l \in 1 .. n /\ k1 <= l /\ k1 = k + 1
          BY <4>7, <1>0
        <5> HIDE DEF k1
        <5>2. SubSeq(W, k1, l) = <<W[k1]>> \o SubSeq(W, k1 + 1, l)
          <6> DEFINE X == Seq(Byte)
          <6>1. W \in Seq(X) /\ k1 \in 1 .. Len(W) /\ l \in k1 .. Len(W)
            BY <1>0, <5>1
          <6> HIDE DEF X
          <6> QED  BY <6>1, SubSeqRecursiveFirst
        <5> QED  BY <5>1, <5>2 DEF x
      <4>13. TakesTo(f, i, u, W, k, l)
        <5>1. /\ f[j].items = SubSeq(W, k1 + 1, l)
              /\ f[j].rest \o u = FlattenSeq(From(W, l + 1))
          BY <4>10 DEF TakesTo
        <5>2. f[i].items = SubSeq(W, k + 1, l)
          BY <4>11, <4>12, <5>1
        <5>3. f[i].rest \o u = FlattenSeq(From(W, l + 1))
          BY <4>11, <5>1
        <5>4. x # <<"NUL">>
          <6>1. SubSeq(t, 1, d)[1] = t[1]
            BY <2>9, <4>1
          <6> QED  BY <3>8, <4>1, <6>1
        <5>5. ASSUME NEW p \in k + 1 .. l PROVE W[p] # <<"NUL">>
          <6>1. CASE p = k + 1
            BY <5>4, <6>1 DEF x
          <6>2. CASE p # k + 1
            <7>1. p \in k1 + 1 .. l
              BY <1>0, <2>0, <4>7, <6>2
            <7> QED  BY <4>10, <7>1 DEF TakesTo
          <6> QED  BY <6>1, <6>2
        <5> QED  BY <5>2, <5>3, <5>5 DEF TakesTo
      <4> QED  BY <4>7, <4>10, <4>13, <1>0
    <3> QED  BY <3>1, <3>4, <3>5, <3>6, <3>7, <3>9, <3>10, FromCases DEF t
  <2> QED  BY <2>1, <2>2
<1> HIDE DEF Q
<1>2. 1 \in Q
  BY <1>0, <1>1, Descending
<1>3. Good(1, m)
  BY FromAll
<1> QED  BY <1>0, <1>2, <1>3 DEF Q, n

LEMMA FirstMore ==
  ASSUME NEW S, NEW W \in Seq(S), NEW v, NEW m \in 0 .. Len(W)
  PROVE  \A l \in m .. Len(W) :
           (\A p \in m + 1 .. l : W[p] # v) =>
             First(W, l, v) = First(W, m, v) \o SubSeq(W, m + 1, l)
<1> DEFINE n == Len(W)
           R(l) == (\A p \in m + 1 .. l : W[p] # v) =>
                     First(W, l, v) = First(W, m, v) \o SubSeq(W, m + 1, l)
           T == {k \in Nat : m + k <= n => R(m + k)}
<1>0. m \in Nat /\ n \in Nat /\ n = Len(W) /\ m <= n /\ First(W, m, v) \in Seq(S)
  BY FirstType
<1> HIDE DEF n
<1>1. 0 \in T
  <2>1. SubSeq(W, m + 1, m) = <<>> /\ m + 0 = m
    BY <1>0
  <2> DEFINE f == First(W, m, v)
  <2>2. f \o <<>> = f
    <3> HIDE DEF f
    <3> QED  BY <1>0 DEF f
  <2> QED  BY <1>0, <2>1, <2>2
<1>2. ASSUME NEW k \in Nat, k \in T PROVE k + 1 \in T
  <2> SUFFICES ASSUME m + (k + 1) <= n, \A p \in m + 1 .. m + (k + 1) : W[p] # v
               PROVE  First(W, m + (k + 1), v)
                        = First(W, m, v) \o SubSeq(W, m + 1, m + (k + 1))
    OBVIOUS
  <2> DEFINE j == m + k
             q == SubSeq(W, m + 1, j)
             f == First(W, m, v)
  <2>1. j \in Nat /\ j < n /\ j + 1 \in 1 .. n /\ m + (k + 1) = j + 1 /\ m <= j
    BY <1>0
  <2>2. R(j)
    <3> HIDE DEF R
    <3>1. m + k <= n
      BY <1>0
    <3>2. R(m + k)
      BY <1>2, <3>1
    <3> QED  BY <3>2
  <2> HIDE DEF j
  <2>3. W[j + 1] # v /\ \A p \in m + 1 .. j : W[p] # v
    BY <1>0, <2>1
  <2>4. First(W, j, v) = f \o q
    BY <2>2, <2>3
  <2>5. First(W, j + 1, v) = Append(f \o q, W[j + 1])
    <3>1. First(W, j + 1, v) = Next1(First(W, j, v), W[j + 1], v)
      BY <1>0, <2>1, FirstSteps
    <3> QED  BY <2>3, <2>4, <3>1 DEF Next1
  <2>6. q \in Seq(S) /\ W[j + 1] \in S
    <3>1. \A i \in m + 1 .. j : W[i] \in S
      BY <1>0, <2>1
    <3>2. W[j + 1] \in S
      BY <1>0, <2>1
    <3> QED  BY <1>0, <2>1, <3>1, <3>2, SubSeqProperties
  <2>7. SubSeq(W, m + 1, j + 1) = Append(q, W[j + 1])
    <3>1. m + 1 \in 1 .. j + 1 /\ j + 1 \in 1 .. Len(W)
      BY <1>0, <2>1
    <3> DEFINE a == m + 1
               b == j + 1
    <3>2. a \in 1 .. b /\ b \in 1 .. Len(W) /\ b - 1 = j
      BY <2>1, <3>1
    <3> HIDE DEF a, b
    <3>3. SubSeq(W, a, b) = Append(SubSeq(W, a, b - 1), W[b])
      BY <3>2
    <3> QED  BY <3>2, <3>3 DEF a, b
  <2>8. Joins(f, q, W[j + 1])
    <3> HIDE DEF f, q
    <3>1. f \in Seq(S)
      BY <1>0 DEF f
    <3> QED  BY <2>6, <3>1, AppendOfConcat
  <2> HIDE DEF q, f
  <2>9. First(W, j + 1, v) = f \o SubSeq(W, m + 1, j + 1)
    BY <2>5, <2>7, <2>8 DEF Joins
  <2> QED  BY <2>1, <2>9 DEF f
<1> HIDE DEF T
<1>3. \A k \in Nat : k \in T
  BY <1>1, <1>2, Counting
<1>4. ASSUME NEW l \in m .. n PROVE R(l)
  <2>1. l - m \in Nat /\ m + (l - m) = l /\ m + (l - m) <= n
    BY <1>0
  <2>2. l - m \in T
    BY <1>3, <2>1
  <2>3. R(m + (l - m))
    BY <2>1, <2>2 DEF T
  <2> QED  BY <2>1, <2>3
<1> QED  BY <1>4 DEF n

LEMMA FirstSame ==
  ASSUME NEW S, NEW W \in Seq(S), NEW v, NEW m \in 0 .. Len(W)
  PROVE  \A l \in m .. Len(W) :
           (\A p \in m + 1 .. l : W[p] = v) => First(W, l, v) = First(W, m, v)
<1> DEFINE n == Len(W)
           R(l) == (\A p \in m + 1 .. l : W[p] = v) => First(W, l, v) = First(W, m, v)
           T == {k \in Nat : m + k <= n => R(m + k)}
<1>0. m \in Nat /\ n \in Nat /\ n = Len(W) /\ m <= n
  OBVIOUS
<1> HIDE DEF n
<1>1. 0 \in T
  BY <1>0
<1>2. ASSUME NEW k \in Nat, k \in T PROVE k + 1 \in T
  <2> SUFFICES ASSUME m + (k + 1) <= n, \A p \in m + 1 .. m + (k + 1) : W[p] = v
               PROVE  First(W, m + (k + 1), v) = First(W, m, v)
    OBVIOUS
  <2> DEFINE j == m + k
  <2>1. j \in Nat /\ j < n /\ j + 1 \in 1 .. n /\ m + (k + 1) = j + 1 /\ m <= j
    BY <1>0
  <2>2. R(j)
    <3> HIDE DEF R
    <3>1. m + k <= n
      BY <1>0
    <3>2. R(m + k)
      BY <1>2, <3>1
    <3> QED  BY <3>2
  <2> HIDE DEF j
  <2>3. W[j + 1] = v /\ \A p \in m + 1 .. j : W[p] = v
    BY <1>0, <2>1
  <2>4. First(W, j, v) = First(W, m, v)
    BY <2>2, <2>3
  <2>5. First(W, j + 1, v) = First(W, j, v)
    <3>1. First(W, j + 1, v) = Next1(First(W, j, v), W[j + 1], v)
      BY <1>0, <2>1, FirstSteps
    <3> QED  BY <2>3, <3>1 DEF Next1
  <2> QED  BY <2>1, <2>4, <2>5
<1> HIDE DEF T
<1>3. \A k \in Nat : k \in T
  BY <1>1, <1>2, Counting
<1>4. ASSUME NEW l \in m .. n PROVE R(l)
  <2>1. l - m \in Nat /\ m + (l - m) = l /\ m + (l - m) <= n
    BY <1>0
  <2>2. l - m \in T
    BY <1>3, <2>1
  <2>3. R(m + (l - m))
    BY <2>1, <2>2 DEF T
  <2> QED  BY <2>1, <2>3
<1> QED  BY <1>4 DEF n

\* What page_append() sees of a read: all of it up to a NUL.
LEMMA CStringIs ==
  ASSUME NEW r \in Seq(Byte)
  PROVE  \E n \in 0 .. Len(r) :
           /\ CString(r) = SubSeq(r, 1, n)
           /\ \A i \in 1 .. n : r[i] # "NUL"
           /\ n # Len(r) => r[n + 1] = "NUL"
           /\ \A rest : ~ Cut(r, rest) =>
                /\ \A i \in n + 1 .. Len(r) : r[i] = "NUL"
                /\ n # Len(r) => rest = <<>>
<1>0. DOMAIN r = 1 .. Len(r) /\ Len(r) \in Nat
  OBVIOUS
<1>1. CASE \A i \in DOMAIN r : r[i] # "NUL"
  <2>1. CString(r) = r /\ SubSeq(r, 1, Len(r)) = r
    BY <1>1 DEF CString
  <2>2. \A i \in Len(r) + 1 .. Len(r) : r[i] = "NUL"
    BY <1>0
  <2>3. Len(r) \in 0 .. Len(r) /\ \A i \in 1 .. Len(r) : r[i] # "NUL"
    BY <1>0, <1>1
  <2> QED  BY <2>1, <2>2, <2>3
<1>2. CASE \E i \in DOMAIN r : r[i] = "NUL"
  <2> DEFINE nuls == {i \in 1 .. Len(r) : r[i] = "NUL"}
             First1(i) == r[i] = "NUL" /\ \A j \in 1 .. i - 1 : r[j] # "NUL"
  <2>1. PICK q \in nuls : \A m \in nuls : q <= m
    <3>1. nuls # {} /\ nuls \in SUBSET Nat
      BY <1>0, <1>2
    <3> QED  BY <3>1, LeastOf
  <2>2. q \in 1 .. Len(r) /\ First1(q)
    <3>1. q \in 1 .. Len(r) /\ r[q] = "NUL"
      BY <2>1
    <3>2. ASSUME NEW j \in 1 .. q - 1 PROVE r[j] # "NUL"
      <4>1. j \in 1 .. Len(r) /\ ~ q <= j
        BY <1>0, <3>1
      <4> QED  BY <2>1, <4>1
    <3> QED  BY <3>1, <3>2
  <2>3. ASSUME NEW i \in DOMAIN r, First1(i) PROVE i = q
    <3>1. ~ i < q
      <4> SUFFICES ASSUME i < q PROVE FALSE
        OBVIOUS
      <4>1. i \in 1 .. q - 1
        BY <1>0, <2>2
      <4> QED  BY <2>2, <2>3, <4>1
    <3>2. ~ q < i
      <4> SUFFICES ASSUME q < i PROVE FALSE
        OBVIOUS
      <4>1. q \in 1 .. i - 1
        BY <1>0, <2>2
      <4> QED  BY <2>2, <2>3, <4>1
    <3> QED  BY <1>0, <2>2, <3>1, <3>2
  <2>4. CString(r) = SubSeq(r, 1, q - 1)
    <3>1. q \in DOMAIN r
      BY <1>0, <2>2
    <3>2. (CHOOSE i \in DOMAIN r : First1(i)) = q
      <4> HIDE DEF First1
      <4> QED  BY <2>2, <2>3, <3>1
    <3> QED  BY <1>2, <3>2 DEF CString
  <2>5. q - 1 \in 0 .. Len(r) /\ q - 1 + 1 = q /\ \A i \in 1 .. q - 1 : r[i] # "NUL"
    BY <1>0, <2>2
  <2>9. ASSUME NEW rest, ~ Cut(r, rest) PROVE rest = <<>>
    <3>1. q \in DOMAIN r /\ r[q] = "NUL"
      BY <1>0, <2>2
    <3> QED  BY <2>9, <3>1 DEF Cut
  <2>6. ASSUME NEW rest, ~ Cut(r, rest), NEW i \in q .. Len(r) PROVE r[i] = "NUL"
    <3>1. CASE i = q
      BY <2>2, <3>1
    <3>2. CASE i # q
      <4>1. i \in DOMAIN r /\ q \in 1 .. i - 1 /\ r[q] = "NUL"
        BY <1>0, <2>2, <3>2
      <4> QED  BY <2>6, <4>1 DEF Cut
    <3> QED  BY <3>1, <3>2
  <2> DEFINE n == q - 1
  <2>7. n \in 0 .. Len(r) /\ n + 1 = q /\ CString(r) = SubSeq(r, 1, n)
        /\ (\A i \in 1 .. n : r[i] # "NUL") /\ r[n + 1] = "NUL"
    BY <2>2, <2>4, <2>5
  <2>8. \A rest : ~ Cut(r, rest) => \A i \in n + 1 .. Len(r) : r[i] = "NUL"
    BY <2>6, <2>7
  <2> HIDE DEF n
  <2> QED  BY <2>7, <2>8, <2>9
<1> QED  BY <1>1, <1>2

\* What w has, a before it, is what W has from item m + 1 on.
Pending(a, w, W, m) == a \o w = FlattenSeq(From(W, m + 1))
AllNul(b) == \A i \in 1 .. Len(b) : b[i] = "NUL"

\* NULs that are dropped were written as such.
LEMMA NulsDropped ==
  ASSUME NEW W, NEW u \in Seq(Byte), Written(W)
  PROVE  \A b \in Seq(Byte), k \in 0 .. Len(W) :
           AllNul(b) /\ Pending(b, u, W, k) =>
             \E l \in k .. Len(W) : /\ \A p \in k + 1 .. l : W[p] = <<"NUL">>
                                   /\ u = FlattenSeq(From(W, l + 1))
<1> DEFINE n == Len(W)
           Nuls(b) == \A i \in 1 .. Len(b) : b[i] = "NUL"
           E(k) == \E l \in k .. n : /\ \A p \in k + 1 .. l : W[p] = <<"NUL">>
                                     /\ u = FlattenSeq(From(W, l + 1))
           R(b, k) == Nuls(b) /\ b \o u = FlattenSeq(From(W, k + 1)) => E(k)
           T == {d \in Nat : \A b \in Seq(Byte), k \in 0 .. n : Len(b) = d => R(b, k)}
<1>0. n \in Nat /\ n = Len(W)
  BY DEF Written
<1> HIDE DEF n
<1>1. 0 \in T
  <2>1. ASSUME NEW b \in Seq(Byte), NEW k \in 0 .. n, Len(b) = 0,
               b \o u = FlattenSeq(From(W, k + 1))
        PROVE  E(k)
    <3>1. b \o u = u
      BY <2>1
    <3>2. k \in k .. n /\ \A p \in k + 1 .. k : W[p] = <<"NUL">>
      BY <1>0
    <3> QED  BY <2>1, <3>1, <3>2
  <2> HIDE DEF E
  <2> QED  BY <2>1
<1>2. ASSUME NEW d \in Nat, d \in T PROVE d + 1 \in T
  <2>1. ASSUME NEW b \in Seq(Byte), NEW k \in 0 .. n, Len(b) = d + 1, Nuls(b),
               b \o u = FlattenSeq(From(W, k + 1))
        PROVE  E(k)
    <3> DEFINE x == W[k + 1]
               r == FlattenSeq(From(W, k + 2))
    <3>0. b # <<>> /\ 1 \in 1 .. Len(b) /\ b[1] = "NUL"
      BY <2>1
    <3>1. k < n /\ IsItem(x) /\ r \in Seq(Byte) /\ Same(b, u, x, r)
      BY <1>0, <2>1, <3>0, NextItem
    <3> HIDE DEF x, r
    <3>2. Length(b) = 1 /\ ~ Overrun(b)
      <4>1. Length(b) = 1
        <5>1. DOMAIN Lead = {"L2", "L3"}
          BY DEF Lead
        <5> QED  BY <3>0, <5>1 DEF Length
      <4> QED  BY <2>1, <4>1 DEF Overrun
    <3>3. Len(x) = 1 /\ SubSeq(b, 1, 1) = x /\ From(b, 2) \o u = r
      <4>1. Len(x) \in 1 .. Len(b) /\ Length(b) = Len(x)
            /\ SubSeq(b, 1, Len(x)) = x /\ From(b, Len(x) + 1) \o u = r
        <5>1. HeadIs(x, r, b, u)
          BY <2>1, <3>0, <3>1, HeadOfBuffer
        <5>2. Length(b) # 0
          BY <3>2
        <5>3. x # Stray
          <6>1. x[1] = "NUL"
            BY <3>0, <5>1 DEF HeadIs
          <6> QED  BY <6>1, StrayIs
        <5> QED  BY <3>2, <5>1, <5>2, <5>3 DEF HeadIs
      <4>2. Len(x) = 1
        BY <3>2, <4>1
      <4> QED  BY <4>1, <4>2
    <3>4. x = <<"NUL">>
      <4>1. x \in Seq(Byte) /\ Len(x) = 1 /\ x[1] = b[1]
        <5>1. SubSeq(b, 1, 1)[1] = b[1]
          BY <2>1
        <5> QED  BY <3>1, <3>3, <5>1 DEF IsItem
      <4> QED  BY <3>0, <4>1
    <3> DEFINE c == From(b, 2)
               k1 == k + 1
    <3>5. c \in Seq(Byte) /\ Len(c) = d /\ \A i \in 1 .. d : c[i] = "NUL"
      <4>1. 2 \in 1 .. Len(b) + 1 /\ Len(b) - 2 + 1 = d
        BY <2>1
      <4>2. c \in Seq(Byte) /\ Len(c) = Len(b) - 2 + 1
            /\ \A i \in 1 .. Len(b) - 2 + 1 : c[i] = b[2 + i - 1]
        BY <4>1, FromIs
      <4>3. \A i \in 1 .. d : 2 + i - 1 \in 1 .. Len(b)
        BY <2>1
      <4> HIDE DEF c
      <4> QED  BY <2>1, <4>1, <4>2, <4>3
    <3>6. k1 \in 0 .. n /\ k1 + 1 = k + 2 /\ k1 = k + 1
      BY <1>0, <3>1
    <3>7. c \o u = FlattenSeq(From(W, k1 + 1))
      BY <3>3, <3>6 DEF r
    <3> HIDE DEF c, k1
    <3>8. E(k1)
      <4> HIDE DEF E
      <4>1. R(c, k1)
        BY <1>2, <3>5, <3>6
      <4> QED  BY <3>5, <3>7, <4>1
    <3>9. PICK l \in k1 .. n : /\ \A p \in k1 + 1 .. l : W[p] = <<"NUL">>
                               /\ u = FlattenSeq(From(W, l + 1))
      BY <3>8
    <3>10. l \in k .. n
      BY <1>0, <3>6
    <3>11. ASSUME NEW p \in k + 1 .. l PROVE W[p] = <<"NUL">>
      <4>1. CASE p = k + 1
        BY <3>4, <4>1 DEF x
      <4>2. CASE p # k + 1
        <5>1. p \in k1 + 1 .. l
          BY <1>0, <3>6, <4>2
        <5> QED  BY <3>9, <5>1
      <4> QED  BY <4>1, <4>2
    <3> QED  BY <3>9, <3>10, <3>11
  <2> HIDE DEF E
  <2>2. ASSUME NEW b \in Seq(Byte), NEW k \in 0 .. n, Len(b) = d + 1 PROVE R(b, k)
    <3> HIDE DEF Nuls
    <3> QED  BY <2>1, <2>2
  <2> HIDE DEF R
  <2> QED  BY <2>2
<1> HIDE DEF T
<1>3. \A d \in Nat : d \in T
  BY <1>1, <1>2, Counting
<1>4. ASSUME NEW b \in Seq(Byte), NEW k \in 0 .. n PROVE R(b, k)
  <2>1. Len(b) \in T
    BY <1>3
  <2> HIDE DEF R
  <2> QED  BY <2>1 DEF T
<1> QED  BY <1>4 DEF n, AllNul, Pending

\* A read that breaks nothing takes the next items of the output.
IsRead(r, a, w, l) == r = a \o SubSeq(w, 1, l)
Shows(W, m, k, f, v) ==
  /\ First(W, k, <<"NUL">>) = First(W, m, <<"NUL">>) \o f[1].items
  /\ f[1].rest \o v = FlattenSeq(From(W, k + 1))

LEMMA ReadStep ==
  ASSUME NEW W, NEW a \in Seq(Byte), NEW w \in Seq(Byte), NEW l \in 1 .. Len(w),
         NEW m \in 0 .. Len(W), NEW f, NEW r \in Seq(Byte), Written(W),
         IsRead(r, a, w, l), Pending(a, w, W, m),
         ~ Cut(r, f[1].rest), FromOf(f, CString(r)), Clean(f[1].items)
  PROVE  \E k \in m .. Len(W) : Shows(W, m, k, f, From(w, l + 1))
<1>15. r = a \o SubSeq(w, 1, l) /\ a \o w = FlattenSeq(From(W, m + 1))
  BY DEF IsRead, Pending
<1> DEFINE s == CString(r)
           v == From(w, l + 1)
           N == <<"NUL">>
<1>0. W \in Seq(Seq(Byte)) /\ Len(W) \in Nat
  BY DEF Written
<1>1. PICK n \in 0 .. Len(r) :
        /\ s = SubSeq(r, 1, n)
        /\ \A i \in 1 .. n : r[i] # "NUL"
        /\ \A i \in n + 1 .. Len(r) : r[i] = "NUL"
        /\ n # Len(r) => f[1].rest = <<>>
  BY CStringIs
<1> DEFINE b == From(r, n + 1)
<1>2. /\ s \in Seq(Byte) /\ Len(s) = n /\ \A i \in 1 .. n : s[i] = r[i]
      /\ b \in Seq(Byte) /\ Len(b) = Len(r) - n
  <2> DEFINE z == SubSeq(r, 1, n)
  <2>1. /\ z \in Seq(Byte) /\ Len(z) = n /\ \A i \in 1 .. n : z[i] = r[i]
        /\ b \in Seq(Byte) /\ Len(b) = Len(r) - n
    BY SplitAt
  <2>2. s = z
    BY <1>1
  <2> HIDE DEF z, s, b
  <2> QED  BY <2>1, <2>2
<1>14. r = s \o b
  <2>1. Rejoins(r, n)
    BY SplitAt
  <2> QED  BY <1>1, <2>1 DEF Rejoins
<1>3. \A i \in 1 .. Len(b) : b[i] = "NUL"
  <2>1. n + 1 \in 1 .. Len(r) + 1 /\ Len(r) - (n + 1) + 1 = Len(r) - n /\ Len(r) \in Nat
    OBVIOUS
  <2>2. \A i \in 1 .. Len(r) - n : b[i] = r[n + 1 + i - 1]
    BY <2>1, FromIs
  <2>3. \A i \in 1 .. Len(r) - n : n + 1 + i - 1 \in n + 1 .. Len(r)
    BY <2>1
  <2> HIDE DEF b
  <2>4. Len(b) = Len(r) - n
    BY <1>2
  <2>5. \A i \in 1 .. Len(r) - n : b[i] = "NUL"
    BY <1>1, <2>2, <2>3
  <2> QED  BY <2>4, <2>5
<1>4. NoNul(s)
  BY <1>1, <1>2 DEF NoNul
<1> HIDE DEF b, s
<1>5. v \in Seq(Byte) /\ SubSeq(w, 1, l) \in Seq(Byte) /\ w = SubSeq(w, 1, l) \o v
  <2>1. l \in 0 .. Len(w)
    OBVIOUS
  <2>2. v \in Seq(Byte) /\ SubSeq(w, 1, l) \in Seq(Byte) /\ Rejoins(w, l)
    BY <2>1, SplitAt
  <2> QED  BY <2>2 DEF Rejoins
<1> DEFINE p == SubSeq(w, 1, l)
<1> HIDE DEF v, p
<1>6. s \o (b \o v) = FlattenSeq(From(W, m + 1)) /\ b \o v \in Seq(Byte)
  <2>1. Associates(a, p, v) /\ Associates(s, b, v)
    BY <1>2, <1>5, Association DEF p
  <2>2. (a \o p) \o v = a \o w
    BY <1>5, <2>1 DEF Associates, p
  <2>3. (s \o b) \o v = s \o (b \o v)
    BY <2>1 DEF Associates
  <2>4. s \o b = a \o p
    BY <1>14, <1>15 DEF p
  <2>5. b \o v \in Seq(Byte)
    BY <1>2, <1>5
  <2> QED  BY <1>15, <2>2, <2>3, <2>4, <2>5
<1> DEFINE u == b \o v
<1>7. PICK i \in m .. Len(W) : TakesTo(f, 1, u, W, m, i)
  <2> HIDE DEF u
  <2>1. u \in Seq(Byte) /\ s \o u = FlattenSeq(From(W, m + 1)) /\ FromOf(f, s)
    BY <1>6 DEF u, s
  <2> QED  BY <1>2, <1>4, <2>1, AsWritten
<1>8. i \in 0 .. Len(W) /\ i \in m .. Len(W)
  BY <1>0
<1>9. First(W, i, N) = First(W, m, N) \o f[1].items
  <2>1. f[1].items = SubSeq(W, m + 1, i) /\ \A q \in m + 1 .. i : W[q] # N
    BY <1>7 DEF TakesTo
  <2> DEFINE X == Seq(Byte)
  <2>2. First(W, i, N) = First(W, m, N) \o SubSeq(W, m + 1, i)
    <3>1. W \in Seq(X)
      BY <1>0
    <3> HIDE DEF X, N
    <3> QED  BY <1>8, <2>1, <3>1, FirstMore
  <2> QED  BY <2>1, <2>2
<1> DEFINE rest == f[1].rest
<1>10. rest \o u = FlattenSeq(From(W, i + 1))
  BY <1>7 DEF TakesTo
<1> HIDE DEF rest, N
<1>12. CASE b = <<>>
  <2>1. u = v
    BY <1>5, <1>12
  <2>2. First(W, i, N) = First(W, m, N) \o f[1].items
        /\ rest \o v = FlattenSeq(From(W, i + 1))
    BY <1>9, <1>10, <2>1
  <2> QED  BY <1>8, <2>2 DEF rest, N, v, Shows
<1>13. CASE b # <<>>
  <2>1. Len(b) # 0 /\ 1 \in 1 .. Len(b) /\ b[1] = "NUL"
    BY <1>2, <1>3, <1>13
  <2>2. u # <<>> /\ u[1] = "NUL" /\ u \in Seq(Byte)
    <3>0. b \in Seq(Byte) /\ v \in Seq(Byte)
      BY <1>2, <1>5
    <3>1. u \in Seq(Byte) /\ Len(u) = Len(b) + Len(v) /\ Len(v) \in Nat /\ Len(b) \in Nat
      BY <3>0
    <3>2. u[1] = b[1]
      BY <2>1, <3>0
    <3>3. Len(u) # 0
      BY <2>1, <3>1
    <3> QED  BY <2>1, <3>1, <3>2, <3>3
  <2> HIDE DEF u
  <2>3. rest = <<>>
    <3>1. n # Len(r)
      BY <1>2, <2>1
    <3> QED  BY <1>1, <3>1 DEF rest
  <2>4. u = FlattenSeq(From(W, i + 1))
    <3>1. rest \o u = u
      BY <2>2, <2>3
    <3> QED  BY <1>10, <3>1
  <2>5. PICK k \in i .. Len(W) : /\ \A q \in i + 1 .. k : W[q] = <<"NUL">>
                                 /\ v = FlattenSeq(From(W, k + 1))
    <3>1. Pending(b, v, W, i) /\ AllNul(b)
      BY <1>3, <2>4 DEF u, Pending, AllNul
    <3> QED  BY <1>2, <1>3, <1>5, <1>8, <3>1, NulsDropped
  <2>6. First(W, k, N) = First(W, i, N)
    <3> DEFINE X == Seq(Byte)
    <3>1. W \in Seq(X) /\ \A q \in i + 1 .. k : W[q] = N
      BY <1>0, <2>5 DEF N
    <3> HIDE DEF X
    <3> QED  BY <1>8, <2>5, <3>1, FirstSame
  <2>7. k \in m .. Len(W) /\ rest \o v = FlattenSeq(From(W, k + 1))
    <3>1. rest \o v = v
      BY <1>5, <2>3
    <3>2. k \in m .. Len(W)
      BY <1>0, <1>8, <2>5
    <3> QED  BY <2>5, <3>1, <3>2
  <2> QED  BY <1>9, <2>6, <2>7 DEF rest, N, v, Shows
<1> QED  BY <1>12, <1>13

-----------------------------------------------------------------------------
(* Escape sequences in the output.                                         *)

Occurs(x, U, p) ==
  IsItem(x) /\ p + Len(x) - 1 <= Len(U) /\ \A j \in 1 .. Len(x) : x[j] = U[p + j - 1]

\* Every ESC begins a whole item of D.
Escapes(U, D) == \A p \in 1 .. Len(U) : U[p] = "ESC" => \E x \in D : Occurs(x, U, p)

\* What is behind n bytes of U, as far as it agrees.
Behind(V, U, n) == Len(V) = Len(U) - n /\ \A i \in 1 .. Len(V) : V[i] = U[n + i]

LEMMA EscapesBehind ==
  ASSUME NEW U \in Seq(Byte), NEW V \in Seq(Byte), NEW n \in Nat, NEW D,
         Behind(V, U, n), Escapes(U, D)
  PROVE  Escapes(V, D)
<1>0. Len(U) \in Nat /\ Len(V) \in Nat /\ Len(V) = Len(U) - n
  BY DEF Behind
<1>1. ASSUME NEW p \in 1 .. Len(V), V[p] = "ESC" PROVE \E x \in D : Occurs(x, V, p)
  <2>1. n + p \in 1 .. Len(U) /\ U[n + p] = "ESC"
    BY <1>0, <1>1 DEF Behind
  <2>2. PICK x \in D : Occurs(x, U, n + p)
    BY <2>1 DEF Escapes
  <2>3. Occurs(x, V, p)
    <3>1. Len(x) \in Nat
      BY <2>2 DEF Occurs, IsItem
    <3>2. IsItem(x) /\ p + Len(x) - 1 <= Len(V)
      BY <1>0, <2>2, <3>1 DEF Occurs
    <3>3. ASSUME NEW j \in 1 .. Len(x) PROVE x[j] = V[p + j - 1]
      <4>1. p + j - 1 \in 1 .. Len(V) /\ n + (p + j - 1) = n + p + j - 1
        BY <3>1, <3>2, <1>0
      <4>2. x[j] = U[n + p + j - 1]
        BY <2>2 DEF Occurs
      <4> QED  BY <4>1, <4>2 DEF Behind
    <3> QED  BY <3>2, <3>3 DEF Occurs
  <2> QED  BY <2>3
<1> QED  BY <1>1 DEF Escapes

\* What is read and kept, and what is not yet read.
LEMMA EscapesRead ==
  ASSUME NEW r \in Seq(Byte), NEW v \in Seq(Byte), NEW n \in 0 .. Len(r),
         NEW j \in 1 .. n + 1, NEW R \in Seq(Byte), NEW D,
         n # Len(r) => r[n + 1] = "NUL",
         Len(R) = n + 1 - j, \A i \in 1 .. Len(R) : R[i] = r[j + i - 1],
         Escapes(r \o v, D)
  PROVE  Escapes(R \o v, D)
<1> DEFINE U == r \o v
           V == R \o v
<1>1. /\ U \in Seq(Byte) /\ Len(U) = Len(r) + Len(v)
      /\ \A i \in 1 .. Len(r) : U[i] = r[i]
      /\ \A i \in 1 .. Len(v) : U[Len(r) + i] = v[i]
  <2>1. U \in Seq(Byte) /\ Len(U) = Len(r) + Len(v)
    OBVIOUS
  <2>2. \A i \in 1 .. Len(r) : U[i] = r[i]
    OBVIOUS
  <2>3. \A i \in 1 .. Len(v) : U[Len(r) + i] = v[i]
    OBVIOUS
  <2> QED  BY <2>1, <2>2, <2>3
<1>2. /\ V \in Seq(Byte) /\ Len(V) = Len(R) + Len(v)
      /\ \A i \in 1 .. Len(R) : V[i] = R[i]
      /\ \A i \in 1 .. Len(v) : V[Len(R) + i] = v[i]
  <2>1. V \in Seq(Byte) /\ Len(V) = Len(R) + Len(v)
    OBVIOUS
  <2>2. \A i \in 1 .. Len(R) : V[i] = R[i]
    OBVIOUS
  <2>3. \A i \in 1 .. Len(v) : V[Len(R) + i] = v[i]
    OBVIOUS
  <2> QED  BY <2>1, <2>2, <2>3
<1>3. Escapes(U, D)
  OBVIOUS
<1>4. Len(r) \in Nat /\ Len(v) \in Nat /\ n \in Nat /\ n <= Len(r) /\ j \in Nat
      /\ Len(R) \in Nat /\ Len(R) = n + 1 - j
  OBVIOUS
<1> HIDE DEF U, V
<1>5. ASSUME NEW p \in 1 .. Len(V), V[p] = "ESC" PROVE \E x \in D : Occurs(x, V, p)
  <2>1. CASE p <= Len(R)
    <3> DEFINE q == j + p - 1
    <3>1. q \in 1 .. n /\ q \in 1 .. Len(U) /\ U[q] = "ESC"
      <4>1. p \in 1 .. Len(R) /\ q \in 1 .. n /\ q \in 1 .. Len(r) /\ q \in 1 .. Len(U)
        BY <1>1, <1>4, <2>1
      <4>2. V[p] = R[p] /\ R[p] = r[q] /\ U[q] = r[q]
        BY <1>1, <1>2, <4>1
      <4> QED  BY <1>5, <4>1, <4>2
    <3>2. PICK x \in D : Occurs(x, U, q)
      BY <1>3, <3>1 DEF Escapes
    <3>3. IsItem(x) /\ Len(x) \in Nat /\ q + Len(x) - 1 <= Len(U)
          /\ \A i \in 1 .. Len(x) : x[i] = U[q + i - 1]
      BY <3>2 DEF Occurs, IsItem
    <3> HIDE DEF q
    <3>4. CASE n = Len(r)
      <4>1. p + Len(x) - 1 <= Len(V)
        BY <1>1, <1>2, <1>4, <3>1, <3>3, <3>4 DEF q
      <4>2. ASSUME NEW i \in 1 .. Len(x) PROVE x[i] = V[p + i - 1]
        <5>1. x[i] = U[q + i - 1] /\ p + i - 1 \in 1 .. Len(V)
              /\ q + i - 1 = j + (p + i - 1) - 1
          <6>1. x[i] = U[q + i - 1]
            BY <3>3
          <6>2. i \in Nat /\ i >= 1 /\ i <= Len(x) /\ p \in Nat /\ p >= 1 /\ Len(x) \in Nat
            BY <1>2, <3>3
          <6>3. q + i - 1 = j + (p + i - 1) - 1
            BY <1>4, <6>2 DEF q
          <6>4. p + i - 1 \in 1 .. Len(V)
            BY <4>1, <6>2
          <6> QED  BY <6>1, <6>3, <6>4
        <5>2. CASE p + i - 1 <= Len(R)
          <6>1. p + i - 1 \in 1 .. Len(R) /\ q + i - 1 \in 1 .. Len(r)
            BY <1>4, <3>1, <5>1, <5>2 DEF q
          <6>2. V[p + i - 1] = R[p + i - 1] /\ R[p + i - 1] = r[q + i - 1]
            BY <1>2, <5>1, <6>1
          <6> QED  BY <1>1, <5>1, <6>1, <6>2
        <5>3. CASE ~ p + i - 1 <= Len(R)
          <6> DEFINE k == p + i - 1 - Len(R)
          <6>1. k \in 1 .. Len(v) /\ p + i - 1 = Len(R) + k /\ q + i - 1 = Len(r) + k
            BY <1>2, <1>4, <3>4, <5>1, <5>3 DEF q
          <6> HIDE DEF k
          <6>2. V[p + i - 1] = v[k] /\ U[q + i - 1] = v[k]
            BY <1>1, <1>2, <6>1
          <6> QED  BY <5>1, <6>2
        <5> QED  BY <5>2, <5>3
      <4>3. Occurs(x, V, p)
        BY <3>3, <4>1, <4>2 DEF Occurs
      <4> QED  BY <4>3
    <3>5. CASE n # Len(r)
      <4>1. n + 1 \in 1 .. Len(r) /\ U[n + 1] = "NUL"
        BY <1>1, <1>4, <3>5
      <4>2. q + Len(x) - 1 <= n
        <5> SUFFICES ASSUME ~ q + Len(x) - 1 <= n PROVE FALSE
          OBVIOUS
        <5> DEFINE i == n + 2 - q
        <5>1. i \in 2 .. Len(x) /\ i \in 1 .. Len(x) /\ q + i - 1 = n + 1
          BY <1>4, <3>1, <3>3
        <5> HIDE DEF i
        <5>2. x[i] = "NUL"
          BY <3>3, <4>1, <5>1
        <5> QED  BY <3>3, <5>1, <5>2 DEF IsItem
      <4>3. p + Len(x) - 1 <= Len(R) /\ p + Len(x) - 1 <= Len(V)
        BY <1>2, <1>4, <3>1, <3>3, <4>2 DEF q
      <4>4. ASSUME NEW i \in 1 .. Len(x) PROVE x[i] = V[p + i - 1]
        <5>1. x[i] = U[q + i - 1] /\ p + i - 1 \in 1 .. Len(R)
              /\ q + i - 1 = j + (p + i - 1) - 1 /\ q + i - 1 \in 1 .. Len(r)
          <6>1. x[i] = U[q + i - 1]
            BY <3>3
          <6>2. i \in Nat /\ i >= 1 /\ i <= Len(x) /\ p \in Nat /\ p >= 1 /\ Len(x) \in Nat
            BY <1>2, <3>3
          <6>3. q + i - 1 = j + (p + i - 1) - 1
            BY <1>4, <6>2 DEF q
          <6>4. p + i - 1 \in 1 .. Len(R)
            BY <1>4, <4>3, <6>2
          <6>5. q + i - 1 \in 1 .. Len(r)
            BY <1>4, <3>1, <4>2, <6>2
          <6> QED  BY <6>1, <6>3, <6>4, <6>5
        <5>2. V[p + i - 1] = R[p + i - 1] /\ R[p + i - 1] = r[q + i - 1]
          BY <1>2, <5>1
        <5> QED  BY <1>1, <5>1, <5>2
      <4>5. Occurs(x, V, p)
        BY <3>3, <4>3, <4>4 DEF Occurs
      <4> QED  BY <4>5
    <3> QED  BY <3>4, <3>5
  <2>2. CASE ~ p <= Len(R)
    <3> DEFINE h == p - Len(R)
               q == Len(r) + h
    <3>1. h \in 1 .. Len(v) /\ q \in 1 .. Len(U) /\ p = Len(R) + h /\ q = Len(r) + h
      BY <1>1, <1>2, <1>4, <2>2
    <3> HIDE DEF h, q
    <3>2. U[q] = "ESC"
      BY <1>1, <1>2, <1>5, <3>1
    <3>3. PICK x \in D : Occurs(x, U, q)
      BY <1>3, <3>1, <3>2 DEF Escapes
    <3>4. IsItem(x) /\ Len(x) \in Nat /\ q + Len(x) - 1 <= Len(U)
          /\ \A i \in 1 .. Len(x) : x[i] = U[q + i - 1]
      BY <3>3 DEF Occurs, IsItem
    <3>5. p + Len(x) - 1 <= Len(V)
      BY <1>1, <1>2, <1>4, <3>1, <3>4
    <3>6. ASSUME NEW i \in 1 .. Len(x) PROVE x[i] = V[p + i - 1]
      <4> DEFINE k == h + i - 1
      <4>1. k \in 1 .. Len(v) /\ p + i - 1 = Len(R) + k /\ q + i - 1 = Len(r) + k
        BY <1>1, <1>4, <3>1, <3>4
      <4> HIDE DEF k
      <4>2. V[p + i - 1] = v[k] /\ U[q + i - 1] = v[k]
        BY <1>1, <1>2, <4>1
      <4> QED  BY <3>4, <4>2
    <3>7. Occurs(x, V, p)
      BY <3>4, <3>5, <3>6 DEF Occurs
    <3> QED  BY <3>7
  <2> QED  BY <2>1, <2>2
<1>6. Escapes(V, D)
  BY <1>5 DEF Escapes
<1> QED  BY <1>6 DEF V

\* An item more.
LEMMA EscapesWrite ==
  ASSUME NEW U \in Seq(Byte), NEW x, NEW D, NEW E, IsItem(x), Escapes(U, D),
         D \subseteq E, x \in E
  PROVE  Escapes(U \o x, E)
<1> DEFINE V == U \o x
<1>0. x \in Seq(Byte) /\ Len(x) \in Nat /\ Len(x) # 0 /\ Len(U) \in Nat
  BY DEF IsItem
<1>1. /\ V \in Seq(Byte) /\ Len(V) = Len(U) + Len(x)
      /\ \A i \in 1 .. Len(U) : V[i] = U[i]
      /\ \A i \in 1 .. Len(x) : V[Len(U) + i] = x[i]
  <2>1. V \in Seq(Byte) /\ Len(V) = Len(U) + Len(x)
    BY <1>0
  <2>2. \A i \in 1 .. Len(U) : V[i] = U[i]
    BY <1>0
  <2>3. \A i \in 1 .. Len(x) : V[Len(U) + i] = x[i]
    BY <1>0
  <2> QED  BY <2>1, <2>2, <2>3
<1> HIDE DEF V
<1>2. ASSUME NEW p \in 1 .. Len(V), V[p] = "ESC" PROVE \E y \in E : Occurs(y, V, p)
  <2>1. CASE p <= Len(U)
    <3>1. p \in 1 .. Len(U) /\ U[p] = "ESC"
      BY <1>0, <1>1, <1>2, <2>1
    <3>2. PICK y \in D : Occurs(y, U, p)
      BY <3>1 DEF Escapes
    <3>3. IsItem(y) /\ Len(y) \in Nat /\ p + Len(y) - 1 <= Len(U)
          /\ \A i \in 1 .. Len(y) : y[i] = U[p + i - 1]
      BY <3>2 DEF Occurs, IsItem
    <3>4. ASSUME NEW i \in 1 .. Len(y) PROVE y[i] = V[p + i - 1]
      <4>1. p + i - 1 \in 1 .. Len(U)
        BY <1>0, <3>1, <3>3
      <4> QED  BY <1>1, <3>3, <4>1
    <3>5. Occurs(y, V, p)
      BY <1>0, <1>1, <3>1, <3>3, <3>4 DEF Occurs
    <3> QED  BY <3>5
  <2>2. CASE ~ p <= Len(U)
    <3> DEFINE h == p - Len(U)
    <3>1. h \in 1 .. Len(x) /\ p = Len(U) + h
      BY <1>0, <1>1, <2>2
    <3> HIDE DEF h
    <3>2. x[h] = "ESC"
      BY <1>1, <1>2, <3>1
    <3>3. h = 1
      <4> SUFFICES ASSUME h # 1 PROVE FALSE
        OBVIOUS
      <4>1. h \in 2 .. Len(x)
        BY <1>0, <3>1
      <4> QED  BY <3>2, <4>1 DEF IsItem
    <3>4. ASSUME NEW i \in 1 .. Len(x) PROVE x[i] = V[p + i - 1]
      <4>1. p + i - 1 = Len(U) + i
        BY <1>0, <3>1, <3>3
      <4> QED  BY <1>1, <4>1
    <3>5. Occurs(x, V, p)
      BY <1>0, <1>1, <3>1, <3>3, <3>4 DEF Occurs
    <3> QED  BY <3>5
  <2> QED  BY <2>1, <2>2
<1>3. Escapes(V, E)
  BY <1>2 DEF Escapes
<1> QED  BY <1>3 DEF V

-----------------------------------------------------------------------------
(* The invariant.                                                          *)

PtyData ==
  /\ keys \in Seq(Byte) /\ typeahead \in Seq(Byte) /\ got \in Seq(Byte)
  /\ typed \in Seq(Seq(Byte))
  /\ wire \in Seq(Byte) /\ sbuf \in Seq(Byte) /\ Written(written)

\* What is kept is an incomplete item, and only an escape sequence can grow
\* to the end of the buffer.
Waits ==
  sbuf # <<>> => Length(sbuf) = 0 /\ (sbuf[1] = "ESC" \/ Len(sbuf) < SMAX - 1)

Lines == {written[i] : i \in 1 .. Len(written)}

\* What is shown and what is still to be interpreted is what was written.
Output ==
  ~ mangled => \E m \in 0 .. Len(written) :
                 /\ shown = First(written, m, <<"NUL">>)
                 /\ sbuf \o wire = FlattenSeq(From(written, m + 1))

PtyInv ==
  /\ PtyData /\ PtyTypeOK /\ KeysAsTyped /\ DeadShellOnly
  /\ Waits /\ Escapes(sbuf \o wire, Lines) /\ Output

\* What term_screen() makes of l more bytes: r is the buffer, f the parsing.
Reads(l, r, f) ==
  /\ l \in 1 .. Len(wire) /\ r = sbuf \o SubSeq(wire, 1, l)
  /\ Len(r) <= SMAX - 1
  /\ FromOf(f, CString(r)) /\ CString(r) \in Seq(Byte)
  /\ sbuf' = f[1].rest /\ wire' = From(wire, l + 1)
  /\ shown' = shown \o f[1].items
  /\ mangled' \in BOOLEAN
  /\ ~ mangled' => ~ mangled /\ ~ Cut(r, f[1].rest) /\ Clean(f[1].items)

\* What term_screen() does with what it reads.
LEMMA ScreenRead ==
  ASSUME NEW l, PtyData, TermScreen(l)
  PROVE  \E r \in Seq(Byte) : \E f : Reads(l, r, f)
<1> USE PtyFacts
<1>1. l \in 1 .. Len(wire) /\ Len(sbuf) + l <= SMAX - 1 /\ wire' = From(wire, l + 1)
  BY DEF TermScreen, From
<1>2. PICK r, d : /\ r = sbuf \o SubSeq(wire, 1, l) /\ d = PageAppend(CString(r))
                  /\ sbuf' = d.rest /\ shown' = shown \o d.items
                  /\ mangled' = (mangled \/ Cut(r, d.rest) \/ \E i \in DOMAIN d.items :
                                   d.items[i] \in {<<"fffd">>, <<"stale">>})
  BY DEF TermScreen
<1>3. r \in Seq(Byte) /\ Len(r) <= SMAX - 1
  <2>1. SubSeq(wire, 1, l) \in Seq(Byte) /\ Len(SubSeq(wire, 1, l)) = l
    BY <1>1, SplitAt DEF PtyData
  <2>2. r \in Seq(Byte) /\ Len(r) = Len(sbuf) + l
    BY <1>2, <2>1 DEF PtyData
  <2> QED  BY <1>1, <2>2
<1>4. CString(r) \in Seq(Byte)
  <2>1. PICK n \in 0 .. Len(r) : CString(r) = SubSeq(r, 1, n)
    BY <1>3, CStringIs
  <2> QED  BY <1>3, <2>1
<1>5. PICK f : FromOf(f, CString(r)) /\ d = f[1]
  BY <1>2, <1>4, PageAppendIs
<1>6. mangled' \in BOOLEAN /\ (~ mangled' => ~ mangled /\ ~ Cut(r, f[1].rest) /\ Clean(f[1].items))
  <2>1. mangled' = (mangled \/ Cut(r, d.rest) \/ ~ Clean(d.items))
    BY <1>2 DEF Clean
  <2> QED  BY <1>5, <2>1
<1> QED  BY <1>1, <1>2, <1>3, <1>4, <1>5, <1>6 DEF Reads

LEMMA ScreenKeeps ==
  ASSUME NEW l, PtyInv, TermScreen(l)
  PROVE  /\ sbuf' \in Seq(Byte) /\ wire' \in Seq(Byte) /\ Len(sbuf') <= SMAX - 1
         /\ mangled' \in BOOLEAN
         /\ Waits' /\ Escapes((sbuf \o wire)', Lines') /\ Output'
<1> USE PtyFacts
<1>0. PtyData /\ written' = written /\ Lines' = Lines
  BY DEF PtyInv, TermScreen, Lines
<1>r. PICK r \in Seq(Byte) : \E f : Reads(l, r, f)
  BY <1>0, ScreenRead
<1>f. PICK f : Reads(l, r, f)
  BY <1>r
<1>1. /\ l \in 1 .. Len(wire) /\ r = sbuf \o SubSeq(wire, 1, l)
      /\ Len(r) <= SMAX - 1
      /\ FromOf(f, CString(r)) /\ CString(r) \in Seq(Byte)
      /\ sbuf' = f[1].rest /\ wire' = From(wire, l + 1)
      /\ shown' = shown \o f[1].items
      /\ mangled' \in BOOLEAN
      /\ ~ mangled' => ~ mangled /\ ~ Cut(r, f[1].rest) /\ Clean(f[1].items)
  BY <1>f DEF Reads
<1> DEFINE s == CString(r)
           v == From(wire, l + 1)
<1>2. PICK n \in 0 .. Len(r) : s = SubSeq(r, 1, n) /\ (n # Len(r) => r[n + 1] = "NUL")
  BY CStringIs
<1>3. s \in Seq(Byte) /\ Len(s) = n /\ \A i \in 1 .. n : s[i] = r[i]
  <2> DEFINE z == SubSeq(r, 1, n)
  <2>1. z \in Seq(Byte) /\ Len(z) = n /\ \A i \in 1 .. n : z[i] = r[i]
    BY SplitAt
  <2>2. s = z
    BY <1>2
  <2> HIDE DEF s, z
  <2> QED  BY <2>1, <2>2
<1>4. PICK j \in 1 .. Len(s) + 1 :
        /\ f[1].rest = From(s, j)
        /\ j # Len(s) + 1 =>
             Length(From(s, j)) = 0 /\ ~ (Broken(From(s, j)) /\ j - 1 <= Slack)
  BY <1>1, RestWaits
<1> HIDE DEF s
<1>5. /\ sbuf' \in Seq(Byte) /\ Len(sbuf') = n + 1 - j
      /\ \A i \in 1 .. Len(sbuf') : sbuf'[i] = r[j + i - 1]
      /\ j \in 1 .. n + 1 /\ n \in Nat /\ n <= Len(r) /\ Len(r) \in Nat
  <2> DEFINE R == From(s, j)
  <2>1. R \in Seq(Byte) /\ Len(R) = Len(s) - j + 1
        /\ \A i \in 1 .. Len(s) - j + 1 : R[i] = s[j + i - 1]
    BY <1>3, FromIs
  <2>2. sbuf' = R /\ j \in 1 .. n + 1 /\ n \in Nat /\ n <= Len(r) /\ Len(r) \in Nat
    BY <1>1, <1>3, <1>4
  <2> HIDE DEF R
  <2>3. Len(R) = n + 1 - j
    BY <1>3, <2>1, <2>2
  <2>4. ASSUME NEW i \in 1 .. Len(R) PROVE R[i] = r[j + i - 1]
    <3>1. j + i - 1 \in 1 .. n /\ i \in 1 .. Len(s) - j + 1
      BY <1>3, <2>2, <2>3
    <3> QED  BY <1>3, <2>1, <3>1
  <2> QED  BY <2>1, <2>2, <2>3, <2>4
<1>6. v \in Seq(Byte) /\ wire' = v
  <2>1. l \in 0 .. Len(wire) /\ wire \in Seq(Byte)
    BY <1>0, <1>1 DEF PtyData
  <2> QED  BY <1>1, <2>1, SplitAt
<1>7. Len(sbuf') <= SMAX - 1
  BY <1>1, <1>5
<1>8. Waits'
  <2> SUFFICES ASSUME sbuf' # <<>>
               PROVE  Length(sbuf') = 0 /\ (sbuf'[1] = "ESC" \/ Len(sbuf') < SMAX - 1)
    BY DEF Waits
  <2>1. j # Len(s) + 1
    <3> SUFFICES ASSUME j = Len(s) + 1 PROVE FALSE
      OBVIOUS
    <3>1. From(s, j) = <<>>
      BY <1>3, FromEmpty
    <3> QED  BY <1>1, <1>4, <3>1
  <2>2. Length(sbuf') = 0 /\ ~ (Broken(sbuf') /\ j - 1 <= Slack)
    BY <1>1, <1>4, <2>1
  <2>3. CASE sbuf'[1] # "ESC"
    <3>1. Broken(sbuf')
      <4>1. DOMAIN Lead = {"L2", "L3"}
        BY DEF Lead
      <4> QED  BY <2>2, <2>3, <4>1 DEF Broken, Length
    <3>2. j - 1 > Slack
      BY <1>5, <2>2, <3>1
    <3> QED  BY <1>1, <1>5, <2>2, <3>2
  <2> QED  BY <2>2, <2>3
<1>9. Escapes((sbuf \o wire)', Lines')
  <2>1. r \o v = sbuf \o wire
    <3> DEFINE a == SubSeq(wire, 1, l)
    <3>1. l \in 0 .. Len(wire) /\ wire \in Seq(Byte) /\ sbuf \in Seq(Byte)
      BY <1>0, <1>1 DEF PtyData
    <3>2. a \in Seq(Byte) /\ Rejoins(wire, l)
      BY <3>1, SplitAt
    <3>3. wire = a \o v
      BY <3>2 DEF Rejoins
    <3> HIDE DEF a
    <3>4. Associates(sbuf, a, v)
      <4> HIDE DEF v
      <4> QED  BY <1>6, <3>1, <3>2, Association DEF v
    <3>5. r = sbuf \o a
      BY <1>1 DEF a
    <3> HIDE DEF v
    <3> QED  BY <3>3, <3>4, <3>5 DEF Associates
  <2> HIDE DEF v
  <2>2. Escapes(r \o v, Lines)
    BY <2>1 DEF PtyInv
  <2> DEFINE R == sbuf'
  <2>3. /\ R \in Seq(Byte) /\ Len(R) = n + 1 - j /\ j \in 1 .. n + 1
        /\ \A i \in 1 .. Len(R) : R[i] = r[j + i - 1]
    BY <1>5
  <2> HIDE DEF R
  <2>4. Escapes(R \o v, Lines)
    BY <1>2, <1>6, <2>2, <2>3, EscapesRead
  <2> QED  BY <1>0, <1>6, <2>4 DEF R
<1>10. Output'
  <2> SUFFICES ASSUME ~ mangled' PROVE
        \E m \in 0 .. Len(written') : /\ shown' = First(written', m, <<"NUL">>)
                                      /\ sbuf' \o wire' = FlattenSeq(From(written', m + 1))
    BY DEF Output
  <2>1. PICK m \in 0 .. Len(written) : /\ shown = First(written, m, <<"NUL">>)
                                       /\ sbuf \o wire = FlattenSeq(From(written, m + 1))
    BY <1>1 DEF PtyInv, Output
  <2>2. PICK k \in m .. Len(written) :
          Shows(written, m, k, f, From(wire, l + 1))
    <3>1. /\ Written(written) /\ sbuf \in Seq(Byte) /\ wire \in Seq(Byte)
          /\ ~ Cut(r, f[1].rest) /\ FromOf(f, CString(r)) /\ Clean(f[1].items)
          /\ l \in 1 .. Len(wire) /\ IsRead(r, sbuf, wire, l)
          /\ Pending(sbuf, wire, written, m)
      BY <1>0, <1>1, <2>1 DEF PtyData, IsRead, Pending
    <3> QED  BY <2>1, <3>1, ReadStep
  <2>3. k \in 0 .. Len(written')
    <3>1. Len(written) \in Nat
      BY <1>0 DEF PtyData, Written
    <3> QED  BY <1>0, <2>2, <3>1
  <2>4. shown' = First(written', k, <<"NUL">>)
    BY <1>0, <1>1, <2>1, <2>2 DEF Shows
  <2>5. sbuf' \o wire' = FlattenSeq(From(written', k + 1))
    BY <1>0, <1>1, <2>2 DEF Shows
  <2> QED  BY <2>3, <2>4, <2>5
<1> QED  BY <1>1, <1>5, <1>6, <1>7, <1>8, <1>9, <1>10

-----------------------------------------------------------------------------
(* Keys.                                                                   *)

Forms(t, private) ==
  [i \in DOMAIN t |-> IF i \in private THEN Private(t[i]) ELSE t[i]]

\* Written(W) for keys: what was typed up to now is got, in the kernel, or
\* still in keys[].
Arrived(q, t) == \E private \in SUBSET DOMAIN t : q = FlattenSeq(Forms(t, private))

LEMMA PrivateType ==
  ASSUME NEW k \in Seq(Byte)
  PROVE  Private(k) \in Seq(Byte) /\ Len(Private(k)) = Len(k)
         /\ Mapped(k) \in Seq(Byte) /\ Len(Mapped(k)) = Len(k)
<1>1. "O" \in Byte
  BY DEF Byte
<1>2. Arrow(k) => 2 \in 1 .. Len(k)
  BY DEF Arrow
<1>3. Private(k) \in Seq(Byte) /\ Len(Private(k)) = Len(k)
  <2> HIDE DEF Byte
  <2> QED  BY <1>1, <1>2 DEF Private
<1> QED  BY <1>3 DEF Mapped

LEMMA FormsType ==
  ASSUME NEW t \in Seq(Seq(Byte)), NEW private
  PROVE  Forms(t, private) \in Seq(Seq(Byte)) /\ Len(Forms(t, private)) = Len(t)
<1> DEFINE X == Seq(Byte)
<1>1. t \in Seq(X) /\ \A k \in X : Private(k) \in X
  BY PrivateType
<1> HIDE DEF X
<1> DEFINE n == Len(t)
           e(i) == IF i \in private THEN Private(t[i]) ELSE t[i]
<1>2. n \in Nat /\ DOMAIN t = 1 .. n /\ \A i \in 1 .. n : e(i) \in X
  BY <1>1
<1>3. Forms(t, private) = [i \in 1 .. n |-> e(i)]
  BY <1>2 DEF Forms
<1>4. Forms(t, private) \in Seq(X) /\ Len(Forms(t, private)) = n
  <2> HIDE DEF e, n
  <2> QED  BY <1>2, <1>3
<1> QED  BY <1>4 DEF X

LEMMA KeyArrives ==
  ASSUME NEW q \in Seq(Byte), NEW t \in Seq(Seq(Byte)), NEW k \in Seq(Byte),
         Arrived(q, t)
  PROVE  Arrived(q \o Mapped(k), Append(t, k))
<1> DEFINE X == Seq(Byte)
           n == Len(t)
           u == Append(t, k)
<1>1. PICK P \in SUBSET DOMAIN t : q = FlattenSeq(Forms(t, P))
  BY DEF Arrived
<1> DEFINE Q == IF kf_priv THEN P \cup {n + 1} ELSE P
           a == Forms(t, P)
           b == Forms(u, Q)
<1>2. /\ t \in Seq(X) /\ k \in X /\ n \in Nat /\ DOMAIN t = 1 .. n
      /\ a \in Seq(X) /\ Len(a) = n /\ Mapped(k) \in X
  BY FormsType, PrivateType
<1>3. /\ u \in Seq(X) /\ Len(u) = n + 1 /\ DOMAIN u = 1 .. n + 1 /\ u[n + 1] = k
      /\ \A i \in 1 .. n : u[i] = t[i]
  <2> HIDE DEF X
  <2> QED  BY <1>2
<1>4. b \in Seq(X) /\ Len(b) = n + 1
  <2> HIDE DEF u, Q
  <2> QED  BY <1>3, FormsType
<1>5. Q \in SUBSET DOMAIN u
  BY <1>2, <1>3
<1> HIDE DEF u
<1>6. b[n + 1] = Mapped(k)
  <2>1. b[n + 1] = IF n + 1 \in Q THEN Private(u[n + 1]) ELSE u[n + 1]
    <3>1. n + 1 \in DOMAIN u
      BY <1>2, <1>3
    <3> HIDE DEF Q
    <3> QED  BY <3>1 DEF Forms
  <2>2. n + 1 \notin P
    BY <1>2
  <2> HIDE DEF n
  <2> QED  BY <1>3, <2>1, <2>2 DEF Mapped
<1>7. ASSUME NEW i \in 1 .. n PROVE b[i] = a[i]
  <2>1. i \in DOMAIN u /\ i \in DOMAIN t /\ i # n + 1 /\ u[i] = t[i]
    BY <1>2, <1>3
  <2>2. i \in Q <=> i \in P
    BY <2>1
  <2> HIDE DEF Q
  <2> QED  BY <2>1, <2>2 DEF Forms
<1> HIDE DEF a, b
<1>8. b = Append(a, Mapped(k))
  <2> DEFINE c == Append(a, Mapped(k))
  <2>1. c \in Seq(X) /\ Len(c) = n + 1 /\ c[n + 1] = Mapped(k)
        /\ \A i \in 1 .. n : c[i] = a[i]
    <3> HIDE DEF X, n
    <3> QED  BY <1>2, AppendProperties
  <2> HIDE DEF c, X
  <2>2. \A i \in 1 .. n + 1 : b[i] = c[i]
    <3> HIDE DEF n
    <3> QED  BY <1>2, <1>6, <1>7, <2>1
  <2>3. b = c
    <3> HIDE DEF n
    <3>1. Len(b) = Len(c) /\ \A i \in 1 .. Len(b) : b[i] = c[i]
      BY <1>4, <2>1, <2>2
    <3> QED  BY <1>4, <2>1, <3>1, SeqEqual
  <2> QED  BY <2>3 DEF c
<1>9. FlattenSeq(b) = FlattenSeq(a) \o Mapped(k)
  <2>1. FlattenSeq(Append(a, Mapped(k))) = FlattenSeq(a) \o Mapped(k)
    BY <1>2, FlatAppend
  <2> QED  BY <1>8, <2>1
<1>10. q \o Mapped(k) = FlattenSeq(b)
  BY <1>1, <1>9 DEF a
<1> HIDE DEF Q
<1> QED  BY <1>5, <1>10 DEF Arrived, b, u

LEMMA KeysAsTypedIs == KeysAsTyped <=> (~ full => Arrived(got \o typeahead \o keys, typed))
  BY DEF KeysAsTyped, Arrived, Forms

LEMMA KeyinKeeps ==
  ASSUME NEW k \in Key, PtyInv, Keyin(k)
  PROVE  /\ keys' \in Seq(Byte) /\ typed' \in Seq(Seq(Byte)) /\ full' \in BOOLEAN
         /\ Len(keys') <= KMAX - 1 /\ KeysAsTyped'
<1> USE PtyFacts
<1> DEFINE c == Mapped(k)
           e == Fits(c)
           X == Seq(Byte)
<1>1. k \in Seq(Byte) /\ c \in Seq(Byte) /\ Len(c) = Len(k)
  BY PrivateType
<1>2. /\ keys' = keys \o e /\ typed' = Append(typed, k) /\ full' = (full \/ e # c)
      /\ got' = got /\ typeahead' = typeahead
  BY DEF Keyin
<1>3. keys \in Seq(Byte) /\ Len(keys) <= KMAX - 1 /\ got \in Seq(Byte) /\ typeahead \in Seq(Byte)
      /\ typed \in Seq(X) /\ full \in BOOLEAN
  BY DEF PtyInv, PtyData, PtyTypeOK
<1> HIDE DEF c
<1>4. e \in Seq(Byte) /\ Len(keys) + Len(e) <= KMAX - 1
  <2>1. CASE Len(keys) + Len(c) <= KMAX - 1
    BY <1>1, <2>1 DEF Fits
  <2>2. CASE ~ Len(keys) + Len(c) <= KMAX - 1
    <3>1. KMAX - 1 - Len(keys) \in 0 .. Len(c) /\ e = SubSeq(c, 1, KMAX - 1 - Len(keys))
      BY <1>1, <1>3, <2>2 DEF Fits
    <3> DEFINE n == KMAX - 1 - Len(keys)
    <3>2. n \in 0 .. Len(c) /\ e = SubSeq(c, 1, n)
      BY <3>1
    <3> HIDE DEF n, e
    <3>3. e \in Seq(Byte) /\ Len(e) = n
      BY <1>1, <3>2, SplitAt
    <3> QED  BY <1>3, <3>3 DEF n
  <2> QED  BY <2>1, <2>2
<1> HIDE DEF e
<1>5. keys' \in Seq(Byte) /\ Len(keys') <= KMAX - 1
  <2>1. Len(keys \o e) = Len(keys) + Len(e) /\ keys \o e \in Seq(Byte)
    BY <1>3, <1>4
  <2> QED  BY <1>2, <1>4, <2>1
<1>6. typed' \in Seq(X)
  <2>1. k \in X
    BY <1>1
  <2> HIDE DEF X
  <2> QED  BY <1>2, <1>3, <2>1
<1>7. KeysAsTyped'
  <2> SUFFICES ASSUME ~ full' PROVE Arrived(got' \o typeahead' \o keys', typed')
    BY DEF KeysAsTyped, Arrived, Forms
  <2>1. ~ full /\ e = c
    BY <1>2, <1>3
  <2> DEFINE q == got \o typeahead \o keys
  <2>2. Arrived(q, typed)
    BY <2>1, KeysAsTypedIs DEF PtyInv
  <2>3. got \o typeahead \in Seq(Byte) /\ q \in Seq(Byte)
    BY <1>3
  <2> DEFINE p == got \o typeahead
  <2>4. (p \o keys) \o c = p \o (keys \o c)
    <3>1. Associates(p, keys, c)
      <4> HIDE DEF p
      <4> QED  BY <1>1, <1>3, <2>3, Association DEF p
    <3> QED  BY <3>1 DEF Associates
  <2>5. Arrived(q \o c, Append(typed, k))
    <3> HIDE DEF q
    <3> QED  BY <1>1, <1>3, <2>2, <2>3, KeyArrives DEF c
  <2> QED  BY <1>2, <2>1, <2>4, <2>5
<1>8. full' \in BOOLEAN
  BY <1>2, <1>3
<1> QED  BY <1>5, <1>6, <1>7, <1>8

LEMMA KeyboardKeeps ==
  ASSUME NEW l, PtyInv, TermKeyboard(l)
  PROVE  /\ keys' \in Seq(Byte) /\ typeahead' \in Seq(Byte)
         /\ Len(keys') <= KMAX - 1 /\ Len(typeahead') <= PtyRoom /\ KeysAsTyped'
<1> USE PtyFacts
<1> DEFINE a == SubSeq(keys, 1, l)
           b == From(keys, l + 1)
<1>1. /\ keys \in Seq(Byte) /\ typeahead \in Seq(Byte) /\ got \in Seq(Byte)
      /\ Len(keys) <= KMAX - 1
  BY DEF PtyInv, PtyData, PtyTypeOK
<1>2. /\ l \in 0 .. Len(keys) /\ Len(typeahead) + l <= PtyRoom
      /\ typeahead' = typeahead \o a /\ keys' = b
      /\ got' = got /\ typed' = typed /\ full' = full
  BY DEF TermKeyboard, Left, From
<1>3. a \in Seq(Byte) /\ Len(a) = l /\ b \in Seq(Byte) /\ Len(b) = Len(keys) - l
      /\ Rejoins(keys, l)
  BY <1>1, <1>2, SplitAt
<1>4. keys = a \o b
  BY <1>3 DEF Rejoins
<1> HIDE DEF a, b
<1>5. typeahead' \in Seq(Byte) /\ Len(typeahead') = Len(typeahead) + l
  <2>1. typeahead \o a \in Seq(Byte) /\ Len(typeahead \o a) = Len(typeahead) + Len(a)
    BY <1>1, <1>3, ConcatProperties
  <2>2. Len(a) = l
    BY <1>3
  <2>3. typeahead' = typeahead \o a
    BY <1>2
  <2> QED  BY <2>1, <2>2, <2>3
<1>6. got' \o typeahead' \o keys' = got \o typeahead \o keys
  <2>1. (got \o (typeahead \o a)) \o b = (got \o typeahead) \o (a \o b)
    <3> DEFINE p == got \o typeahead
    <3>1. p \in Seq(Byte)
      BY <1>1
    <3>2. Associates(got, typeahead, a)
      BY <1>1, <1>3, Association
    <3>3. Associates(p, a, b)
      <4> HIDE DEF p
      <4> QED  BY <1>3, <3>1, Association
    <3>4. got \o (typeahead \o a) = p \o a
      BY <3>2 DEF Associates
    <3> HIDE DEF p
    <3>5. (p \o a) \o b = p \o (a \o b)
      BY <3>3 DEF Associates
    <3> QED  BY <3>4, <3>5 DEF p
  <2> QED  BY <1>2, <1>4, <2>1
<1>7. KeysAsTyped'
  <2>1. ~ full => Arrived(got \o typeahead \o keys, typed)
    BY KeysAsTypedIs DEF PtyInv
  <2> DEFINE q == got \o typeahead \o keys
             p == got' \o typeahead' \o keys'
  <2>2. p = q /\ (~ full => Arrived(q, typed))
    BY <1>6, <2>1
  <2>3. KeysAsTyped' <=> (~ full' => Arrived(p, typed'))
    BY DEF KeysAsTyped, Arrived, Forms
  <2> HIDE DEF p, q
  <2> QED  BY <1>2, <2>2, <2>3
<1>8. Len(keys') <= KMAX - 1
  BY <1>1, <1>2, <1>3
<1> QED  BY <1>2, <1>3, <1>5, <1>7, <1>8

LEMMA ReadsKeeps ==
  ASSUME PtyInv, ShellReads
  PROVE  got' \in Seq(Byte) /\ typeahead' = <<>> /\ KeysAsTyped'
<1>1. keys \in Seq(Byte) /\ typeahead \in Seq(Byte) /\ got \in Seq(Byte)
  BY DEF PtyInv, PtyData
<1>2. /\ got' = got \o typeahead /\ typeahead' = <<>> /\ keys' = keys
      /\ typed' = typed /\ full' = full
  BY DEF ShellReads
<1>3. got' \in Seq(Byte) /\ got' \o typeahead' = got'
  BY <1>1, <1>2
<1>4. KeysAsTyped'
  <2>1. ~ full => Arrived(got \o typeahead \o keys, typed)
    BY KeysAsTypedIs DEF PtyInv
  <2> DEFINE q == got \o typeahead \o keys
             p == got' \o typeahead' \o keys'
  <2>2. p = q
    BY <1>2, <1>3
  <2>4. ~ full => Arrived(q, typed)
    BY <2>1
  <2>3. KeysAsTyped' <=> (~ full' => Arrived(p, typed'))
    BY DEF KeysAsTyped, Arrived, Forms
  <2> HIDE DEF p, q
  <2> QED  BY <1>2, <2>2, <2>3, <2>4
<1> QED  BY <1>2, <1>3, <1>4

-----------------------------------------------------------------------------
(* Output that is written.                                                 *)

LEMMA WritesKeeps ==
  ASSUME NEW x \in Item, PtyInv, ShellWrites(x)
  PROVE  /\ wire' \in Seq(Byte) /\ Written(written')
         /\ Escapes((sbuf \o wire)', Lines') /\ Output' /\ DeadShellOnly'
<1> USE PtyFacts
<1> DEFINE X == Seq(Byte)
           n == Len(written)
           U == sbuf \o wire
<1>0. /\ written \in Seq(X) /\ n \in Nat /\ \A i \in 1 .. n : IsItem(written[i])
      /\ sbuf \in Seq(Byte) /\ wire \in Seq(Byte) /\ U \in Seq(Byte)
  BY DEF PtyInv, PtyData, Written
<1>1. /\ wire' = wire \o x /\ written' = Append(written, x) /\ sbuf' = sbuf
      /\ mangled' = mangled /\ shown' = shown /\ fd' = fd /\ open' = open
  BY DEF ShellWrites
<1>2. IsItem(x) /\ x \in X
  BY DEF IsItem
<1>3. /\ written' \in Seq(X) /\ Len(written') = n + 1 /\ written'[n + 1] = x
      /\ \A i \in 1 .. n : written'[i] = written[i]
  <2> HIDE DEF X
  <2> QED  BY <1>0, <1>1, <1>2, AppendProperties
<1>4. wire' \in Seq(Byte) /\ Written(written')
  <2>1. wire' \in Seq(Byte)
    BY <1>0, <1>1, <1>2
  <2>2. ASSUME NEW i \in 1 .. n + 1 PROVE IsItem(written'[i])
    <3> HIDE DEF X
    <3>1. CASE i = n + 1
      BY <1>2, <1>3, <3>1
    <3>2. CASE i # n + 1
      <4>1. i \in 1 .. n
        BY <1>0, <3>2
      <4>2. written'[i] = written[i] /\ IsItem(written[i])
        BY <1>0, <1>3, <4>1
      <4> QED  BY <4>2
    <3> QED  BY <3>1, <3>2
  <2> QED  BY <1>3, <2>1, <2>2 DEF Written
<1>5. (sbuf \o wire)' = U \o x
  <2>1. Associates(sbuf, wire, x)
    BY <1>0, <1>2, Association
  <2> QED  BY <1>1, <2>1 DEF Associates
<1>6. Lines \subseteq Lines' /\ x \in Lines'
  <2>1. ASSUME NEW i \in 1 .. n PROVE written[i] \in Lines'
    <3>1. i \in 1 .. Len(written') /\ written'[i] = written[i]
      BY <1>0, <1>3
    <3> QED  BY <3>1 DEF Lines
  <2>2. x \in Lines'
    <3>1. n + 1 \in 1 .. Len(written')
      BY <1>0, <1>3
    <3> QED  BY <1>3, <3>1 DEF Lines
  <2> QED  BY <2>1, <2>2 DEF Lines
<1>7. Escapes((sbuf \o wire)', Lines')
  <2> HIDE DEF U
  <2>1. Escapes(U, Lines)
    BY DEF PtyInv, U
  <2>2. Escapes(U \o x, Lines')
    BY <1>0, <1>2, <1>6, <2>1, EscapesWrite
  <2> QED  BY <1>5, <2>2
<1>8. Output'
  <2> SUFFICES ASSUME ~ mangled' PROVE
        \E m \in 0 .. Len(written') : /\ shown' = First(written', m, <<"NUL">>)
                                      /\ sbuf' \o wire' = FlattenSeq(From(written', m + 1))
    BY DEF Output
  <2>1. PICK m \in 0 .. n : /\ shown = First(written, m, <<"NUL">>)
                            /\ U = FlattenSeq(From(written, m + 1))
    BY <1>1 DEF PtyInv, Output
  <2>2. m \in 0 .. Len(written')
    BY <1>0, <1>3
  <2>3. shown' = First(written', m, <<"NUL">>)
    <3>1. First(Append(written, x), m, <<"NUL">>) = First(written, m, <<"NUL">>)
      <4> HIDE DEF X
      <4> QED  BY <1>0, <1>2, <2>1, FirstOfAppend
    <3> QED  BY <1>1, <2>1, <3>1
  <2>4. From(written', m + 1) = Append(From(written, m + 1), x)
    <3> DEFINE a == From(written', m + 1)
               c == From(written, m + 1)
               d == Append(c, x)
    <3> HIDE DEF X
    <3>1. m + 1 \in 1 .. Len(written') + 1 /\ m + 1 \in 1 .. Len(written) + 1
          /\ Len(written') - (m + 1) + 1 = n - m + 1 /\ Len(written) - (m + 1) + 1 = n - m
          /\ n - m \in Nat
      BY <1>0, <1>3, <2>1
    <3>2. a \in Seq(X) /\ Len(a) = n - m + 1
          /\ \A j \in 1 .. n - m + 1 : a[j] = written'[m + 1 + j - 1]
      BY <1>3, <3>1, FromIs
    <3>3. c \in Seq(X) /\ Len(c) = n - m
          /\ \A j \in 1 .. n - m : c[j] = written[m + 1 + j - 1]
      BY <1>0, <3>1, FromIs
    <3> HIDE DEF a, c
    <3>4. d \in Seq(X) /\ Len(d) = n - m + 1 /\ d[n - m + 1] = x
          /\ \A j \in 1 .. n - m : d[j] = c[j]
      BY <1>2, <3>3, AppendProperties
    <3> HIDE DEF d
    <3>5. ASSUME NEW j \in 1 .. n - m + 1 PROVE a[j] = d[j]
      <4>1. CASE j = n - m + 1
        <5>1. m + 1 + j - 1 = n + 1
          BY <1>0, <3>1, <4>1, <2>1
        <5>2. a[j] = written'[n + 1]
          BY <3>2, <5>1
        <5> QED  BY <1>3, <3>4, <4>1, <5>2
      <4>2. CASE j # n - m + 1
        <5>0. j \in Int /\ 1 <= j /\ j <= n - m + 1 /\ m \in Nat /\ n \in Nat
          BY <1>0, <2>1, <3>1
        <5>1. j \in 1 .. n - m /\ m + 1 + j - 1 \in 1 .. n
          BY <4>2, <5>0
        <5>2. a[j] = written'[m + 1 + j - 1] /\ c[j] = written[m + 1 + j - 1] /\ d[j] = c[j]
          BY <3>2, <3>3, <3>4, <5>1
        <5> QED  BY <1>3, <5>1, <5>2
      <4> QED  BY <4>1, <4>2
    <3>6. a = d
      <4>1. Len(a) = Len(d) /\ \A j \in 1 .. Len(a) : a[j] = d[j]
        BY <3>2, <3>4, <3>5
      <4> QED  BY <3>2, <3>4, <4>1, SeqEqual
    <3> QED  BY <3>6 DEF a, d, c
  <2>5. FlattenSeq(From(written', m + 1)) = U \o x
    <3> DEFINE c == From(written, m + 1)
    <3>1. c \in Seq(X)
      <4>1. m + 1 \in 1 .. Len(written) + 1
        BY <1>0, <2>1
      <4> HIDE DEF X
      <4> QED  BY <1>0, <4>1, FromIs
    <3> HIDE DEF c
    <3>2. FlattenSeq(Append(c, x)) = FlattenSeq(c) \o x
      BY <1>2, <3>1, FlatAppend
    <3> QED  BY <2>1, <2>4, <3>2 DEF c
  <2>6. sbuf' \o wire' = FlattenSeq(From(written', m + 1))
    BY <1>5, <2>5
  <2> QED  BY <2>2, <2>3, <2>6
<1>9. DeadShellOnly'
  <2> SUFFICES ASSUME ~ fd'
               PROVE  ~ open' \/ \E i \in DOMAIN written' : Len(written'[i]) >= SMAX
    BY DEF DeadShellOnly
  <2>1. ~ open \/ \E i \in DOMAIN written : Len(written[i]) >= SMAX
    BY <1>1 DEF PtyInv, DeadShellOnly
  <2>2. ASSUME NEW i \in DOMAIN written PROVE i \in DOMAIN written' /\ written'[i] = written[i]
    <3>1. i \in 1 .. n /\ DOMAIN written' = 1 .. n + 1
      <4> HIDE DEF X
      <4> QED  BY <1>0, <1>3
    <3> QED  BY <1>0, <1>3, <3>1
  <2> QED  BY <1>1, <2>1, <2>2
<1> QED  BY <1>4, <1>7, <1>8, <1>9

-----------------------------------------------------------------------------
(* The end of a terminal.                                                  *)

\* A buffer that is full holds the beginning of an item it cannot hold.
LEMMA DeadKeeps ==
  ASSUME PtyInv, TermDead
  PROVE  DeadShellOnly'
<1> USE PtyFacts
<1>1. written' = written /\ open' = open
  BY DEF TermDead, screen
<1>2. CASE ~ open
  BY <1>1, <1>2 DEF DeadShellOnly
<1>3. CASE Len(sbuf) = SMAX - 1
  <2>1. /\ sbuf \in Seq(Byte) /\ wire \in Seq(Byte) /\ Len(sbuf) \in Nat /\ Len(sbuf) >= 1
        /\ sbuf # <<>>
    BY <1>3 DEF PtyInv, PtyData
  <2>2. Length(sbuf) = 0 /\ sbuf[1] = "ESC"
    BY <1>3, <2>1 DEF PtyInv, Waits
  <2> DEFINE U == sbuf \o wire
  <2>3. U \in Seq(Byte) /\ 1 \in 1 .. Len(U) /\ \A j \in 1 .. Len(sbuf) : U[j] = sbuf[j]
    <3>1. /\ U \in Seq(Byte) /\ Len(U) = Len(sbuf) + Len(wire)
          /\ \A j \in 1 .. Len(sbuf) + Len(wire) :
               U[j] = IF j <= Len(sbuf) THEN sbuf[j] ELSE wire[j - Len(sbuf)]
      BY <2>1, ConcatProperties
    <3>2. Len(wire) \in Nat
      BY <2>1
    <3> HIDE DEF U
    <3>3. 1 \in 1 .. Len(U)
      BY <2>1, <3>1, <3>2
    <3>4. \A j \in 1 .. Len(sbuf) : U[j] = sbuf[j]
      BY <2>1, <3>1, <3>2
    <3> QED  BY <3>1, <3>3, <3>4
  <2> HIDE DEF U
  <2>4. Escapes(U, Lines)
    BY DEF PtyInv, U
  <2>5. 1 \in 1 .. Len(sbuf)
    BY <2>1
  <2>6. U[1] = "ESC"
    BY <2>2, <2>3, <2>5
  <2>7. PICK x \in Lines : Occurs(x, U, 1)
    BY <2>3, <2>4, <2>6 DEF Escapes
  <2>8. IsItem(x) /\ x \in Seq(Byte) /\ Len(x) \in Nat /\ Len(x) # 0
        /\ \A j \in 1 .. Len(x) : x[j] = U[1 + j - 1]
    BY <2>7 DEF Occurs, IsItem
  <2>9. ~ Len(x) <= Len(sbuf)
    <3> SUFFICES ASSUME Len(x) <= Len(sbuf) PROVE FALSE
      OBVIOUS
    <3>1. ASSUME NEW j \in 1 .. Len(x) PROVE x[j] = sbuf[j]
      <4>1. 1 + j - 1 = j /\ j \in 1 .. Len(sbuf)
        BY <2>1, <2>8
      <4> QED  BY <2>3, <2>8, <4>1
    <3>2. Begins(x, sbuf)
      BY <3>1 DEF Begins
    <3>3. x # Stray
      <4>1. x[1] = "ESC"
        BY <2>2, <2>8, <3>1
      <4> QED  BY <4>1, StrayIs
    <3>4. Length(sbuf) = Len(x)
      BY <2>1, <2>8, <3>2, <3>3, LengthOfItem
    <3> QED  BY <2>2, <2>8, <3>4
  <2>10. Len(x) >= SMAX
    BY <1>3, <2>1, <2>8, <2>9
  <2>11. PICK i \in 1 .. Len(written) : x = written[i]
    BY DEF Lines
  <2>12. i \in DOMAIN written
    BY DEF PtyInv, PtyData, Written
  <2> QED  BY <1>1, <2>10, <2>11, <2>12 DEF DeadShellOnly
<1> QED  BY <1>2, <1>3 DEF TermDead

-----------------------------------------------------------------------------
(* The invariant.                                                          *)

\* What does not touch the keys, or the output, leaves what is said of them.
LEMMA KeyboardSame ==
  ASSUME UNCHANGED keyboard, KeysAsTyped
  PROVE  KeysAsTyped'
  BY DEF keyboard, KeysAsTyped

LEMMA ScreenSame ==
  ASSUME UNCHANGED screen, Waits, Escapes(sbuf \o wire, Lines), Output
  PROVE  Waits' /\ Escapes((sbuf \o wire)', Lines') /\ Output'
<1>1. Waits'
  BY DEF screen, Waits
<1>2. Lines' = Lines /\ (sbuf \o wire)' = sbuf \o wire
  BY DEF screen, Lines
<1>3. Output'
  BY DEF screen, Output
<1> QED  BY <1>1, <1>2, <1>3

LEMMA DeadSame ==
  ASSUME UNCHANGED fd, UNCHANGED written, UNCHANGED open \/ ~ open', DeadShellOnly
  PROVE  DeadShellOnly'
  BY DEF DeadShellOnly

LEMMA PtyInitial == PtyInit => PtyInv
<1> SUFFICES ASSUME PtyInit PROVE PtyInv
  OBVIOUS
<1> USE PtyFacts
<1>1. /\ keys = <<>> /\ typeahead = <<>> /\ wire = <<>> /\ sbuf = <<>> /\ typed = <<>>
      /\ got = <<>> /\ written = <<>> /\ shown = <<>>
  BY DEF PtyInit
<1>2. <<>> \in Seq(Byte) /\ <<>> \in Seq(Seq(Byte)) /\ Len(<<>>) = 0
  BY EmptySeq
<1>3. PtyData
  <2>1. Written(<<>>)
    BY <1>2 DEF Written
  <2> QED  BY <1>1, <1>2, <2>1 DEF PtyData
<1>4. PtyTypeOK
  <2>1. 0 <= KMAX - 1 /\ 0 <= SMAX - 1 /\ 0 <= PtyRoom
    OBVIOUS
  <2>2. fd = TRUE /\ open = TRUE /\ kf_priv = FALSE /\ full = FALSE /\ mangled = FALSE
    BY DEF PtyInit
  <2>3. Len(keys) = 0 /\ Len(typeahead) = 0 /\ Len(sbuf) = 0
    BY <1>1, <1>2
  <2> QED  BY <2>1, <2>2, <2>3 DEF PtyTypeOK
<1>5. KeysAsTyped
  <2>1. DOMAIN typed = {}
    BY <1>1
  <2>2. Forms(<<>>, {}) = <<>>
    BY DEF Forms
  <2>3. Arrived(<<>>, <<>>)
    BY <2>2, FlatEmpty DEF Arrived
  <2>4. got \o typeahead \o keys = <<>>
    BY <1>1
  <2> QED  BY <1>1, <2>3, <2>4, KeysAsTypedIs
<1>6. DeadShellOnly
  BY DEF PtyInit, DeadShellOnly
<1>7. Waits /\ sbuf \o wire = <<>>
  BY <1>1 DEF Waits
<1>8. Escapes(<<>>, Lines)
  BY <1>2 DEF Escapes
<1>9. Output
  <2> DEFINE X == Seq(Byte)
  <2>1. First(<<>>, 0, <<"NUL">>) = <<>>
    <3> HIDE DEF X
    <3> QED  BY <1>2, FirstSteps
  <2>2. From(<<>>, 0 + 1) = <<>>
    <3>1. From(<<>>, 1) = <<>>
      BY <1>2, FromAll
    <3> QED  BY <3>1
  <2>3. 0 \in 0 .. Len(written)
    BY <1>1, <1>2
  <2> QED  BY <1>1, <1>7, <2>1, <2>2, <2>3, FlatEmpty DEF Output
<1> QED  BY <1>3, <1>4, <1>5, <1>6, <1>7, <1>8, <1>9 DEF PtyInv

LEMMA ModeIs ==
  ASSUME NEW items, kf_priv \in BOOLEAN
  PROVE  Mode(items) \in BOOLEAN
  BY DEF Mode

LEMMA PtyStep == PtyInv /\ [PtyNext]_vars => PtyInv'
<1> SUFFICES ASSUME PtyInv, [PtyNext]_vars PROVE PtyInv'
  OBVIOUS
<1> USE PtyFacts
<1>0. /\ PtyData /\ PtyTypeOK /\ KeysAsTyped /\ DeadShellOnly
      /\ Waits /\ Escapes(sbuf \o wire, Lines) /\ Output
  BY DEF PtyInv
<1>1. ASSUME NEW k \in Key, Keyin(k) PROVE PtyInv'
  <2>1. UNCHANGED <<typeahead, got, screen, fd, open>>
    BY <1>1 DEF Keyin
  <2>2. Waits' /\ Escapes((sbuf \o wire)', Lines') /\ Output'
    BY <1>0, <2>1, ScreenSame
  <2>3. DeadShellOnly'
    BY <1>0, <2>1, DeadSame DEF screen
  <2>4. /\ keys' \in Seq(Byte) /\ typed' \in Seq(Seq(Byte))
        /\ Len(keys') <= KMAX - 1 /\ KeysAsTyped' /\ full' \in BOOLEAN
    BY <1>1, KeyinKeeps
  <2>5. PtyData'
    BY <1>0, <2>1, <2>4 DEF PtyData, screen, Written
  <2>6. PtyTypeOK'
    BY <1>0, <2>1, <2>4 DEF PtyTypeOK, screen
  <2> QED  BY <2>2, <2>3, <2>4, <2>5, <2>6 DEF PtyInv
<1>2. ASSUME NEW l \in 1 .. KMAX, TermKeyboard(l) PROVE PtyInv'
  <2>1. UNCHANGED <<typed, got, full, screen, fd, open>>
    BY <1>2 DEF TermKeyboard
  <2>2. Waits' /\ Escapes((sbuf \o wire)', Lines') /\ Output'
    BY <1>0, <2>1, ScreenSame
  <2>3. DeadShellOnly'
    BY <1>0, <2>1, DeadSame DEF screen
  <2>4. /\ keys' \in Seq(Byte) /\ typeahead' \in Seq(Byte)
        /\ Len(keys') <= KMAX - 1 /\ Len(typeahead') <= PtyRoom /\ KeysAsTyped'
    BY <1>2, KeyboardKeeps
  <2>5. PtyData'
    BY <1>0, <2>1, <2>4 DEF PtyData, screen, Written
  <2>6. PtyTypeOK'
    BY <1>0, <2>1, <2>4 DEF PtyTypeOK, screen
  <2> QED  BY <2>2, <2>3, <2>4, <2>5, <2>6 DEF PtyInv
<1>3. CASE TermDead
  <2>1. UNCHANGED <<keyboard, screen, open>> /\ fd' = FALSE
    BY <1>3 DEF TermDead
  <2>2. Waits' /\ Escapes((sbuf \o wire)', Lines') /\ Output'
    BY <1>0, <2>1, ScreenSame
  <2>3. DeadShellOnly'
    BY <1>3, DeadKeeps
  <2>4. KeysAsTyped'
    BY <1>0, <2>1, KeyboardSame
  <2>5. PtyData'
    BY <1>0, <2>1 DEF PtyData, screen, keyboard, Written
  <2>6. PtyTypeOK'
    BY <1>0, <2>1 DEF PtyTypeOK, screen, keyboard
  <2> QED  BY <2>2, <2>3, <2>4, <2>5, <2>6 DEF PtyInv
<1>4. ASSUME NEW l \in 1 .. SMAX, TermScreen(l) PROVE PtyInv'
  <2>1. UNCHANGED <<written, keyboard, fd, open>>
    BY <1>4 DEF TermScreen
  <2>2. /\ sbuf' \in Seq(Byte) /\ wire' \in Seq(Byte) /\ Len(sbuf') <= SMAX - 1
        /\ mangled' \in BOOLEAN
        /\ Waits' /\ Escapes((sbuf \o wire)', Lines') /\ Output'
    BY <1>4, ScreenKeeps
  <2>3. DeadShellOnly'
    BY <1>0, <2>1, DeadSame
  <2>4. KeysAsTyped'
    BY <1>0, <2>1, KeyboardSame
  <2>5. kf_priv' \in BOOLEAN
    <3>1. PICK items : kf_priv' = Mode(items)
      BY <1>4 DEF TermScreen
    <3> QED  BY <1>0, <3>1, ModeIs DEF PtyTypeOK
  <2>6. PtyData'
    BY <1>0, <2>1, <2>2 DEF PtyData, keyboard, Written
  <2>7. PtyTypeOK'
    BY <1>0, <2>1, <2>2, <2>5 DEF PtyTypeOK, keyboard
  <2> QED  BY <2>2, <2>3, <2>4, <2>6, <2>7 DEF PtyInv
<1>5. CASE ShellReads
  <2>1. UNCHANGED <<keys, typed, full, screen, fd, open>>
    BY <1>5 DEF ShellReads
  <2>2. Waits' /\ Escapes((sbuf \o wire)', Lines') /\ Output'
    BY <1>0, <2>1, ScreenSame
  <2>3. DeadShellOnly'
    BY <1>0, <2>1, DeadSame DEF screen
  <2>4. got' \in Seq(Byte) /\ typeahead' = <<>> /\ KeysAsTyped'
    BY <1>5, ReadsKeeps
  <2>5. <<>> \in Seq(Byte) /\ Len(<<>>) = 0
    BY EmptySeq
  <2>6. PtyData'
    BY <1>0, <2>1, <2>4, <2>5 DEF PtyData, screen, Written
  <2>7. PtyTypeOK'
    BY <1>0, <2>1, <2>4, <2>5 DEF PtyTypeOK, screen
  <2> QED  BY <2>2, <2>3, <2>4, <2>6, <2>7 DEF PtyInv
<1>6. CASE ShellExits
  <2>1. UNCHANGED <<keyboard, screen, fd>> /\ open' = FALSE
    BY <1>6 DEF ShellExits
  <2>2. Waits' /\ Escapes((sbuf \o wire)', Lines') /\ Output'
    BY <1>0, <2>1, ScreenSame
  <2>3. DeadShellOnly'
    BY <1>0, <2>1, DeadSame DEF screen
  <2>4. KeysAsTyped'
    BY <1>0, <2>1, KeyboardSame
  <2>5. PtyData'
    BY <1>0, <2>1 DEF PtyData, screen, keyboard, Written
  <2>6. PtyTypeOK'
    BY <1>0, <2>1 DEF PtyTypeOK, screen, keyboard
  <2> QED  BY <2>2, <2>3, <2>4, <2>5, <2>6 DEF PtyInv
<1>7. ASSUME NEW x \in Item, ShellWrites(x) PROVE PtyInv'
  <2>1. UNCHANGED <<sbuf, kf_priv, shown, mangled, keyboard, fd, open>>
    BY <1>7 DEF ShellWrites
  <2>2. /\ wire' \in Seq(Byte) /\ Written(written')
        /\ Escapes((sbuf \o wire)', Lines') /\ Output' /\ DeadShellOnly'
    BY <1>7, WritesKeeps
  <2>3. Waits'
    BY <1>0, <2>1 DEF Waits
  <2>4. KeysAsTyped'
    BY <1>0, <2>1, KeyboardSame
  <2>5. PtyData'
    BY <1>0, <2>1, <2>2 DEF PtyData, keyboard
  <2>6. PtyTypeOK'
    BY <1>0, <2>1 DEF PtyTypeOK, keyboard
  <2> QED  BY <2>2, <2>3, <2>4, <2>5, <2>6 DEF PtyInv
<1>8. CASE UNCHANGED vars
  <2>1. UNCHANGED <<keyboard, screen, fd, open>>
    BY <1>8 DEF vars
  <2>2. Waits' /\ Escapes((sbuf \o wire)', Lines') /\ Output'
    BY <1>0, <2>1, ScreenSame
  <2>3. DeadShellOnly'
    BY <1>0, <2>1, DeadSame DEF screen
  <2>4. KeysAsTyped'
    BY <1>0, <2>1, KeyboardSame
  <2>5. PtyData'
    BY <1>0, <2>1 DEF PtyData, screen, keyboard, Written
  <2>6. PtyTypeOK'
    BY <1>0, <2>1 DEF PtyTypeOK, screen, keyboard
  <2> QED  BY <2>2, <2>3, <2>4, <2>5, <2>6 DEF PtyInv
<1> QED  BY <1>1, <1>2, <1>3, <1>4, <1>5, <1>6, <1>7, <1>8 DEF PtyNext, Keyboard, Screen

-----------------------------------------------------------------------------
(* What is shown.                                                          *)

LEMMA PtyOutput == PtyInv => OutputAsWritten
<1> SUFFICES ASSUME PtyInv, ~ mangled
             PROVE  /\ IsPrefix(shown, Without(written, <<"NUL">>))
                    /\ wire = <<>> =>
                         \/ shown = Without(written, <<"NUL">>)
                         \/ Without(written, <<"NUL">>)[Len(shown) + 1] = Stray
  BY DEF OutputAsWritten
<1> DEFINE X == Seq(Byte)
           n == Len(written)
<1>0. /\ written \in Seq(X) /\ n \in Nat /\ Written(written)
      /\ sbuf \in Seq(Byte) /\ wire \in Seq(Byte)
  BY DEF PtyInv, PtyData, Written
<1>1. PICK m \in 0 .. n : /\ shown = First(written, m, <<"NUL">>)
                          /\ sbuf \o wire = FlattenSeq(From(written, m + 1))
  BY DEF PtyInv, Output
<1>2. IsPrefix(First(written, m, <<"NUL">>), Without(written, <<"NUL">>))
  <2> HIDE DEF X
  <2> QED  BY <1>0, FirstBegins
<1>3. ASSUME wire = <<>>, m # n
      PROVE  Without(written, <<"NUL">>)[Len(shown) + 1] = Stray
  <2>1. m + 1 \in 1 .. n /\ m + 1 \in 0 .. n /\ written[m + 1] = Stray
    <3>0. m \in Nat /\ m < n /\ m + 1 \in 1 .. n /\ m + 1 + 1 = m + 2
          /\ m + 2 \in 1 .. Len(written) + 1
      BY <1>0, <1>3
    <3> DEFINE x == written[m + 1]
               r == FlattenSeq(From(written, m + 2))
    <3>1. sbuf = FlattenSeq(From(written, m + 1))
      <4>1. sbuf \o <<>> = sbuf
        BY <1>0
      <4> QED  BY <1>1, <1>3, <4>1
    <3>2. FlattenSeq(From(written, m + 1)) = x \o r
      <4> DEFINE j == m + 1
      <4>1. j \in 1 .. Len(written) /\ j + 1 = m + 2
        BY <3>0
      <4> HIDE DEF j
      <4>2. FlattenSeq(SubSeq(written, j, Len(written)))
              = written[j] \o FlattenSeq(SubSeq(written, j + 1, Len(written)))
        BY <1>0, <4>1, FlatFirst
      <4> QED  BY <4>1, <4>2 DEF From, j
    <3>3. r \in Seq(Byte)
      <4>1. From(written, m + 2) \in Seq(X)
        <5> HIDE DEF X
        <5> QED  BY <1>0, <3>0, FromIs
      <4> QED  BY <4>1, FlatType
    <3>4. IsItem(x) /\ x \in Seq(Byte) /\ Len(x) \in Nat /\ Len(x) # 0
      <4>1. IsItem(x)
        BY <1>0, <3>0 DEF Written
      <4> HIDE DEF x
      <4> QED  BY <4>1 DEF IsItem
    <3> HIDE DEF x, r
    <3>5. /\ x \o r \in Seq(Byte) /\ Len(x \o r) = Len(x) + Len(r) /\ Len(r) \in Nat
          /\ \A j \in 1 .. Len(x) + Len(r) :
               (x \o r)[j] = IF j <= Len(x) THEN x[j] ELSE r[j - Len(x)]
      BY <3>3, <3>4, ConcatProperties
    <3>6. sbuf = x \o r
      BY <3>1, <3>2
    <3>7. Begins(x, x \o r)
      <4> DEFINE c == x \o r
      <4>1. /\ Len(c) = Len(x) + Len(r)
            /\ \A j \in 1 .. Len(x) + Len(r) : c[j] = IF j <= Len(x) THEN x[j] ELSE r[j - Len(x)]
        BY <3>5
      <4> HIDE DEF c
      <4>2. Begins(x, c)
        BY <3>4, <3>5, <4>1 DEF Begins
      <4> QED  BY <4>2 DEF c
    <3>8. Length(sbuf) = Len(x) \/ x = Stray
      BY <3>4, <3>5, <3>6, <3>7, LengthOfItem
    <3>9. sbuf # <<>>
      <4>1. Len(sbuf) # 0
        BY <3>4, <3>5, <3>6
      <4> QED  BY <4>1
    <3>10. x = Stray
      BY <3>4, <3>8, <3>9 DEF PtyInv, Waits
    <3> QED  BY <3>0, <3>10 DEF x
  <2> DEFINE a == First(written, m, <<"NUL">>)
             b == First(written, m + 1, <<"NUL">>)
             w == Without(written, <<"NUL">>)
  <2>2. b = Append(a, Stray)
    <3>1. b = Next1(a, written[m + 1], <<"NUL">>)
      <4>1. m \in Nat /\ m < Len(written) /\ written \in Seq(X)
        BY <1>0, <2>1
      <4> HIDE DEF X
      <4> QED  BY <4>1, FirstSteps
    <3>2. Stray # <<"NUL">>
      BY StrayIs
    <3> QED  BY <2>1, <3>1, <3>2 DEF Next1
  <2>3. a \in Seq(X) /\ IsPrefix(b, w)
    <3> HIDE DEF X
    <3> QED  BY <1>0, <2>1, FirstType, FirstBegins
  <2> HIDE DEF a, b, w
  <2>4. Len(b) = Len(a) + 1 /\ b[Len(a) + 1] = Stray /\ Len(a) \in Nat
    <3>1. Stray \in X
      BY StrayIs
    <3> HIDE DEF X
    <3> QED  BY <2>2, <2>3, <3>1, AppendProperties
  <2>5. w[Len(a) + 1] = b[Len(a) + 1]
    BY <2>3, <2>4 DEF IsPrefix
  <2> QED  BY <1>1, <2>4, <2>5 DEF a, w
<1>4. First(written, n, <<"NUL">>) = Without(written, <<"NUL">>)
  <2> HIDE DEF X
  <2> QED  BY <1>0, FirstSteps
<1> QED  BY <1>1, <1>2, <1>3, <1>4

-----------------------------------------------------------------------------
(* Theorems.                                                               *)

\* Reads and writes never overrun the two buffers of a terminal.
THEOREM PtyTypeCorrect == PtySpec => []PtyTypeOK
<1>1. PtyInv => PtyTypeOK
  BY DEF PtyInv
<1> QED  BY <1>1, PtyInitial, PtyStep, PTL DEF PtySpec

\* Keys reach the shell in the order they were typed, each whole and once, and
\* in one of its two forms, however term_keyboard()'s writes are cut short;
\* unless keys[] was ever full.
THEOREM PtyKeysAsTyped == PtySpec => []KeysAsTyped
<1>1. PtyInv => KeysAsTyped
  BY DEF PtyInv
<1> QED  BY <1>1, PtyInitial, PtyStep, PTL DEF PtySpec

\* page_append() interprets what the shell wrote, item by item and in order,
\* wherever term_screen()'s reads cut it, and nothing that was read whole is
\* left in sbuf[] but a byte of no character and what is behind it; unless a
\* read cut a character early in the buffer, ESC #, or what came with a NUL.
THEOREM PtyOutputAsWritten == PtySpec => []OutputAsWritten
  BY PtyOutput, PtyInitial, PtyStep, PTL DEF PtySpec

\* term_screen() gives the pty up only when the shell is gone or has written a
\* sequence that sbuf[] cannot hold.
THEOREM PtyDeadShellOnly == PtySpec => []DeadShellOnly
<1>1. PtyInv => DeadShellOnly
  BY DEF PtyInv
<1> QED  BY <1>1, PtyInitial, PtyStep, PTL DEF PtySpec
=============================================================================
