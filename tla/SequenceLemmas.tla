---------------------------- MODULE SequenceLemmas ---------------------------
(***************************************************************************)
(* Facts about numbers and sequences that several of the proofs need.      *)
(* The induction theorems of the library take an operator as a parameter;  *)
(* the same induction is stated here about a set of numbers, and with it   *)
(* what a recursive definition computes can be proved: that the recursive  *)
(* function exists, that it is unique, and what the last step adds.        *)
(***************************************************************************)
EXTENDS Integers, Sequences, SequencesExt, SequenceTheorems,
        WellFoundedInduction, TLAPS

\* A set of numbers has a least one.
LEMMA LeastOf ==
  ASSUME NEW S \in SUBSET Nat, S # {}
  PROVE  \E n \in S : \A m \in S : n <= m
<1> DEFINE R == {ss \in Nat \X Nat : ss[1] < ss[2]}
<1>1. OpToRel(<, Nat) = R
  BY Zenon DEF OpToRel
<1>2. IsWellFoundedOn(R, Nat)
  BY <1>1, NatLessThanWellFounded, Zenon
<1>3. PICK n \in S : \A m \in S : ~(<<m, n>> \in R)
  <2> HIDE DEF R
  <2> QED  BY <1>2, WFMin
<1>4. ASSUME NEW m \in S PROVE n <= m
  <2>1. n \in Nat /\ m \in Nat /\ <<m, n>> \in Nat \X Nat
    OBVIOUS
  <2>2. ~(m < n)
    BY <1>3, <2>1
  <2> QED  BY <2>1, <2>2
<1> QED  BY <1>4

\* Induction, about a set of numbers.
LEMMA Counting ==
  ASSUME NEW S, 0 \in S, \A n \in Nat : n \in S => n + 1 \in S
  PROVE  \A n \in Nat : n \in S
<1> SUFFICES ASSUME Nat \ S # {} PROVE FALSE
  OBVIOUS
<1>1. PICK n \in Nat \ S : \A m \in Nat \ S : n <= m
  BY LeastOf
<1>2. n - 1 \in Nat /\ n - 1 + 1 = n
  OBVIOUS
<1> QED  BY <1>1, <1>2

\* Induction from the end of 1 .. n to its beginning.
LEMMA Descending ==
  ASSUME NEW n \in Nat, NEW S,
         \A i \in 1 .. n : (\A j \in i + 1 .. n : j \in S) => i \in S
  PROVE  \A i \in 1 .. n : i \in S
<1> DEFINE T == {k \in Nat : \A i \in 1 .. n : i + k > n => i \in S}
<1>1. 0 \in T
  OBVIOUS
<1>2. ASSUME NEW k \in Nat, k \in T PROVE k + 1 \in T
  <2>1. ASSUME NEW i \in 1 .. n, i + (k + 1) > n PROVE i \in S
    <3>1. \A j \in i + 1 .. n : j \in 1 .. n /\ j + k > n
      BY <2>1
    <3>2. \A j \in i + 1 .. n : j \in S
      BY <1>2, <3>1
    <3> QED  BY <3>2
  <2> QED  BY <2>1
<1> HIDE DEF T
<1>3. n \in T
  BY <1>1, <1>2, Counting
<1> QED  BY <1>3 DEF T

\* A sequence that is not empty has a last element.
LEMMA SnocOf ==
  ASSUME NEW S, NEW s \in Seq(S), Len(s) # 0
  PROVE  \E r \in Seq(S), x \in S : s = Append(r, x) /\ Len(s) = Len(r) + 1
<1>1. s # <<>>
  OBVIOUS
<1>2. PICK r \in Seq(S), x \in S : s = Append(r, x)
  BY <1>1, SequenceEmptyOrAppend
<1> QED  BY <1>2

FlatTo(g, s, n) == g = [i \in 1 .. n |-> IF i = 1 THEN s[i] ELSE g[i - 1] \o s[i]]

LEMMA FlatExists ==
  ASSUME NEW s, NEW n \in Nat
  PROVE  \E g : FlatTo(g, s, n)
<1> DEFINE T == {k \in Nat : \E g : FlatTo(g, s, k)}
<1>1. 0 \in T
  <2>1. FlatTo([i \in 1 .. 0 |-> 0], s, 0)
    BY DEF FlatTo
  <2> QED  BY <2>1
<1>2. ASSUME NEW k \in Nat, k \in T PROVE k + 1 \in T
  <2>1. PICK g : FlatTo(g, s, k)
    BY <1>2
  <2> DEFINE v == IF k = 0 THEN s[1] ELSE g[k] \o s[k + 1]
             h == [i \in 1 .. k + 1 |-> IF i = k + 1 THEN v ELSE g[i]]
  <2>2. ASSUME NEW i \in 1 .. k + 1
        PROVE h[i] = IF i = 1 THEN s[i] ELSE h[i - 1] \o s[i]
    <3>1. CASE i = k + 1
      BY <3>1
    <3>2. CASE i # k + 1
      <4>1. i \in 1 .. k /\ (i # 1 => i - 1 \in 1 .. k)
        BY <3>2
      <4>2. g[i] = IF i = 1 THEN s[i] ELSE g[i - 1] \o s[i]
        BY <2>1, <4>1 DEF FlatTo
      <4> QED  BY <4>1, <4>2
    <3> QED  BY <3>1, <3>2
  <2>3. FlatTo(h, s, k + 1)
    BY <2>2 DEF FlatTo
  <2> QED  BY <2>3
<1> HIDE DEF T
<1>3. n \in T
  BY <1>1, <1>2, Counting
<1> QED  BY <1>3 DEF T

LEMMA FlatAt ==
  ASSUME NEW s, NEW n \in Nat, NEW g, FlatTo(g, s, n), NEW i \in 1 .. n
  PROVE  g[i] = IF i = 1 THEN s[i] ELSE g[i - 1] \o s[i]
<1> DEFINE e(j) == IF j = 1 THEN s[j] ELSE g[j - 1] \o s[j]
<1>1. g = [j \in 1 .. n |-> e(j)]
  BY DEF FlatTo
<1> HIDE DEF e
<1>2. g[i] = e(i)
  BY <1>1
<1> QED  BY <1>2 DEF e

\* Two of them agree as far as both go.
LEMMA FlatAgree ==
  ASSUME NEW s, NEW t, NEW g, NEW h, NEW n \in Nat, NEW m \in Nat, n <= m,
         \A i \in 1 .. n : s[i] = t[i], FlatTo(g, s, n), FlatTo(h, t, m)
  PROVE  \A i \in 1 .. n : g[i] = h[i]
<1> DEFINE T == {k \in Nat : k \in 1 .. n => g[k] = h[k]}
<1>1. 0 \in T
  OBVIOUS
<1>2. ASSUME NEW k \in Nat, k \in T PROVE k + 1 \in T
  <2>1. CASE k + 1 \in 1 .. n
    <3>1. k + 1 \in 1 .. m /\ s[k + 1] = t[k + 1]
      BY <2>1
    <3>2. k + 1 - 1 = k
      OBVIOUS
    <3>4. g[k + 1] = IF k + 1 = 1 THEN s[k + 1] ELSE g[k] \o s[k + 1]
      BY <2>1, <3>2, FlatAt
    <3>5. h[k + 1] = IF k + 1 = 1 THEN t[k + 1] ELSE h[k] \o t[k + 1]
      BY <3>1, <3>2, FlatAt
    <3>3. k + 1 # 1 => g[k] = h[k]
      BY <1>2, <2>1
    <3> QED  BY <3>1, <3>3, <3>4, <3>5
  <2>2. CASE k + 1 \notin 1 .. n
    BY <2>2
  <2> QED  BY <2>1, <2>2
<1> HIDE DEF T
<1>3. \A k \in Nat : k \in T
  BY <1>1, <1>2, Counting
<1> QED  BY <1>3 DEF T

LEMMA FlatIs ==
  ASSUME NEW s, NEW g, Len(s) \in Nat \ {0}, FlatTo(g, s, Len(s))
  PROVE  FlattenSeq(s) = g[Len(s)]
<1> DEFINE c == CHOOSE f : FlatTo(f, s, Len(s))
<1>1. FlatTo(c, s, Len(s))
  OBVIOUS
<1>2. FlattenSeq(s) = c[Len(s)]
  BY DEF FlattenSeq, FlatTo
<1> HIDE DEF c
<1>3. \A i \in 1 .. Len(s) : c[i] = g[i]
  BY <1>1, FlatAgree
<1> QED  BY <1>2, <1>3

LEMMA FlatEmpty == FlattenSeq(<<>>) = <<>>
  BY DEF FlattenSeq

LEMMA FlatAppend ==
  ASSUME NEW S, NEW s \in Seq(Seq(S)), NEW x \in Seq(S)
  PROVE  FlattenSeq(Append(s, x)) = FlattenSeq(s) \o x
<1> DEFINE n == Len(s)
           t == Append(s, x)
<1>1. /\ n \in Nat /\ Len(t) = n + 1 /\ t[n + 1] = x
      /\ \A i \in 1 .. n : s[i] = t[i]
  BY AppendProperties
<1> HIDE DEF n, t
<1>7. n + 1 \in Nat \ {0} /\ n + 1 \in 1 .. n + 1 /\ n + 1 - 1 = n /\ n = Len(s)
  BY <1>1 DEF n
<1>2. PICK h : FlatTo(h, t, n + 1)
  BY <1>7, FlatExists
<1>3. FlattenSeq(t) = h[n + 1]
  BY <1>1, <1>2, <1>7, FlatIs
<1>4. h[n + 1] = IF n = 0 THEN x ELSE h[n] \o x
  <2>1. h[n + 1] = IF n + 1 = 1 THEN t[n + 1] ELSE h[n + 1 - 1] \o t[n + 1]
    BY <1>2, <1>7, FlatAt
  <2> QED  BY <1>1, <1>7, <2>1
<1>5. CASE n = 0
  <2>1. s = <<>> /\ FlattenSeq(s) = <<>>
    BY <1>5, <1>7, FlatEmpty, EmptySeq
  <2>2. <<>> \o x = x
    OBVIOUS
  <2> QED  BY <1>3, <1>4, <1>5, <2>1, <2>2 DEF t
<1>6. CASE n # 0
  <2>1. PICK g : FlatTo(g, s, n)
    BY <1>1, FlatExists
  <2>2. FlattenSeq(s) = g[n]
    BY <1>1, <1>6, <1>7, <2>1, FlatIs
  <2>4. n \in Nat /\ n <= n + 1 /\ n \in 1 .. n
    BY <1>1, <1>6
  <2>5. n + 1 \in Nat /\ FlatTo(h, t, n + 1) /\ \A i \in 1 .. n : s[i] = t[i]
    BY <1>1, <1>2, <1>7
  <2> DEFINE m == n + 1
  <2>7. m \in Nat /\ n <= m /\ FlatTo(h, t, m)
    BY <2>4, <2>5
  <2> HIDE DEF m
  <2>6. \A i \in 1 .. n : g[i] = h[i]
    BY <2>1, <2>4, <2>5, <2>7, FlatAgree
  <2>3. g[n] = h[n]
    BY <2>4, <2>6
  <2> QED  BY <1>3, <1>4, <1>6, <2>2, <2>3 DEF t
<1> QED  BY <1>5, <1>6

LEMMA FlatType ==
  ASSUME NEW S
  PROVE  \A s \in Seq(Seq(S)) : FlattenSeq(s) \in Seq(S)
<1> DEFINE T == {k \in Nat : \A s \in Seq(Seq(S)) : Len(s) = k => FlattenSeq(s) \in Seq(S)}
<1>1. 0 \in T
  BY FlatEmpty, EmptySeq
<1>2. ASSUME NEW k \in Nat, k \in T PROVE k + 1 \in T
  <2> SUFFICES ASSUME NEW s \in Seq(Seq(S)), Len(s) = k + 1
               PROVE  FlattenSeq(s) \in Seq(S)
    OBVIOUS
  <2>0. Len(s) = k + 1 /\ k \in Nat
    OBVIOUS
  <2>1. PICK r \in Seq(Seq(S)), x \in Seq(S) : s = Append(r, x)
    <3> DEFINE Q == Seq(S)
    <3>1. s \in Seq(Q) /\ Len(s) # 0
      BY <2>0
    <3> HIDE DEF Q
    <3>2. \E r \in Seq(Q), x \in Q : s = Append(r, x)
      BY <3>1, SnocOf
    <3> QED  BY <3>2 DEF Q
  <2>2. Len(r) = k
    BY <2>0, <2>1
  <2>3. FlattenSeq(r) \in Seq(S) /\ FlattenSeq(s) = FlattenSeq(r) \o x
    BY <1>2, <2>1, <2>2, FlatAppend
  <2> QED  BY <2>3, ConcatProperties
<1> HIDE DEF T
<1>3. \A k \in Nat : k \in T
  BY <1>1, <1>2, Counting
<1> QED  BY <1>3 DEF T

LEMMA OneIs ==
  ASSUME NEW S, NEW c \in S
  PROVE  <<c>> \in Seq(S)
  OBVIOUS

LEMMA FlatOne ==
  ASSUME NEW S, NEW x \in Seq(S)
  PROVE  FlattenSeq(<<x>>) = x
<1>1. <<>> \in Seq(Seq(S)) /\ Append(<<>>, x) = <<x>> /\ <<>> \o x = x
  OBVIOUS
<1> QED  BY <1>1, FlatAppend, FlatEmpty

LEMMA FlatConcat ==
  ASSUME NEW S, NEW s \in Seq(Seq(S))
  PROVE  \A t \in Seq(Seq(S)) : FlattenSeq(s \o t) = FlattenSeq(s) \o FlattenSeq(t)
<1> DEFINE Joins(t) == FlattenSeq(s \o t) = FlattenSeq(s) \o FlattenSeq(t)
           T == {k \in Nat : \A t \in Seq(Seq(S)) : Len(t) = k => Joins(t)}
<1>0. FlattenSeq(s) \in Seq(S)
  BY FlatType
<1>1. 0 \in T
  <2> SUFFICES ASSUME NEW t \in Seq(Seq(S)), Len(t) = 0 PROVE Joins(t)
    OBVIOUS
  <2>1. t = <<>> /\ s \o t = s
    OBVIOUS
  <2>2. FlattenSeq(s) \o <<>> = FlattenSeq(s)
    BY <1>0
  <2> QED  BY <2>1, <2>2, FlatEmpty
<1>2. ASSUME NEW k \in Nat, k \in T PROVE k + 1 \in T
  <2> SUFFICES ASSUME NEW t \in Seq(Seq(S)), Len(t) = k + 1 PROVE Joins(t)
    OBVIOUS
  <2>1. PICK r \in Seq(Seq(S)), x \in Seq(S) : t = Append(r, x)
    <3> DEFINE Q == Seq(S)
    <3>1. t \in Seq(Q) /\ Len(t) # 0
      OBVIOUS
    <3> HIDE DEF Q
    <3>2. \E r \in Seq(Q), x \in Q : t = Append(r, x)
      BY <3>1, SnocOf
    <3> QED  BY <3>2 DEF Q
  <2>2. Len(r) = k /\ Joins(r)
    BY <1>2, <2>1
  <2>3. s \o t = Append(s \o r, x) /\ s \o r \in Seq(Seq(S))
    BY <2>1
  <2>4. FlattenSeq(s \o t) = FlattenSeq(s \o r) \o x
    BY <2>3, FlatAppend
  <2>5. FlattenSeq(t) = FlattenSeq(r) \o x /\ FlattenSeq(r) \in Seq(S)
    BY <2>1, FlatAppend, FlatType
  <2>6. (FlattenSeq(s) \o FlattenSeq(r)) \o x = FlattenSeq(s) \o (FlattenSeq(r) \o x)
    <3> DEFINE a == FlattenSeq(s)
               b == FlattenSeq(r)
    <3>1. a \in Seq(S) /\ b \in Seq(S) /\ x \in Seq(S)
      BY <1>0, <2>1, <2>5
    <3> HIDE DEF a, b
    <3>2. (a \o b) \o x = a \o (b \o x)
      BY <3>1
    <3> QED  BY <3>2 DEF a, b
  <2> QED  BY <2>2, <2>4, <2>5, <2>6
<1> HIDE DEF T
<1>3. \A k \in Nat : k \in T
  BY <1>1, <1>2, Counting
<1> QED  BY <1>3 DEF T

\* The first of what is left.
LEMMA FlatFirst ==
  ASSUME NEW S, NEW s \in Seq(Seq(S)), NEW k \in 1 .. Len(s)
  PROVE  FlattenSeq(SubSeq(s, k, Len(s))) = s[k] \o FlattenSeq(SubSeq(s, k + 1, Len(s)))
<1> DEFINE Q == Seq(S)
           r == SubSeq(s, k + 1, Len(s))
<1>1. s \in Seq(Q) /\ s[k] \in Q /\ <<s[k]>> \in Seq(Q) /\ Len(s) \in k .. Len(s)
  OBVIOUS
<1>2. r \in Seq(Q)
  OBVIOUS
<1> HIDE DEF r
<1>3. SubSeq(s, k, Len(s)) = <<s[k]>> \o r
  <2> HIDE DEF Q
  <2> QED  BY <1>1, SubSeqRecursiveFirst DEF r
<1>4. FlattenSeq(<<s[k]>> \o r) = FlattenSeq(<<s[k]>>) \o FlattenSeq(r)
  BY <1>1, <1>2, FlatConcat
<1>5. FlattenSeq(<<s[k]>>) = s[k]
  BY <1>1, FlatOne
<1> QED  BY <1>3, <1>4, <1>5 DEF r

-----------------------------------------------------------------------------
(* The rest of a sequence, from one of its elements on.                    *)

From(s, i) == SubSeq(s, i, Len(s))

LEMMA FromIs ==
  ASSUME NEW S, NEW s \in Seq(S), NEW i \in 1 .. Len(s) + 1
  PROVE  /\ From(s, i) \in Seq(S) /\ Len(From(s, i)) = Len(s) - i + 1
         /\ \A j \in 1 .. Len(s) - i + 1 : From(s, i)[j] = s[i + j - 1]
<1> DEFINE n == Len(s)
           r == SubSeq(s, i, n)
<1>1. n \in Nat /\ i \in 1 .. n + 1 /\ \A j \in i .. n : j \in 1 .. Len(s)
  OBVIOUS
<1> HIDE DEF n
<1>2. r \in Seq(S) /\ Len(r) = IF i <= n THEN n - i + 1 ELSE 0
  BY <1>1, SubSeqProperties
<1>3. ASSUME NEW j \in 1 .. n - i + 1 PROVE r[j] = s[i + j - 1]
  BY <1>1, SubSeqProperties
<1>4. Len(r) = n - i + 1
  BY <1>1, <1>2
<1> QED  BY <1>2, <1>3, <1>4 DEF From, n

LEMMA FromAll ==
  ASSUME NEW S, NEW s \in Seq(S)
  PROVE  From(s, 1) = s
  BY DEF From

LEMMA FromEmpty ==
  ASSUME NEW S, NEW s \in Seq(S)
  PROVE  From(s, Len(s) + 1) = <<>>
<1>1. Len(s) + 1 \in 1 .. Len(s) + 1 /\ Len(s) - (Len(s) + 1) + 1 = 0
  OBVIOUS
<1>2. From(s, Len(s) + 1) \in Seq(S) /\ Len(From(s, Len(s) + 1)) = 0
  BY <1>1, FromIs
<1> QED  BY <1>2, EmptySeq

\* Two steps are one.
LEMMA FromFrom ==
  ASSUME NEW S, NEW s \in Seq(S), NEW i \in 1 .. Len(s) + 1, NEW n \in Nat,
         n <= Len(s) - i + 1
  PROVE  From(From(s, i), n + 1) = From(s, i + n)
<1> DEFINE t == From(s, i)
           a == From(t, n + 1)
           b == From(s, i + n)
<1>0. i + n \in 1 .. Len(s) + 1 /\ Len(s) \in Nat
  OBVIOUS
<1>1. /\ t \in Seq(S) /\ Len(t) = Len(s) - i + 1
      /\ \A j \in 1 .. Len(s) - i + 1 : t[j] = s[i + j - 1]
  BY FromIs
<1>4. n + 1 \in 1 .. Len(t) + 1
  BY <1>0, <1>1
<1> HIDE DEF t
<1>2. /\ a \in Seq(S) /\ Len(a) = Len(t) - (n + 1) + 1
      /\ \A j \in 1 .. Len(t) - (n + 1) + 1 : a[j] = t[n + 1 + j - 1]
  BY <1>1, <1>4, FromIs
<1>3. /\ b \in Seq(S) /\ Len(b) = Len(s) - (i + n) + 1
      /\ \A j \in 1 .. Len(s) - (i + n) + 1 : b[j] = s[i + n + j - 1]
  BY <1>0, FromIs
<1> HIDE DEF a, b
<1>5. Len(a) = Len(b)
  BY <1>0, <1>1, <1>2, <1>3
<1>6. ASSUME NEW j \in 1 .. Len(a) PROVE a[j] = b[j]
  <2>1. n + j \in 1 .. Len(s) - i + 1 /\ n + 1 + j - 1 = n + j
        /\ i + (n + j) - 1 = i + n + j - 1
    BY <1>0, <1>1, <1>2
  <2>2. t[n + j] = s[i + (n + j) - 1]
    BY <1>1, <2>1
  <2> QED  BY <1>0, <1>1, <1>2, <1>3, <1>5, <2>1, <2>2
<1> QED  BY <1>2, <1>3, <1>5, <1>6, SeqEqual DEF a, b, t

\* What is left of t from n on, with u behind it, is r.
Leaves(t, n, u, r) == From(t, n) \o u = r

\* Of two ways to cut one sequence in two, the shorter beginning begins the
\* longer one, and the rest is the same.
LEMMA CutTwice ==
  ASSUME NEW S, NEW t \in Seq(S), NEW u \in Seq(S), NEW x \in Seq(S), NEW r \in Seq(S),
         t \o u = x \o r, Len(x) <= Len(t)
  PROVE  /\ \A i \in 1 .. Len(x) : t[i] = x[i]
         /\ SubSeq(t, 1, Len(x)) = x
         /\ Leaves(t, Len(x) + 1, u, r)
<1> DEFINE n == Len(x)
           w == t \o u
<1>1. /\ n \in Nat /\ n <= Len(t) /\ n + 1 \in 1 .. Len(t) + 1
      /\ w \in Seq(S) /\ Len(w) = Len(t) + Len(u) /\ Len(w) = n + Len(r)
      /\ \A i \in 1 .. Len(t) : w[i] = t[i]
      /\ \A i \in 1 .. Len(u) : w[Len(t) + i] = u[i]
  <2>1. n \in Nat /\ n <= Len(t) /\ n + 1 \in 1 .. Len(t) + 1
    OBVIOUS
  <2>2. Len(w) = n + Len(r)
    <3>1. Len(x \o r) = Len(x) + Len(r)
      OBVIOUS
    <3> QED  BY <3>1
  <2>3. w \in Seq(S) /\ Len(w) = Len(t) + Len(u)
    OBVIOUS
  <2>4. \A i \in 1 .. Len(t) : w[i] = t[i]
    OBVIOUS
  <2>5. \A i \in 1 .. Len(u) : w[Len(t) + i] = u[i]
    OBVIOUS
  <2> QED  BY <2>1, <2>2, <2>3, <2>4, <2>5
<1>2. /\ \A i \in 1 .. n : w[i] = x[i]
      /\ \A i \in 1 .. Len(r) : w[n + i] = r[i]
  OBVIOUS
<1> HIDE DEF w, n
<1>3. \A i \in 1 .. n : t[i] = x[i]
  BY <1>1, <1>2
<1>4. SubSeq(t, 1, n) = x
  <2>1. SubSeq(t, 1, n) \in Seq(S) /\ Len(SubSeq(t, 1, n)) = n
        /\ \A i \in 1 .. n : SubSeq(t, 1, n)[i] = t[i]
    BY <1>1
  <2> QED  BY <1>3, <2>1, SeqEqual DEF n
<1> DEFINE b == From(t, n + 1)
           c == b \o u
<1>5. /\ b \in Seq(S) /\ Len(b) = Len(t) - (n + 1) + 1
      /\ \A j \in 1 .. Len(t) - (n + 1) + 1 : b[j] = t[n + 1 + j - 1]
  BY <1>1, FromIs
<1> HIDE DEF b
<1>6. /\ c \in Seq(S) /\ Len(c) = Len(b) + Len(u)
      /\ \A i \in 1 .. Len(b) : c[i] = b[i]
      /\ \A i \in 1 .. Len(u) : c[Len(b) + i] = u[i]
  <2>0. b \in Seq(S)
    BY <1>5
  <2>1. c \in Seq(S) /\ Len(c) = Len(b) + Len(u)
    BY <2>0
  <2>2. \A i \in 1 .. Len(b) : c[i] = b[i]
    BY <2>0
  <2>3. \A i \in 1 .. Len(u) : c[Len(b) + i] = u[i]
    BY <2>0
  <2> QED  BY <2>1, <2>2, <2>3
<1> HIDE DEF c
<1>0. Len(t) \in Nat /\ Len(u) \in Nat /\ Len(r) \in Nat
  OBVIOUS
<1>7. Len(c) = Len(r)
  <2>1. Len(w) = Len(t) + Len(u) /\ Len(w) = n + Len(r) /\ n \in Nat
    BY <1>1
  <2>2. Len(b) = Len(t) - (n + 1) + 1 /\ Len(c) = Len(b) + Len(u)
    BY <1>5, <1>6
  <2>3. Len(c) = Len(t) - (n + 1) + 1 + Len(u)
    BY <2>2
  <2>4. n + Len(r) = Len(t) + Len(u)
    BY <2>1
  <2> QED  BY <1>0, <2>1, <2>3, <2>4
<1>8. ASSUME NEW i \in 1 .. Len(c) PROVE c[i] = r[i]
  <2>1. w[n + i] = r[i]
    BY <1>2, <1>7
  <2>2. CASE i <= Len(b)
    <3>1. c[i] = b[i] /\ b[i] = t[n + 1 + i - 1] /\ n + 1 + i - 1 = n + i
      BY <1>0, <1>1, <1>5, <1>6, <2>2
    <3>2. n + i \in 1 .. Len(t)
      BY <1>0, <1>1, <1>5, <2>2
    <3> QED  BY <1>1, <2>1, <3>1, <3>2
  <2>3. CASE ~ i <= Len(b)
    <3> DEFINE k == i - Len(b)
    <3>1. k \in 1 .. Len(u) /\ i = Len(b) + k /\ n + i = Len(t) + k
      BY <1>0, <1>1, <1>5, <1>6, <2>3
    <3> HIDE DEF k
    <3>2. c[i] = u[k] /\ w[n + i] = u[k]
      BY <1>1, <1>6, <3>1
    <3> QED  BY <2>1, <3>2
  <2> QED  BY <2>2, <2>3
<1>9. c = r
  BY <1>6, <1>7, <1>8, SeqEqual
<1> QED  BY <1>3, <1>4, <1>9 DEF c, b, n, Leaves

Rejoins(w, n) == w = SubSeq(w, 1, n) \o From(w, n + 1)

LEMMA SplitAt ==
  ASSUME NEW S, NEW w \in Seq(S), NEW n \in 0 .. Len(w)
  PROVE  /\ SubSeq(w, 1, n) \in Seq(S) /\ Len(SubSeq(w, 1, n)) = n
         /\ \A i \in 1 .. n : SubSeq(w, 1, n)[i] = w[i]
         /\ From(w, n + 1) \in Seq(S) /\ Len(From(w, n + 1)) = Len(w) - n
         /\ Rejoins(w, n)
<1> DEFINE a == SubSeq(w, 1, n)
           b == From(w, n + 1)
           c == a \o b
<1>0. n \in Nat /\ n <= Len(w) /\ Len(w) \in Nat /\ n + 1 \in 1 .. Len(w) + 1
      /\ Len(w) - (n + 1) + 1 = Len(w) - n
  OBVIOUS
<1>1. a \in Seq(S) /\ Len(a) = n /\ \A i \in 1 .. n : a[i] = w[i]
  OBVIOUS
<1>2. b \in Seq(S) /\ Len(b) = Len(w) - n
      /\ \A i \in 1 .. Len(w) - n : b[i] = w[n + 1 + i - 1]
  BY <1>0, FromIs
<1> HIDE DEF a, b
<1>3. c \in Seq(S) /\ Len(c) = Len(a) + Len(b)
      /\ \A i \in 1 .. Len(a) + Len(b) : c[i] = IF i <= Len(a) THEN a[i] ELSE b[i - Len(a)]
  BY <1>1, <1>2, ConcatProperties
<1> HIDE DEF c
<1>4. Len(c) = Len(w)
  BY <1>0, <1>1, <1>2, <1>3
<1>5. ASSUME NEW i \in 1 .. Len(w) PROVE c[i] = w[i]
  <2>1. CASE i <= n
    BY <1>0, <1>1, <1>2, <1>3, <2>1
  <2>2. CASE ~ i <= n
    <3>1. i - n \in 1 .. Len(w) - n /\ n + 1 + (i - n) - 1 = i
      BY <1>0, <2>2
    <3>2. b[i - n] = w[i]
      BY <1>2, <3>1
    <3> QED  BY <1>0, <1>1, <1>2, <1>3, <2>2, <3>2
  <2> QED  BY <2>1, <2>2
<1>6. w = c
  BY <1>3, <1>4, <1>5, SeqEqual
<1> QED  BY <1>1, <1>2, <1>6 DEF a, b, c, Rejoins

Associates(a, b, c) == (a \o b) \o c = a \o (b \o c)

LEMMA Association ==
  ASSUME NEW S, NEW a \in Seq(S), NEW b \in Seq(S), NEW c \in Seq(S)
  PROVE  Associates(a, b, c)
<1>1. (a \o b) \o c = a \o (b \o c)
  OBVIOUS
<1> QED  BY <1>1 DEF Associates

-----------------------------------------------------------------------------
(* Recursion from 0 to n.                                                  *)

Forward(f, next, init, n) ==
  /\ f = [i \in 0 .. n |-> f[i]] /\ f[0] = init
  /\ \A i \in 1 .. n : f[i] = next[<<f[i - 1], i>>]

LEMMA ForwardExists ==
  ASSUME NEW S, NEW init \in S, NEW n \in Nat, NEW next \in [S \X (1 .. n) -> S]
  PROVE  \E f : Forward(f, next, init, n) /\ \A i \in 0 .. n : f[i] \in S
<1> DEFINE To(f, k) == /\ f = [i \in 0 .. k |-> f[i]] /\ f[0] = init
                       /\ \A i \in 1 .. k : f[i] = next[<<f[i - 1], i>>]
                       /\ \A i \in 0 .. k : f[i] \in S
           T == {k \in Nat : k <= n => \E f : To(f, k)}
<1>1. 0 \in T
  <2>1. To([i \in 0 .. 0 |-> init], 0)
    OBVIOUS
  <2> HIDE DEF To
  <2> QED  BY <2>1
<1>2. ASSUME NEW k \in Nat, k \in T PROVE k + 1 \in T
  <2> SUFFICES ASSUME k + 1 <= n PROVE \E f : To(f, k + 1)
    OBVIOUS
  <2>1. PICK f : To(f, k)
    BY <1>2
  <2> DEFINE e == next[<<f[k], k + 1>>]
             h == [i \in 0 .. k + 1 |-> IF i = k + 1 THEN e ELSE f[i]]
  <2>2. e \in S
    <3>1. f[k] \in S /\ k + 1 \in 1 .. n
      BY <2>1
    <3> QED  BY <3>1
  <2>3. h = [i \in 0 .. k + 1 |-> h[i]] /\ h[k + 1] = e /\ \A i \in 0 .. k : h[i] = f[i]
    <3> HIDE DEF e
    <3> QED  OBVIOUS
  <2>4. ASSUME NEW i \in 1 .. k + 1 PROVE h[i] = next[<<h[i - 1], i>>]
    <3>1. CASE i = k + 1
      <4>1. i - 1 \in 0 .. k /\ i - 1 = k
        BY <3>1
      <4>2. h[i - 1] = f[k]
        BY <2>3, <4>1
      <4> HIDE DEF h
      <4> QED  BY <2>3, <3>1, <4>2
    <3>2. CASE i # k + 1
      <4>1. i \in 1 .. k /\ i \in 0 .. k /\ i - 1 \in 0 .. k
        BY <3>2
      <4> HIDE DEF h
      <4> QED  BY <2>1, <2>3, <4>1
    <3> QED  BY <3>1, <3>2
  <2>5. ASSUME NEW i \in 0 .. k + 1 PROVE h[i] \in S
    <3>1. i = k + 1 \/ i \in 0 .. k
      OBVIOUS
    <3> HIDE DEF h, e
    <3> QED  BY <2>1, <2>2, <2>3, <3>1
  <2>6. h[0] = init
    <3>1. 0 \in 0 .. k
      OBVIOUS
    <3> HIDE DEF h
    <3> QED  BY <2>1, <2>3, <3>1
  <2>7. To(h, k + 1)
    <3> HIDE DEF h
    <3> QED  BY <2>3, <2>4, <2>5, <2>6
  <2> HIDE DEF To, h
  <2> QED  BY <2>7
<1>3. n \in T
  <2> HIDE DEF T
  <2> QED  BY <1>1, <1>2, Counting
<1>4. PICK f : To(f, n)
  BY <1>3
<1> QED  BY <1>4 DEF Forward
=============================================================================
