------------------------ MODULE LegacyKeyTable_proofs ------------------------
(***************************************************************************)
(* The configuration of myts for every set of files, and the table of keys *)
(* for every configuration: the value given last is found, and neither     *)
(* sorting nor sweeping loses a name.                                      *)
(***************************************************************************)
EXTENDS LegacyKeyTable, SequenceLemmas, FiniteSetTheorems, TLAPS

-----------------------------------------------------------------------------
(* Names and lists.                                                        *)

LEMMA MinIs ==
  ASSUME NEW I \in SUBSET Nat, I # {}
  PROVE  Min(I) \in I /\ \A i \in I : Min(I) <= i
<1>1. \E n \in I : \A m \in I : n <= m
  BY LeastOf
<1> QED  BY <1>1 DEF Min

LEMMA MaxIs ==
  ASSUME NEW n \in Nat, NEW I \in SUBSET (1 .. n), I # {}
  PROVE  Max(I) \in I /\ \A i \in I : i <= Max(I)
<1> DEFINE J == {n - i : i \in I}
<1>1. J \in SUBSET Nat /\ J # {}
  <2>1. \A i \in I : n - i \in Nat
    OBVIOUS
  <2>2. PICK i \in I : TRUE
    OBVIOUS
  <2>3. n - i \in J
    OBVIOUS
  <2> QED  BY <2>1, <2>3
<1>2. PICK j \in J : \A k \in J : j <= k
  <2> HIDE DEF J
  <2> QED  BY <1>1, LeastOf
<1>3. PICK m \in I : j = n - m
  BY <1>2
<1>4. ASSUME NEW i \in I PROVE i <= m
  <2>1. n - i \in J
    OBVIOUS
  <2>2. j <= n - i
    BY <1>2, <2>1
  <2> QED  BY <1>3, <2>2
<1>5. \E x \in I : \A y \in I : x >= y
  BY <1>4
<1> HIDE DEF J
<1> QED  BY <1>5 DEF Max

\* strcasecmp() of a name in one case.
LEMMA FoldedTwice ==
  ASSUME NEW name
  PROVE  Folded(Folded(name)) = Folded(name)
<1> DEFINE f == Folded(name)
<1>1. f = [i \in DOMAIN name |-> IF name[i] \in Word THEN Fold[name[i]] ELSE name[i]]
  BY DEF Folded
<1>2. DOMAIN f = DOMAIN name
  BY <1>1
<1>3. ASSUME NEW i \in DOMAIN name
      PROVE  (IF f[i] \in Word THEN Fold[f[i]] ELSE f[i]) = f[i]
  <2>1. CASE name[i] \in Word
    <3>1. f[i] = Fold[name[i]] /\ f[i] \in Word
      BY <1>1, <2>1, ConfigAssumption
    <3> QED  BY <2>1, <3>1, ConfigAssumption
  <2>2. CASE name[i] \notin Word
    BY <1>1, <2>2
  <2> QED  BY <2>1, <2>2
<1> HIDE DEF f
<1>4. Folded(f) = [i \in DOMAIN f |-> f[i]]
  BY <1>2, <1>3 DEF Folded
<1>5. f = [i \in DOMAIN f |-> f[i]]
  BY <1>1, <1>2
<1> QED  BY <1>4, <1>5 DEF f

\* The first of a list that has the name.
Section(list, name, s) ==
  /\ s \in 1 .. Len(list) /\ SameName(list[s].name, name)
  /\ \A t \in 1 .. s - 1 : ~ SameName(list[t].name, name)

NoSection(list, name) == \A t \in 1 .. Len(list) : ~ SameName(list[t].name, name)

Entry(keys, name, k) ==
  /\ k \in 1 .. Len(keys) /\ SameName(keys[k].key, name)
  /\ \A t \in 1 .. k - 1 : ~ SameName(keys[t].key, name)

NoEntry(keys, name) == \A t \in 1 .. Len(keys) : ~ SameName(keys[t].key, name)

LEMMA FindSectionIs ==
  ASSUME NEW list, NEW name, Len(list) \in Nat
  PROVE  \/ Section(list, name, cfg_find_section(list, name))
         \/ cfg_find_section(list, name) = 0 /\ NoSection(list, name)
<1> DEFINE I == {i \in 1 .. Len(list) : SameName(list[i].name, name)}
<1>1. cfg_find_section(list, name) = IF I # {} THEN Min(I) ELSE 0
  BY Zenon DEF cfg_find_section, SelectInSeq
<1>2. CASE I # {}
  <2>0. I \in SUBSET Nat
    OBVIOUS
  <2>1. Min(I) \in I /\ \A i \in I : Min(I) <= i
    <3> HIDE DEF I
    <3> QED  BY <1>2, <2>0, MinIs
  <2>2. PICK s : s = Min(I)
    OBVIOUS
  <2>3. s \in 1 .. Len(list) /\ SameName(list[s].name, name) /\ \A i \in I : s <= i
    BY <2>1, <2>2
  <2>4. ASSUME NEW t \in 1 .. s - 1 PROVE ~ SameName(list[t].name, name)
    <3>1. t \in 1 .. Len(list) /\ ~ s <= t
      BY <2>3
    <3> QED  BY <2>3, <3>1
  <2> QED  BY <1>1, <1>2, <2>2, <2>3, <2>4 DEF Section
<1>3. CASE I = {}
  BY <1>1, <1>3 DEF NoSection
<1> QED  BY <1>2, <1>3

LEMMA FindEntryIs ==
  ASSUME NEW keys, NEW name, Len(keys) \in Nat
  PROVE  \/ Entry(keys, name, cfg_find_entry(keys, name))
         \/ cfg_find_entry(keys, name) = 0 /\ NoEntry(keys, name)
<1> DEFINE I == {i \in 1 .. Len(keys) : SameName(keys[i].key, name)}
<1>1. cfg_find_entry(keys, name) = IF I # {} THEN Min(I) ELSE 0
  BY Zenon DEF cfg_find_entry, SelectInSeq
<1>2. CASE I # {}
  <2>0. I \in SUBSET Nat
    OBVIOUS
  <2>1. Min(I) \in I /\ \A i \in I : Min(I) <= i
    <3> HIDE DEF I
    <3> QED  BY <1>2, <2>0, MinIs
  <2>2. PICK s : s = Min(I)
    OBVIOUS
  <2>3. s \in 1 .. Len(keys) /\ SameName(keys[s].key, name) /\ \A i \in I : s <= i
    BY <2>1, <2>2
  <2>4. ASSUME NEW t \in 1 .. s - 1 PROVE ~ SameName(keys[t].key, name)
    <3>1. t \in 1 .. Len(keys) /\ ~ s <= t
      BY <2>3
    <3> QED  BY <2>3, <3>1
  <2> QED  BY <1>1, <1>2, <2>2, <2>3, <2>4 DEF Entry
<1>3. CASE I = {}
  BY <1>1, <1>3 DEF NoEntry
<1> QED  BY <1>2, <1>3

LEMMA SectionIs ==
  ASSUME NEW list, NEW name, NEW s, Len(list) \in Nat, Section(list, name, s)
  PROVE  cfg_find_section(list, name) = s /\ s # 0
<1> DEFINE t == cfg_find_section(list, name)
<1>1. Section(list, name, t) \/ (t = 0 /\ NoSection(list, name))
  BY FindSectionIs
<1> HIDE DEF t
<1>2. Section(list, name, t)
  BY <1>1 DEF NoSection, Section
<1>3. s \in 1 .. Len(list) /\ t \in 1 .. Len(list) /\ ~ s \in 1 .. t - 1 /\ ~ t \in 1 .. s - 1
  BY <1>2 DEF Section
<1>4. s = t /\ s # 0
  BY <1>3
<1> QED  BY <1>4 DEF t

LEMMA EntryIs ==
  ASSUME NEW keys, NEW name, NEW s, Len(keys) \in Nat, Entry(keys, name, s)
  PROVE  cfg_find_entry(keys, name) = s /\ s # 0
<1> DEFINE t == cfg_find_entry(keys, name)
<1>1. Entry(keys, name, t) \/ (t = 0 /\ NoEntry(keys, name))
  BY FindEntryIs
<1> HIDE DEF t
<1>2. Entry(keys, name, t)
  BY <1>1 DEF NoEntry, Entry
<1>3. s \in 1 .. Len(keys) /\ t \in 1 .. Len(keys) /\ ~ s \in 1 .. t - 1 /\ ~ t \in 1 .. s - 1
  BY <1>2 DEF Entry
<1>4. s = t /\ s # 0
  BY <1>3
<1> QED  BY <1>4 DEF t

\* A name and what it is in one case are the same name.
LEMMA SameFolded ==
  ASSUME NEW a, NEW b
  PROVE  SameName(a, Folded(b)) <=> SameName(a, b)
  BY FoldedTwice DEF SameName

LEMMA SectionFolded ==
  ASSUME NEW list, NEW name, NEW s, Section(list, name, s)
  PROVE  Section(list, Folded(name), s)
  BY SameFolded DEF Section

-----------------------------------------------------------------------------
(* What a line does to the lists.                                          *)

Entries    == {line \in Line : IsEntry(line) /\ ~ IsInclude(line) /\ HasValue(line)}
EntryRec   == [key : {KeyOf[line] : line \in Entries}, value : {ValueOf[line] : line \in Entries}]
SectionName == {NameOf(line) : line \in {l \in Line : IsSection(l) /\ IsClosed(l)}}
SectionRec == [name : SectionName, keys : Seq(EntryRec)]

\* The list b is a with x in front.
InFront(a, x, b) ==
  Len(b) = Len(a) + 1 /\ b[1] = x /\ \A i \in 1 .. Len(a) : b[i + 1] = a[i]

LEMMA ConsIs ==
  ASSUME NEW S, NEW a \in Seq(S), NEW x \in S
  PROVE  <<x>> \o a \in Seq(S) /\ InFront(a, x, <<x>> \o a)
<1> DEFINE b == <<x>> \o a
<1>1. <<x>> \in Seq(S) /\ Len(<<x>>) = 1 /\ <<x>>[1] = x /\ Len(a) \in Nat
  OBVIOUS
<1>2. /\ b \in Seq(S) /\ Len(b) = 1 + Len(a)
      /\ \A i \in 1 .. 1 + Len(a) : b[i] = IF i <= 1 THEN <<x>>[i] ELSE a[i - 1]
  BY <1>1, ConcatProperties
<1> HIDE DEF b
<1>3. 1 \in 1 .. 1 + Len(a) /\ 1 <= 1
  BY <1>1
<1>4. b[1] = x
  BY <1>1, <1>2, <1>3
<1>5. ASSUME NEW i \in 1 .. Len(a) PROVE b[i + 1] = a[i]
  <2>1. i + 1 \in 1 .. 1 + Len(a) /\ ~ i + 1 <= 1 /\ i + 1 - 1 = i
    BY <1>1
  <2> QED  BY <1>2, <2>1
<1>6. InFront(a, x, b) /\ b \in Seq(S)
  BY <1>1, <1>2, <1>4, <1>5 DEF InFront
<1> QED  BY <1>6 DEF b

LEMMA SectionBehind ==
  ASSUME NEW a, NEW x, NEW b, NEW name, NEW s, Len(a) \in Nat, InFront(a, x, b),
         Section(a, name, s), ~ SameName(x.name, name)
  PROVE  Section(b, name, s + 1) /\ b[s + 1] = a[s]
<1>1. s \in 1 .. Len(a) /\ SameName(a[s].name, name) /\ s \in Nat
  BY DEF Section
<1>2. s + 1 \in 1 .. Len(b) /\ b[s + 1] = a[s]
  BY <1>1 DEF InFront
<1>3. ASSUME NEW t \in 1 .. s + 1 - 1 PROVE ~ SameName(b[t].name, name)
  <2>1. CASE t = 1
    BY <2>1 DEF InFront
  <2>2. CASE t # 1
    <3>1. t - 1 \in 1 .. s - 1 /\ t - 1 \in 1 .. Len(a) /\ t - 1 + 1 = t
      BY <1>1, <2>2
    <3>2. b[t] = a[t - 1]
      BY <3>1 DEF InFront
    <3> QED  BY <3>1, <3>2 DEF Section
  <2> QED  BY <2>1, <2>2
<1> QED  BY <1>1, <1>2, <1>3 DEF Section

LEMMA EntryBehind ==
  ASSUME NEW a, NEW x, NEW b, NEW name, NEW s, Len(a) \in Nat, InFront(a, x, b),
         Entry(a, name, s), ~ SameName(x.key, name)
  PROVE  Entry(b, name, s + 1) /\ b[s + 1] = a[s]
<1>1. s \in 1 .. Len(a) /\ SameName(a[s].key, name) /\ s \in Nat
  BY DEF Entry
<1>2. s + 1 \in 1 .. Len(b) /\ b[s + 1] = a[s]
  BY <1>1 DEF InFront
<1>3. ASSUME NEW t \in 1 .. s + 1 - 1 PROVE ~ SameName(b[t].key, name)
  <2>1. CASE t = 1
    BY <2>1 DEF InFront
  <2>2. CASE t # 1
    <3>1. t - 1 \in 1 .. s - 1 /\ t - 1 \in 1 .. Len(a) /\ t - 1 + 1 = t
      BY <1>1, <2>2
    <3>2. b[t] = a[t - 1]
      BY <3>1 DEF InFront
    <3> QED  BY <3>1, <3>2 DEF Entry
  <2> QED  BY <2>1, <2>2
<1> QED  BY <1>1, <1>2, <1>3 DEF Entry

LEMMA SectionFront ==
  ASSUME NEW a, NEW x, NEW b, Len(a) \in Nat, InFront(a, x, b)
  PROVE  Section(b, x.name, 1)
<1>1. 1 \in 1 .. Len(b) /\ b[1] = x /\ 1 .. 1 - 1 = {}
  BY DEF InFront
<1> QED  BY <1>1 DEF Section, SameName

LEMMA EntryFront ==
  ASSUME NEW a, NEW x, NEW b, Len(a) \in Nat, InFront(a, x, b),
         NEW name, SameName(x.key, name)
  PROVE  Entry(b, name, 1)
<1>1. 1 \in 1 .. Len(b) /\ b[1] = x /\ 1 .. 1 - 1 = {}
  BY DEF InFront
<1> QED  BY <1>1 DEF Entry

\* The list b is a with the keys of section i replaced.
Rekeyed(a, i, keys, b) ==
  /\ Len(b) = Len(a) /\ i \in 1 .. Len(a)
  /\ \A j \in 1 .. Len(a) : b[j].name = a[j].name
                            /\ b[j].keys = IF j = i THEN keys ELSE a[j].keys

LEMMA RekeyedIs ==
  ASSUME NEW a \in Seq(SectionRec), NEW i \in 1 .. Len(a), NEW keys \in Seq(EntryRec)
  PROVE  /\ [a EXCEPT ![i].keys = keys] \in Seq(SectionRec)
         /\ Rekeyed(a, i, keys, [a EXCEPT ![i].keys = keys])
<1> DEFINE K == Seq(EntryRec)
           b == [a EXCEPT ![i].keys = keys]
           r == [a[i] EXCEPT !.keys = keys]
<1>1. Len(a) \in Nat /\ DOMAIN a = 1 .. Len(a) /\ \A j \in 1 .. Len(a) : a[j] \in SectionRec
  OBVIOUS
<1>2. r \in SectionRec /\ r.name = a[i].name /\ r.keys = keys
  <2>1. a[i] \in [name : SectionName, keys : K] /\ keys \in K
    BY <1>1 DEF SectionRec
  <2> HIDE DEF K
  <2>2. /\ r \in [name : SectionName, keys : K]
        /\ r.name = a[i].name /\ r.keys = keys
    BY <2>1
  <2> QED  BY <2>2 DEF SectionRec, K
<1>3. b = [a EXCEPT ![i] = r]
  OBVIOUS
<1> HIDE DEF r
<1>4. b \in Seq(SectionRec) /\ Len(b) = Len(a)
      /\ \A j \in 1 .. Len(a) : b[j] = IF j = i THEN r ELSE a[j]
  BY <1>1, <1>2, <1>3, ExceptSeq
<1> QED  BY <1>2, <1>4 DEF Rekeyed

LEMMA SectionRekeyed ==
  ASSUME NEW a, NEW i, NEW keys, NEW b, Rekeyed(a, i, keys, b), NEW name, NEW s,
         Len(a) \in Nat, Section(a, name, s)
  PROVE  Section(b, name, s)
<1>1. s \in 1 .. Len(a) /\ \A t \in 1 .. s - 1 : t \in 1 .. Len(a)
  BY DEF Section
<1> QED  BY <1>1 DEF Section, Rekeyed

\* What Assign makes of the list a.
Assigned(a, key, value, b) ==
  \/ /\ Len(b) = Len(a) /\ \A i \in 1 .. Len(a) : b[i].key = a[i].key
     /\ \E k \in 1 .. Len(a) : Entry(b, <<>>, k)
  \/ InFront(a, [key |-> key, value |-> value], b)

LEMMA AssignIs ==
  ASSUME NEW a \in Seq(EntryRec), NEW line \in Entries
  PROVE  /\ Assign(a, KeyOf[line], ValueOf[line]) \in Seq(EntryRec)
         /\ Assigned(a, KeyOf[line], ValueOf[line], Assign(a, KeyOf[line], ValueOf[line]))
<1> DEFINE key == KeyOf[line]
           value == ValueOf[line]
           x == [key |-> key, value |-> value]
           old == cfg_find_entry(a, <<>>)
<1>1. Len(a) \in Nat /\ DOMAIN a = 1 .. Len(a) /\ \A j \in 1 .. Len(a) : a[j] \in EntryRec
  OBVIOUS
<1>2. x \in EntryRec
  BY DEF EntryRec
<1>3. Entry(a, <<>>, old) \/ old = 0
  BY <1>1, FindEntryIs
<1>4. Assign(a, key, value) = IF old # 0 THEN [a EXCEPT ![old].value = value] ELSE <<x>> \o a
  BY DEF Assign
<1>5. CASE old = 0
  <2> DEFINE b == <<x>> \o a
  <2>1. b \in Seq(EntryRec) /\ InFront(a, x, b)
    BY <1>2, ConsIs
  <2>2. Assign(a, key, value) = b
    BY <1>4, <1>5
  <2> HIDE DEF b
  <2> QED  BY <2>1, <2>2 DEF Assigned
<1>6. CASE old # 0
  <2>1. Entry(a, <<>>, old) /\ old \in 1 .. Len(a)
    BY <1>3, <1>6 DEF Entry
  <2> DEFINE r == [a[old] EXCEPT !.value = value]
             b == [a EXCEPT ![old].value = value]
  <2>2. r \in EntryRec /\ r.key = a[old].key
    <3>1. a[old] \in EntryRec /\ value \in {ValueOf[l] : l \in Entries}
      BY <1>1, <2>1
    <3> HIDE DEF old, value
    <3> QED  BY <3>1 DEF EntryRec
  <2>3. b = [a EXCEPT ![old] = r]
    OBVIOUS
  <2> HIDE DEF r, old
  <2>4. b \in Seq(EntryRec) /\ Len(b) = Len(a)
        /\ \A j \in 1 .. Len(a) : b[j] = IF j = old THEN r ELSE a[j]
    BY <1>1, <2>1, <2>2, <2>3, ExceptSeq
  <2> HIDE DEF b
  <2>5. \A j \in 1 .. Len(a) : b[j].key = a[j].key
    BY <2>2, <2>4
  <2>6. Entry(b, <<>>, old)
    <3>1. \A t \in 1 .. old - 1 : t \in 1 .. Len(a)
      BY <1>1, <2>1
    <3> QED  BY <2>1, <2>4, <2>5, <3>1 DEF Entry
  <2>7. Assign(a, key, value) = b
    BY <1>4, <1>6 DEF b
  <2> QED  BY <2>1, <2>4, <2>5, <2>6, <2>7 DEF Assigned
<1> HIDE DEF old
<1> QED  BY <1>5, <1>6

-----------------------------------------------------------------------------
(* Lookups.                                                                *)

\* A frame of open has no section, or one that is in the list.
Frame(list, name) == name = None \/ \E s \in 1 .. Len(list) : Section(list, name, s)

\* What is kept of a place given: its section is there, and the section is
\* spoiled or has the value.
Looked(list, given_, at) ==
  \E s \in 1 .. Len(list) :
    /\ Section(list, at[1], s)
    /\ \/ \E k \in 1 .. Len(list[s].keys) : Entry(list[s].keys, <<>>, k)
       \/ \E k \in 1 .. Len(list[s].keys) :
            Entry(list[s].keys, at[2], k) /\ list[s].keys[k].value = given_[at]

Place(sec, key) == <<Folded(sec), Folded(key)>>

IsPlace(at) == \E sec, key : at = Place(sec, key)

\* Every entry was given by some line.
Given(list, given_) ==
  \A s \in 1 .. Len(list) : \A k \in 1 .. Len(list[s].keys) :
    Place(list[s].name, list[s].keys[k].key) \in DOMAIN given_

AllLooked(list, given_) == \A at \in DOMAIN given_ : IsPlace(at) /\ Looked(list, given_, at)

LEMMA LookedSpoiled ==
  ASSUME NEW list, NEW g, NEW at, NEW s \in 1 .. Len(list), Section(list, at[1], s),
         NEW keys, list[s].keys = keys, NEW k \in 1 .. Len(keys), Entry(keys, <<>>, k)
  PROVE  Looked(list, g, at)
  BY DEF Looked

LEMMA LookedValue ==
  ASSUME NEW list, NEW g, NEW at, NEW s \in 1 .. Len(list), Section(list, at[1], s),
         NEW keys, list[s].keys = keys,
         NEW k \in 1 .. Len(keys), Entry(keys, at[2], k), keys[k].value = g[at]
  PROVE  Looked(list, g, at)
  BY DEF Looked

\* A new section in front, for a name that no section has.
LEMMA NewSection ==
  ASSUME NEW a \in Seq(SectionRec), NEW b \in Seq(SectionRec), NEW x, x.keys = <<>>,
         InFront(a, x, b), NoSection(a, x.name), NEW given_
  PROVE  /\ \A name : Frame(a, name) => Frame(b, name)
         /\ Frame(b, x.name)
         /\ Given(a, given_) => Given(b, given_)
         /\ AllLooked(a, given_) => AllLooked(b, given_)
<1>1. Len(a) \in Nat /\ Len(b) = Len(a) + 1 /\ Len(x.keys) = 0
  BY DEF InFront
<1>2. ASSUME NEW name, NEW s \in 1 .. Len(a), Section(a, name, s)
      PROVE  Section(b, name, s + 1) /\ b[s + 1] = a[s] /\ s + 1 \in 1 .. Len(b)
  <2>1. ~ SameName(x.name, name)
    <3>1. SameName(a[s].name, name) /\ ~ SameName(a[s].name, x.name)
      BY <1>2 DEF Section, NoSection
    <3> QED  BY <3>1 DEF SameName
  <2> QED  BY <1>1, <1>2, <2>1, SectionBehind
<1>3. ASSUME NEW name, Frame(a, name) PROVE Frame(b, name)
  BY <1>2, <1>3 DEF Frame
<1>4. Frame(b, x.name)
  <2>1. 1 \in 1 .. Len(b)
    BY <1>1
  <2> QED  BY <1>1, <2>1, SectionFront DEF Frame
<1>5. ASSUME Given(a, given_) PROVE Given(b, given_)
  <2> SUFFICES ASSUME NEW s \in 1 .. Len(b), NEW k \in 1 .. Len(b[s].keys)
               PROVE  Place(b[s].name, b[s].keys[k].key) \in DOMAIN given_
    BY DEF Given
  <2>1. s # 1
    BY <1>1 DEF InFront
  <2>2. s - 1 \in 1 .. Len(a) /\ s - 1 + 1 = s
    BY <1>1, <2>1
  <2>3. b[s] = a[s - 1]
    BY <2>2 DEF InFront
  <2> QED  BY <1>5, <2>2, <2>3 DEF Given
<1>6. ASSUME AllLooked(a, given_) PROVE AllLooked(b, given_)
  <2> SUFFICES ASSUME NEW at \in DOMAIN given_ PROVE IsPlace(at) /\ Looked(b, given_, at)
    BY DEF AllLooked
  <2>1. IsPlace(at) /\ Looked(a, given_, at)
    BY <1>6 DEF AllLooked
  <2>2. PICK s \in 1 .. Len(a) :
          /\ Section(a, at[1], s)
          /\ \/ \E k \in 1 .. Len(a[s].keys) : Entry(a[s].keys, <<>>, k)
             \/ \E k \in 1 .. Len(a[s].keys) :
                  Entry(a[s].keys, at[2], k) /\ a[s].keys[k].value = given_[at]
    BY <2>1 DEF Looked
  <2>3. Section(b, at[1], s + 1) /\ b[s + 1] = a[s] /\ s + 1 \in 1 .. Len(b)
    BY <1>2, <2>2
  <2> QED  BY <2>1, <2>2, <2>3 DEF Looked
<1> QED  BY <1>3, <1>4, <1>5, <1>6

\* The history g with one more value given.
GivenAt(g, at, value, h) ==
  /\ DOMAIN h = DOMAIN g \cup {at} /\ h[at] = value
  /\ \A x \in DOMAIN g : x # at => h[x] = g[x]

\* An entry for the section i, which is found as sec.
LEMMA NewEntry ==
  ASSUME NEW a \in Seq(SectionRec), NEW b \in Seq(SectionRec), NEW i, NEW keys,
         NEW sec, NEW key, NEW value, NEW g, NEW h,
         Rekeyed(a, i, keys, b), Section(a, sec, i), Assigned(a[i].keys, key, value, keys),
         Given(a, g), AllLooked(a, g),
         GivenAt(g, Place(sec, key), value, h)
  PROVE  /\ \A name : Frame(a, name) => Frame(b, name)
         /\ Given(b, h) /\ AllLooked(b, h)
<1> DEFINE p == Place(sec, key)
           old == a[i].keys
<1>0. p = <<Folded(sec), Folded(key)>> /\ p[1] = Folded(sec) /\ p[2] = Folded(key)
  BY DEF Place
<1>1. /\ Len(a) \in Nat /\ Len(b) = Len(a) /\ i \in 1 .. Len(a)
      /\ b[i].keys = keys /\ b[i].name = a[i].name /\ Len(old) \in Nat
      /\ \A j \in 1 .. Len(a) : b[j].name = a[j].name /\ (j # i => b[j].keys = a[j].keys)
  <2>1. Len(a) \in Nat /\ \A j \in 1 .. Len(a) : a[j] \in SectionRec
    OBVIOUS
  <2>2. i \in 1 .. Len(a) /\ a[i].keys \in Seq(EntryRec)
    BY <2>1 DEF Rekeyed, SectionRec
  <2> QED  BY <2>1, <2>2 DEF Rekeyed
<1>2. DOMAIN h = DOMAIN g \cup {p} /\ h[p] = value /\ \A x \in DOMAIN g : x # p => h[x] = g[x]
  BY DEF GivenAt
<1>3. ASSUME NEW name, NEW s \in 1 .. Len(a), Section(a, name, s) PROVE Section(b, name, s)
  BY <1>1, <1>3, SectionRekeyed
<1>4. ASSUME NEW name, Frame(a, name) PROVE Frame(b, name)
  BY <1>1, <1>3, <1>4 DEF Frame
<1>5. Given(b, h)
  <2> SUFFICES ASSUME NEW s \in 1 .. Len(b), NEW k \in 1 .. Len(b[s].keys)
               PROVE  Place(b[s].name, b[s].keys[k].key) \in DOMAIN h
    BY DEF Given
  <2> HIDE DEF p
  <2>1. CASE s # i
    BY <1>1, <1>2, <2>1 DEF Given
  <2>2. CASE s = i /\ k \in 1 .. Len(old) /\ keys[k].key = old[k].key
    BY <1>1, <1>2, <2>2 DEF Given
  <2>3. CASE s = i /\ InFront(old, [key |-> key, value |-> value], keys)
    <3>1. CASE k = 1
      <4>1. keys[k].key = key
        BY <2>3, <3>1 DEF InFront
      <4>2. Folded(a[i].name) = Folded(sec)
        BY DEF Section, SameName
      <4>3. Place(a[i].name, key) = p
        BY <1>0, <4>2 DEF Place
      <4> QED  BY <1>1, <1>2, <2>3, <4>1, <4>3
    <3>2. CASE k # 1
      <4>1. k - 1 \in 1 .. Len(old) /\ k - 1 + 1 = k
        BY <1>1, <2>3, <3>2 DEF InFront
      <4>2. keys[k] = old[k - 1]
        BY <2>3, <4>1 DEF InFront
      <4> QED  BY <1>1, <1>2, <2>3, <4>1, <4>2 DEF Given
    <3> QED  BY <3>1, <3>2
  <2> QED  BY <1>1, <2>1, <2>2, <2>3 DEF Assigned
<1>6. AllLooked(b, h)
  <2> SUFFICES ASSUME NEW at \in DOMAIN h PROVE IsPlace(at) /\ Looked(b, h, at)
    BY DEF AllLooked
  <2>1. CASE at = p
    <3>1. Section(b, at[1], i)
      <4>1. Section(a, p[1], i)
        BY <1>0, SectionFolded
      <4> QED  BY <1>1, <1>3, <2>1, <4>1
    <3>2. ASSUME \E k \in 1 .. Len(old) : Len(keys) = Len(old) /\ Entry(keys, <<>>, k)
          PROVE  Looked(b, h, at)
      BY <1>1, <3>1, <3>2, LookedSpoiled
    <3>3. ASSUME InFront(old, [key |-> key, value |-> value], keys) PROVE Looked(b, h, at)
      <4>1. SameName(key, p[2])
        BY <1>0, SameFolded DEF SameName
      <4>2. Entry(keys, p[2], 1) /\ keys[1].value = value /\ 1 \in 1 .. Len(keys)
        <5>1. Entry(keys, p[2], 1)
          BY <1>1, <3>3, <4>1, EntryFront
        <5> QED  BY <1>1, <3>3, <5>1 DEF InFront
      <4> QED  BY <1>1, <1>2, <2>1, <3>1, <4>2, LookedValue
    <3>4. IsPlace(at)
      BY <2>1 DEF IsPlace
    <3> QED  BY <3>2, <3>3, <3>4 DEF Assigned
  <2>2. CASE at # p
    <3>1. at \in DOMAIN g /\ h[at] = g[at] /\ IsPlace(at) /\ Looked(a, g, at)
      BY <1>2, <2>2 DEF AllLooked
    <3>2. PICK s \in 1 .. Len(a) :
            /\ Section(a, at[1], s)
            /\ \/ \E k \in 1 .. Len(a[s].keys) : Entry(a[s].keys, <<>>, k)
               \/ \E k \in 1 .. Len(a[s].keys) :
                    Entry(a[s].keys, at[2], k) /\ a[s].keys[k].value = g[at]
      BY <3>1 DEF Looked
    <3>3. Section(b, at[1], s) /\ s \in 1 .. Len(b)
      BY <1>1, <1>3, <3>2
    <3>4. ASSUME s # i PROVE Looked(b, h, at)
      BY <1>1, <3>1, <3>2, <3>3, <3>4 DEF Looked
    <3>5. ASSUME s = i, \E k \in 1 .. Len(old) : Len(keys) = Len(old) /\ Entry(keys, <<>>, k)
          PROVE  Looked(b, h, at)
      BY <1>1, <3>3, <3>5, LookedSpoiled
    <3>6. ASSUME s = i, InFront(old, [key |-> key, value |-> value], keys)
          PROVE  Looked(b, h, at)
      <4> DEFINE x == [key |-> key, value |-> value]
      <4>1. x.key = key /\ InFront(old, x, keys) /\ Len(keys) = Len(old) + 1
        BY <3>6 DEF InFront
      <4> HIDE DEF x
      <4>2. ASSUME NEW k \in 1 .. Len(old), Entry(old, <<>>, k) PROVE Looked(b, h, at)
        <5>1. CASE SameName(key, <<>>)
          <6>1. Entry(keys, <<>>, 1) /\ 1 \in 1 .. Len(keys)
            BY <1>1, <4>1, <5>1, EntryFront
          <6> QED  BY <1>1, <3>3, <3>6, <6>1, LookedSpoiled
        <5>2. CASE ~ SameName(key, <<>>)
          <6>1. Entry(keys, <<>>, k + 1) /\ k + 1 \in 1 .. Len(keys)
            BY <1>1, <4>1, <4>2, <5>2, EntryBehind
          <6> QED  BY <1>1, <3>3, <3>6, <6>1, LookedSpoiled
        <5> QED  BY <5>1, <5>2
      <4>3. ASSUME NEW k \in 1 .. Len(old), Entry(old, at[2], k), old[k].value = g[at]
            PROVE  Looked(b, h, at)
        <5>1. ~ SameName(key, at[2])
          <6> SUFFICES ASSUME SameName(key, at[2]) PROVE FALSE
            OBVIOUS
          <6>1. PICK q, r : at = Place(q, r)
            BY <3>1 DEF IsPlace
          <6>2. at = <<Folded(q), Folded(r)>> /\ at[1] = Folded(q) /\ at[2] = Folded(r)
            BY <6>1 DEF Place
          <6>3. Folded(key) = Folded(r)
            BY <6>2, SameFolded DEF SameName
          <6>4. Folded(sec) = Folded(q)
            <7>1. SameName(a[i].name, sec) /\ SameName(a[i].name, Folded(q))
              BY <3>2, <3>6, <6>2 DEF Section
            <7>2. SameName(a[i].name, q)
              BY <7>1, SameFolded
            <7> QED  BY <7>1, <7>2 DEF SameName
          <6> QED  BY <1>0, <2>2, <6>2, <6>3, <6>4
        <5>2. Entry(keys, at[2], k + 1) /\ keys[k + 1] = old[k] /\ k + 1 \in 1 .. Len(keys)
          BY <1>1, <4>1, <4>3, <5>1, EntryBehind
        <5> QED  BY <1>1, <3>1, <3>3, <3>6, <4>3, <5>2, LookedValue
      <4> QED  BY <3>1, <3>2, <3>6, <4>2, <4>3
    <3> QED  BY <3>1, <3>4, <3>5, <3>6 DEF Assigned
  <2> QED  BY <2>1, <2>2
<1> QED  BY <1>4, <1>5, <1>6

-----------------------------------------------------------------------------
(* Values are sequences.                                                   *)

Char == Word \cup Special

LEMMA SkipwsType ==
  ASSUME NEW S, NEW s \in Seq(S)
  PROVE  skipws(s) \in Seq(S)
<1> DEFINE text == {i \in DOMAIN s : s[i] # "space"}
<1>1. skipws(s) = IF text = {} THEN <<>> ELSE From(s, Min(text))
  BY DEF skipws, From
<1>2. CASE text = {}
  BY <1>1, <1>2, EmptySeq
<1>3. CASE text # {}
  <2>1. text \in SUBSET Nat /\ text \subseteq 1 .. Len(s)
    OBVIOUS
  <2>2. PICK m : m = Min(text) /\ m \in text
    <3> HIDE DEF text
    <3> QED  BY <1>3, <2>1, MinIs
  <2>3. m \in 1 .. Len(s) + 1
    BY <2>1, <2>2
  <2> HIDE DEF text
  <2> QED  BY <1>1, <1>3, <2>2, <2>3, FromIs
<1> QED  BY <1>2, <1>3

\* The loop of trimws().
Scanning(n) == [in_quote : BOOLEAN, escaped : BOOLEAN, last_ws : 0 .. n, end : 0 .. n]

ScanStart == [in_quote |-> FALSE, escaped |-> FALSE, last_ws |-> 0, end |-> 0]

ScanNext(t, c, i) ==
  LET first_ws == IF t.last_ws # 0 THEN t.last_ws ELSE i
  IN  CASE t.end # 0 -> t
        [] t.end = 0 /\ t.escaped -> [t EXCEPT !.escaped = FALSE]
        [] OTHER ->
             CASE c = "backslash" ->
                    [t EXCEPT !.escaped = TRUE, !.last_ws = 0]
               [] c # "backslash" /\ t.in_quote ->
                    [t EXCEPT !.in_quote = c \notin Quotes]
               [] c \in Quotes /\ ~ t.in_quote ->
                    [t EXCEPT !.in_quote = TRUE, !.last_ws = 0]
               [] (c = ";" \/ (i = 1 /\ c = "#")) /\ ~ t.in_quote ->
                    [t EXCEPT !.end = first_ws]
               [] c = "space" /\ ~ t.in_quote -> [t EXCEPT !.last_ws = first_ws]
               [] OTHER -> [t EXCEPT !.last_ws = 0]

Scan(f, s) ==
  f = [i \in 0 .. Len(s) |-> IF i = 0 THEN ScanStart ELSE ScanNext(f[i - 1], s[i], i)]

ScanEnd(t, n) == IF t.end # 0 THEN t.end ELSE IF t.last_ws # 0 THEN t.last_ws ELSE n + 1

LEMMA ScanNextType ==
  ASSUME NEW n \in Nat, NEW t \in Scanning(n), NEW c, NEW i \in 1 .. n
  PROVE  ScanNext(t, c, i) \in Scanning(n)
<1>1. /\ t.in_quote \in BOOLEAN /\ t.escaped \in BOOLEAN /\ t.last_ws \in 0 .. n /\ t.end \in 0 .. n
      /\ i \in 0 .. n /\ 0 \in 0 .. n
  BY DEF Scanning
<1>2. ASSUME NEW e \in 0 .. n
      PROVE  /\ [t EXCEPT !.escaped = FALSE] \in Scanning(n)
             /\ [t EXCEPT !.escaped = TRUE, !.last_ws = 0] \in Scanning(n)
             /\ [t EXCEPT !.in_quote = c \notin Quotes] \in Scanning(n)
             /\ [t EXCEPT !.in_quote = TRUE, !.last_ws = 0] \in Scanning(n)
             /\ [t EXCEPT !.end = e] \in Scanning(n)
             /\ [t EXCEPT !.last_ws = e] \in Scanning(n)
  BY <1>1 DEF Scanning
<1>3. (IF t.last_ws # 0 THEN t.last_ws ELSE i) \in 0 .. n
  BY <1>1
<1> QED  BY <1>1, <1>2, <1>3, Zenon DEF ScanNext

LEMMA ScanAt ==
  ASSUME NEW s, Len(s) \in Nat, NEW f, Scan(f, s)
  PROVE  f[0] = ScanStart /\ \A i \in 1 .. Len(s) : f[i] = ScanNext(f[i - 1], s[i], i)
<1> DEFINE e(j) == IF j = 0 THEN ScanStart ELSE ScanNext(f[j - 1], s[j], j)
<1>1. f = [j \in 0 .. Len(s) |-> e(j)]
  BY DEF Scan
<1> HIDE DEF e
<1>2. f[0] = e(0) /\ \A i \in 1 .. Len(s) : f[i] = e(i) /\ i # 0
  BY <1>1
<1> QED  BY <1>2 DEF e

LEMMA ScanExists ==
  ASSUME NEW s, Len(s) \in Nat
  PROVE  \E f : Scan(f, s)
<1> DEFINE n == Len(s)
           S == Scanning(n)
           next == [x \in S \X (1 .. n) |-> ScanNext(x[1], s[x[2]], x[2])]
<1>1. ScanStart \in S
  BY DEF ScanStart, Scanning
<1>2. next \in [S \X (1 .. n) -> S]
  <2>1. ASSUME NEW x \in S \X (1 .. n) PROVE ScanNext(x[1], s[x[2]], x[2]) \in S
    <3>1. x[1] \in Scanning(n) /\ x[2] \in 1 .. n
      OBVIOUS
    <3> HIDE DEF n
    <3> QED  BY <3>1, ScanNextType DEF n
  <2> HIDE DEF S
  <2> QED  BY <2>1
<1>3. PICK f : Forward(f, next, ScanStart, n) /\ \A i \in 0 .. n : f[i] \in S
  <2> HIDE DEF S, next
  <2> QED  BY <1>1, <1>2, ForwardExists
<1> DEFINE e(j) == IF j = 0 THEN ScanStart ELSE ScanNext(f[j - 1], s[j], j)
<1>4. ASSUME NEW i \in 0 .. n PROVE f[i] = e(i)
  <2>1. CASE i = 0
    BY <1>3, <2>1 DEF Forward
  <2>2. CASE i # 0
    <3>1. i \in 1 .. n /\ i - 1 \in 0 .. n
      BY <2>2
    <3>2. <<f[i - 1], i>> \in S \X (1 .. n)
      BY <1>3, <3>1
    <3>3. next[<<f[i - 1], i>>] = ScanNext(f[i - 1], s[i], i)
      <4> HIDE DEF S
      <4> QED  BY <3>2
    <3>4. f[i] = next[<<f[i - 1], i>>]
      <4> HIDE DEF next
      <4> QED  BY <1>3, <3>1 DEF Forward
    <3> QED  BY <2>2, <3>3, <3>4
  <2> QED  BY <2>1, <2>2
<1>5. f = [i \in 0 .. n |-> f[i]]
  BY <1>3 DEF Forward
<1> HIDE DEF e
<1>6. f = [i \in 0 .. n |-> e(i)]
  BY <1>4, <1>5
<1>7. Scan(f, s)
  BY <1>6 DEF Scan, e
<1> QED  BY <1>7

LEMMA ScanType ==
  ASSUME NEW s, Len(s) \in Nat, NEW f, Scan(f, s), NEW k \in 0 .. Len(s)
  PROVE  f[k] \in Scanning(Len(s))
<1> DEFINE n == Len(s)
           T == {i \in Nat : i <= n => f[i] \in Scanning(n)}
<1>1. 0 \in T
  <2>1. ScanStart \in Scanning(n)
    BY DEF ScanStart, Scanning
  <2>2. f[0] = ScanStart
    BY ScanAt
  <2> QED  BY <2>1, <2>2
<1>2. ASSUME NEW i \in Nat, i \in T PROVE i + 1 \in T
  <2> SUFFICES ASSUME i + 1 <= n PROVE f[i + 1] \in Scanning(n)
    OBVIOUS
  <2>1. i + 1 \in 1 .. n /\ i + 1 - 1 = i /\ f[i] \in Scanning(n)
    BY <1>2
  <2>2. f[i + 1] = ScanNext(f[i], s[i + 1], i + 1)
    BY <2>1, ScanAt
  <2> QED  BY <2>1, <2>2, ScanNextType
<1>3. k \in T
  <2> HIDE DEF T
  <2> QED  BY <1>1, <1>2, Counting
<1> QED  BY <1>3

LEMMA TrimwsIs ==
  ASSUME NEW s, Len(s) \in Nat
  PROVE  \E f : Scan(f, s) /\ trimws(s) = SubSeq(s, 1, ScanEnd(f[Len(s)], Len(s)) - 1)
<1> DEFINE f == CHOOSE g : Scan(g, s)
<1>1. Scan(f, s)
  BY ScanExists
<1>2. trimws(s) = SubSeq(s, 1, ScanEnd(f[Len(s)], Len(s)) - 1)
  BY DEF trimws, Scan, ScanStart, ScanNext, ScanEnd
<1> HIDE DEF f
<1> QED  BY <1>1, <1>2

LEMMA TrimwsType ==
  ASSUME NEW S, NEW s \in Seq(S)
  PROVE  trimws(s) \in Seq(S)
<1>1. Len(s) \in Nat
  OBVIOUS
<1>2. PICK f : Scan(f, s) /\ trimws(s) = SubSeq(s, 1, ScanEnd(f[Len(s)], Len(s)) - 1)
  BY <1>1, TrimwsIs
<1>3. f[Len(s)] \in Scanning(Len(s))
  BY <1>1, <1>2, ScanType
<1>4. ScanEnd(f[Len(s)], Len(s)) - 1 \in 0 .. Len(s)
  BY <1>1, <1>3 DEF ScanEnd, Scanning
<1> QED  BY <1>2, <1>4, SplitAt

LEMMA EqualsType ==
  ASSUME NEW s, Len(s) \in Nat
  PROVE  Equals(s) \in 0 .. Len(s)
<1>1. PICK e : LET at == {i \in 1 .. Len(s) : s[i] = "=" /\ ~ e[i]}
               IN  Equals(s) = IF at = {} THEN 0 ELSE Min(at)
  BY DEF Equals
<1> DEFINE at == {i \in 1 .. Len(s) : s[i] = "=" /\ ~ e[i]}
<1>2. Equals(s) = IF at = {} THEN 0 ELSE Min(at)
  BY <1>1
<1>3. at \in SUBSET Nat /\ at \subseteq 1 .. Len(s)
  OBVIOUS
<1> HIDE DEF at
<1>4. at # {} => Min(at) \in 1 .. Len(s)
  BY <1>3, MinIs
<1> QED  BY <1>2, <1>4

LEMMA ValueType ==
  ASSUME NEW line \in Line
  PROVE  /\ Trimmed[line] \in Seq(Char) /\ RestOf[line] \in Seq(Char)
         /\ ValueOf[line] \in Seq(Char)
<1> DEFINE t == Trimmed[line]
           r == RestOf[line]
<1>1. line \in Seq(Char)
  BY ConfigAssumption DEF Char
<1>2. t = trimws(skipws(line))
  BY DEF Trimmed
<1>3. t \in Seq(Char)
  BY <1>1, <1>2, SkipwsType, TrimwsType
<1>4. r = From(t, Equals(t) + 1)
  BY DEF RestOf, From
<1> HIDE DEF t
<1>5. Len(t) \in Nat
  BY <1>3
<1>6. Equals(t) + 1 \in 1 .. Len(t) + 1
  BY <1>5, EqualsType
<1>7. r \in Seq(Char)
  BY <1>3, <1>4, <1>6, FromIs
<1>8. ValueOf[line] = trimws(skipws(r))
  BY DEF ValueOf
<1> HIDE DEF r
<1>9. ValueOf[line] \in Seq(Char)
  BY <1>7, <1>8, SkipwsType, TrimwsType
<1> QED  BY <1>3, <1>7, <1>9 DEF t, r

-----------------------------------------------------------------------------
(* Backslashes and quotes, from the left to the right.                     *)

\* The n characters before place i, and no more, are backslashes.
Run(s, i, n) ==
  /\ n \in 0 .. i - 1 /\ \A j \in i - n .. i - 1 : s[j] = "backslash"
  /\ i - n = 1 \/ s[i - n - 1] # "backslash"

LEMMA RunExists ==
  ASSUME NEW s, NEW i \in Nat \ {0}
  PROVE  \E n : Run(s, i, n)
<1> DEFINE S == {n \in Nat : n <= i - 1 /\ (i - n = 1 \/ s[i - n - 1] # "backslash")}
<1>1. i - 1 \in S
  OBVIOUS
<1>2. PICK n \in S : \A m \in S : n <= m
  <2> HIDE DEF S
  <2>1. S # {}
    BY <1>1
  <2> QED  BY <2>1, LeastOf DEF S
<1>3. ASSUME NEW j \in i - n .. i - 1 PROVE s[j] = "backslash"
  <2>1. i - 1 - j \in Nat /\ i - 1 - j <= i - 1 /\ i - (i - 1 - j) - 1 = j /\ ~ n <= i - 1 - j
    OBVIOUS
  <2>2. i - 1 - j \notin S
    BY <1>2, <2>1
  <2> QED  BY <2>1, <2>2
<1>4. n \in 0 .. i - 1 /\ (i - n = 1 \/ s[i - n - 1] # "backslash")
  BY <1>2
<1>5. Run(s, i, n)
  BY <1>3, <1>4 DEF Run
<1> QED  BY <1>5

LEMMA RunUnique ==
  ASSUME NEW s, NEW i \in Nat \ {0}, NEW n, NEW m, Run(s, i, n), Run(s, i, m)
  PROVE  ~ n < m
<1> SUFFICES ASSUME n < m PROVE FALSE
  OBVIOUS
<1>1. n \in 0 .. i - 1 /\ m \in 0 .. i - 1
  BY DEF Run
<1>2. i - n - 1 \in i - m .. i - 1 /\ i - n # 1
  BY <1>1
<1> QED  BY <1>1, <1>2 DEF Run

LEMMA EscapedByRun ==
  ASSUME NEW s, NEW i \in Nat \ {0}, NEW n, Run(s, i, n)
  PROVE  Escaped(s, i) <=> n % 2 = 1
<1>1. n \in 0 .. i - 1
  BY DEF Run
<1>2. ASSUME n % 2 = 1 PROVE Escaped(s, i)
  <2>1. n \in 1 .. i - 1
    BY <1>1, <1>2
  <2> QED  BY <1>2, <2>1 DEF Run, Escaped
<1>3. ASSUME Escaped(s, i) PROVE n % 2 = 1
  <2>1. PICK m \in 1 .. i - 1 : m % 2 = 1 /\ (\A j \in i - m .. i - 1 : s[j] = "backslash")
                                /\ (i - m = 1 \/ s[i - m - 1] # "backslash")
    BY <1>3 DEF Escaped
  <2>2. Run(s, i, m)
    BY <2>1 DEF Run
  <2>3. ~ n < m /\ ~ m < n
    BY <2>2, RunUnique
  <2> QED  BY <1>1, <2>1, <2>3
<1> QED  BY <1>2, <1>3

LEMMA EscapedNext ==
  ASSUME NEW s, NEW i \in Nat \ {0}
  PROVE  Escaped(s, i + 1) <=> s[i] = "backslash" /\ ~ Escaped(s, i)
<1>1. PICK n : Run(s, i, n)
  BY RunExists
<1>2. n \in 0 .. i - 1 /\ i + 1 \in Nat \ {0}
  BY <1>1 DEF Run
<1>3. Escaped(s, i) <=> n % 2 = 1
  BY <1>1, EscapedByRun
<1>4. CASE s[i] = "backslash"
  <2>1. ASSUME NEW j \in i + 1 - (n + 1) .. i + 1 - 1 PROVE s[j] = "backslash"
    <3>1. j = i \/ j \in i - n .. i - 1
      BY <1>2
    <3> QED  BY <1>1, <1>4, <3>1 DEF Run
  <2>2. i + 1 - (n + 1) = i - n /\ n + 1 \in 0 .. i + 1 - 1
    BY <1>2
  <2>3. Run(s, i + 1, n + 1)
    BY <1>1, <2>1, <2>2 DEF Run
  <2>4. Escaped(s, i + 1) <=> (n + 1) % 2 = 1
    BY <1>2, <2>3, EscapedByRun
  <2>5. (n + 1) % 2 = 1 <=> ~ n % 2 = 1
    BY <1>2
  <2> QED  BY <1>3, <1>4, <2>4, <2>5
<1>5. CASE s[i] # "backslash"
  <2>1. Run(s, i + 1, 0)
    BY <1>5 DEF Run
  <2>2. Escaped(s, i + 1) <=> 0 % 2 = 1
    BY <1>2, <2>1, EscapedByRun
  <2> QED  BY <1>5, <2>2
<1> QED  BY <1>4, <1>5

LEMMA QuotesAre ==
  "backslash" \notin Quotes /\ "space" \notin Quotes /\ "=" \notin Quotes
  /\ ";" \notin Quotes /\ "#" \notin Quotes
  BY DEF Quotes

LEMMA QuotedNext ==
  ASSUME NEW s, NEW i \in Nat \ {0}
  PROVE  Quoted(s, i + 1) <=> ~ (Quoted(s, i) <=> s[i] \in Quotes /\ ~ Escaped(s, i))
<1> DEFINE quoting(k) == {j \in 1 .. k - 1 : IsQuote(s, j)}
           q == quoting(i)
           r == quoting(i + 1)
<1>1. /\ Quoted(s, i) <=> Cardinality(q) % 2 = 1
      /\ Quoted(s, i + 1) <=> Cardinality(r) % 2 = 1
  BY DEF Quoted
<1>2. IsFiniteSet(q) /\ Cardinality(q) \in Nat /\ i \notin q
  <2>1. IsFiniteSet(1 .. i - 1)
    <3>1. 1 \in Int /\ i - 1 \in Int
      OBVIOUS
    <3> QED  BY <3>1, FS_Interval
  <2>2. q \subseteq 1 .. i - 1 /\ i \notin q
    OBVIOUS
  <2> HIDE DEF q
  <2>3. IsFiniteSet(q)
    BY <2>1, <2>2, FS_Subset
  <2> QED  BY <2>2, <2>3, FS_CardinalityType
<1>3. r = IF IsQuote(s, i) THEN q \cup {i} ELSE q
  <2>1. 1 .. i + 1 - 1 = (1 .. i - 1) \cup {i}
    OBVIOUS
  <2> QED  BY <2>1
<1> HIDE DEF q, r
<1>4. CASE IsQuote(s, i)
  <2>1. Cardinality(r) = Cardinality(q) + 1
    BY <1>2, <1>3, <1>4, FS_AddElement
  <2>2. Cardinality(r) % 2 = 1 <=> ~ Cardinality(q) % 2 = 1
    BY <1>2, <2>1
  <2> QED  BY <1>1, <1>4, <2>2 DEF IsQuote
<1>5. CASE ~ IsQuote(s, i)
  BY <1>1, <1>3, <1>5 DEF IsQuote
<1> QED  BY <1>4, <1>5

\* The first character is plain, and so is what follows a plain one that is
\* neither backslash nor quote.
LEMMA PlainFirst ==
  ASSUME NEW s
  PROVE  Plain(s, 1)
<1>1. ~ Escaped(s, 1)
  BY DEF Escaped
<1>2. {j \in 1 .. 1 - 1 : IsQuote(s, j)} = {}
  OBVIOUS
<1>3. Cardinality({}) % 2 # 1
  BY FS_EmptySet
<1>4. ~ Quoted(s, 1)
  BY <1>2, <1>3 DEF Quoted
<1> QED  BY <1>1, <1>4 DEF Plain

LEMMA PlainNext ==
  ASSUME NEW s, NEW i \in Nat \ {0}, Plain(s, i), s[i] # "backslash", s[i] \notin Quotes
  PROVE  Plain(s, i + 1)
  BY EscapedNext, QuotedNext DEF Plain

LEMMA PlainSpaces ==
  ASSUME NEW s, NEW a \in Nat \ {0}, NEW b \in Nat, a <= b, Plain(s, a),
         \A j \in a .. b - 1 : s[j] = "space"
  PROVE  \A j \in a .. b : Plain(s, j)
<1> DEFINE T == {k \in Nat : a + k <= b => Plain(s, a + k)}
<1>1. 0 \in T
  OBVIOUS
<1>2. ASSUME NEW k \in Nat, k \in T PROVE k + 1 \in T
  <2> SUFFICES ASSUME a + (k + 1) <= b PROVE Plain(s, a + (k + 1))
    OBVIOUS
  <2>1. a + k \in Nat \ {0} /\ a + k \in a .. b - 1 /\ a + (k + 1) = a + k + 1
    OBVIOUS
  <2>2. Plain(s, a + k) /\ s[a + k] = "space"
    BY <1>2, <2>1
  <2>3. Plain(s, a + k + 1)
    BY <2>1, <2>2, PlainNext, QuotesAre
  <2> QED  BY <2>1, <2>3
<1> HIDE DEF T
<1>3. \A k \in Nat : k \in T
  BY <1>1, <1>2, Counting
<1> SUFFICES ASSUME NEW j \in a .. b PROVE Plain(s, j)
  OBVIOUS
<1>4. j - a \in Nat /\ a + (j - a) = j
  OBVIOUS
<1>5. j - a \in T
  BY <1>3, <1>4
<1> QED  BY <1>4, <1>5 DEF T

\* What a part is read as that begins where the whole is plain.
Part(s, f, u, n) == \A k \in 1 .. n : u[k] = s[f + k]

LEMMA SameReading ==
  ASSUME NEW s, NEW u, NEW f \in Nat, NEW n \in Nat, Part(s, f, u, n), Plain(s, f + 1)
  PROVE  \A k \in 1 .. n + 1 : /\ Escaped(u, k) <=> Escaped(s, f + k)
                               /\ Quoted(u, k) <=> Quoted(s, f + k)
                               /\ Plain(u, k) <=> Plain(s, f + k)
<1> DEFINE Alike(k) == /\ Escaped(u, k) <=> Escaped(s, f + k)
                       /\ Quoted(u, k) <=> Quoted(s, f + k)
           T == {k \in Nat : k <= n => Alike(k + 1)}
<1>1. 0 \in T
  <2>1. Plain(u, 1)
    BY PlainFirst
  <2> QED  BY <2>1 DEF Plain
<1>2. ASSUME NEW k \in Nat, k \in T PROVE k + 1 \in T
  <2> SUFFICES ASSUME k + 1 <= n PROVE Alike(k + 1 + 1)
    OBVIOUS
  <2>1. k + 1 \in Nat \ {0} /\ f + (k + 1) \in Nat \ {0} /\ k + 1 \in 1 .. n
        /\ f + (k + 1 + 1) = f + (k + 1) + 1
    OBVIOUS
  <2>2. Alike(k + 1) /\ u[k + 1] = s[f + (k + 1)]
    BY <1>2, <2>1 DEF Part
  <2>3. /\ Escaped(u, k + 1 + 1) <=> u[k + 1] = "backslash" /\ ~ Escaped(u, k + 1)
        /\ Quoted(u, k + 1 + 1) <=> ~ (Quoted(u, k + 1) <=> u[k + 1] \in Quotes /\ ~ Escaped(u, k + 1))
    BY <2>1, EscapedNext, QuotedNext
  <2> DEFINE m == f + (k + 1)
  <2>4. m \in Nat \ {0}
    BY <2>1
  <2> HIDE DEF m
  <2>5. /\ Escaped(s, m + 1) <=> s[m] = "backslash" /\ ~ Escaped(s, m)
        /\ Quoted(s, m + 1) <=> ~ (Quoted(s, m) <=> s[m] \in Quotes /\ ~ Escaped(s, m))
    BY <2>4, EscapedNext, QuotedNext
  <2>6. Alike(k + 1) /\ u[k + 1] = s[m] /\ f + (k + 1) = m /\ f + (k + 1 + 1) = m + 1
    BY <2>1, <2>2 DEF m
  <2> QED  BY <2>3, <2>5, <2>6
<1> HIDE DEF T
<1>3. \A k \in Nat : k \in T
  BY <1>1, <1>2, Counting
<1> SUFFICES ASSUME NEW k \in 1 .. n + 1 PROVE Alike(k)
  BY DEF Plain
<1>4. k - 1 \in Nat /\ k - 1 <= n /\ k - 1 + 1 = k
  OBVIOUS
<1>5. k - 1 \in T
  BY <1>3, <1>4
<1>6. Alike(k - 1 + 1)
  BY <1>4, <1>5 DEF T
<1> QED  BY <1>4, <1>6


-----------------------------------------------------------------------------
(* What trimws() cuts off.                                                 *)

PlainSpace(s, i) == s[i] = "space" /\ Plain(s, i)

\* Where a comment begins for trimws().
Stops(s, i) == Plain(s, i) /\ (s[i] = ";" \/ (i = 1 /\ s[i] = "#"))

\* Of s the first n characters are left: c is where the comment begins.
Trims(s, c, n) ==
  /\ c \in 1 .. Len(s) + 1 /\ \A i \in 1 .. c - 1 : ~ Stops(s, i)
  /\ c # Len(s) + 1 => Stops(s, c)
  /\ n \in 0 .. c - 1 /\ \A i \in n + 1 .. c - 1 : PlainSpace(s, i)
  /\ n # 0 => ~ PlainSpace(s, n)

\* What the scan knows after i characters before the comment.
Scanned(s, t, i) ==
  /\ t.end = 0
  /\ t.escaped <=> Escaped(s, i + 1)
  /\ t.in_quote <=> Quoted(s, i + 1)
  /\ t.last_ws = 0 => i = 0 \/ ~ PlainSpace(s, i)
  /\ t.last_ws # 0 =>
       /\ t.last_ws \in 1 .. i /\ \A j \in t.last_ws .. i : PlainSpace(s, j)
       /\ t.last_ws = 1 \/ ~ PlainSpace(s, t.last_ws - 1)

LEMMA ScannedStart ==
  ASSUME NEW s
  PROVE  Scanned(s, ScanStart, 0)
<1>1. Plain(s, 0 + 1)
  BY PlainFirst
<1> QED  BY <1>1 DEF Scanned, ScanStart, Plain

LEMMA ScannedNext ==
  ASSUME NEW s, NEW N \in Nat, NEW i \in 1 .. N, NEW t \in Scanning(N), Scanned(s, t, i - 1),
         ~ Stops(s, i)
  PROVE  Scanned(s, ScanNext(t, s[i], i), i)
<1> DEFINE c == s[i]
           r == ScanNext(t, c, i)
           first_ws == IF t.last_ws # 0 THEN t.last_ws ELSE i
<1> SUFFICES Scanned(s, r, i)
  OBVIOUS
<1>0. i \in Nat \ {0} /\ i - 1 + 1 = i /\ i \in Nat
  OBVIOUS
<1>1. /\ t.end = 0 /\ (t.escaped <=> Escaped(s, i)) /\ (t.in_quote <=> Quoted(s, i))
      /\ t.last_ws = 0 => i = 1 \/ ~ PlainSpace(s, i - 1)
      /\ t.last_ws # 0 =>
           /\ t.last_ws \in 1 .. i - 1 /\ \A j \in t.last_ws .. i - 1 : PlainSpace(s, j)
           /\ t.last_ws = 1 \/ ~ PlainSpace(s, t.last_ws - 1)
  BY <1>0 DEF Scanned
<1>2. /\ Escaped(s, i + 1) <=> c = "backslash" /\ ~ Escaped(s, i)
      /\ Quoted(s, i + 1) <=> ~ (Quoted(s, i) <=> c \in Quotes /\ ~ Escaped(s, i))
  BY <1>0, EscapedNext, QuotedNext
<1>3. t.last_ws # 0 => Plain(s, i)
  <2>1. CASE t.last_ws # 0
    <3>1. i - 1 \in Nat \ {0} /\ PlainSpace(s, i - 1)
      BY <1>1, <2>1
    <3>2. Plain(s, i - 1 + 1)
      BY <3>1, PlainNext, QuotesAre DEF PlainSpace
    <3> QED  BY <1>0, <3>2
  <2> QED  BY <2>1
<1>4. /\ t = [in_quote |-> t.in_quote, escaped |-> t.escaped, last_ws |-> t.last_ws, end |-> t.end]
      /\ t.in_quote \in BOOLEAN /\ t.escaped \in BOOLEAN
  BY DEF Scanning
<1>5. CASE t.escaped
  <2>1. r = [t EXCEPT !.escaped = FALSE]
    BY <1>1, <1>5, Zenon DEF ScanNext
  <2>2. r.end = 0 /\ ~ r.escaped /\ r.in_quote = t.in_quote /\ r.last_ws = t.last_ws
    BY <1>1, <1>4, <2>1
  <2>3. t.last_ws = 0 /\ ~ PlainSpace(s, i)
    BY <1>1, <1>3, <1>5 DEF Plain, PlainSpace
  <2> HIDE DEF r
  <2> QED  BY <1>1, <1>2, <1>5, <2>2, <2>3 DEF Scanned
<1>6. CASE ~ t.escaped /\ c = "backslash"
  <2>1. r = [t EXCEPT !.escaped = TRUE, !.last_ws = 0] /\ c \notin Quotes
    <3>1. c \notin Quotes /\ c # ";" /\ c # "#" /\ c # "space"
      BY <1>6, QuotesAre
    <3>2. t.end = 0 /\ ~ t.escaped /\ c = "backslash"
      BY <1>1, <1>6
    <3> HIDE DEF c
    <3>3. r = [t EXCEPT !.escaped = TRUE, !.last_ws = 0]
      BY <3>1, <3>2, Zenon DEF ScanNext
    <3> QED  BY <3>1, <3>3
  <2>2. r.end = 0 /\ r.escaped /\ r.in_quote = t.in_quote /\ r.last_ws = 0
    BY <1>1, <1>4, <2>1
  <2>3. ~ PlainSpace(s, i)
    BY <1>6 DEF PlainSpace
  <2> HIDE DEF r
  <2> QED  BY <1>1, <1>2, <1>6, <2>1, <2>2, <2>3 DEF Scanned
<1>7. CASE ~ t.escaped /\ c # "backslash" /\ t.in_quote
  <2>1. r = [t EXCEPT !.in_quote = c \notin Quotes]
    BY <1>1, <1>7, Zenon DEF ScanNext
  <2>2. r.end = 0 /\ ~ r.escaped /\ (r.in_quote <=> c \notin Quotes) /\ r.last_ws = t.last_ws
    BY <1>1, <1>4, <1>7, <2>1
  <2>3. t.last_ws = 0 /\ ~ PlainSpace(s, i)
    BY <1>1, <1>3, <1>7 DEF Plain, PlainSpace
  <2> HIDE DEF r
  <2> QED  BY <1>1, <1>2, <1>7, <2>2, <2>3 DEF Scanned
<1>8. CASE ~ t.escaped /\ ~ t.in_quote /\ c \in Quotes
  <2>1. c # "backslash" /\ c # "space"
    BY <1>8, QuotesAre
  <2>2. r = [t EXCEPT !.in_quote = TRUE, !.last_ws = 0]
    <3>1. t.end = 0 /\ ~ t.escaped /\ ~ t.in_quote /\ c \in Quotes /\ c # ";" /\ c # "#"
      BY <1>1, <1>8, QuotesAre
    <3> HIDE DEF c
    <3> QED  BY <2>1, <3>1, Zenon DEF ScanNext
  <2>3. r.end = 0 /\ ~ r.escaped /\ r.in_quote /\ r.last_ws = 0
    BY <1>1, <1>4, <1>8, <2>2
  <2>4. ~ PlainSpace(s, i)
    BY <2>1 DEF PlainSpace
  <2> HIDE DEF r
  <2> QED  BY <1>1, <1>2, <1>8, <2>1, <2>3, <2>4 DEF Scanned
<1>9. CASE ~ t.escaped /\ ~ t.in_quote /\ c = "space"
  <2>1. c # "backslash" /\ c \notin Quotes /\ c # ";" /\ c # "#"
    BY <1>9, QuotesAre
  <2>2. r = [t EXCEPT !.last_ws = first_ws]
    <3> HIDE DEF c
    <3> QED  BY <1>1, <1>9, <2>1, Zenon DEF ScanNext
  <2>3. r.end = 0 /\ ~ r.escaped /\ ~ r.in_quote /\ r.last_ws = first_ws
    BY <1>1, <1>4, <1>9, <2>2
  <2>4. PlainSpace(s, i) /\ ~ Escaped(s, i + 1) /\ ~ Quoted(s, i + 1)
    BY <1>1, <1>2, <1>9, <2>1 DEF PlainSpace, Plain
  <2>5. /\ first_ws \in 1 .. i /\ \A j \in first_ws .. i : PlainSpace(s, j)
        /\ first_ws = 1 \/ ~ PlainSpace(s, first_ws - 1)
    <3>1. \A j \in first_ws .. i : j = i \/ (t.last_ws # 0 /\ j \in t.last_ws .. i - 1)
      BY <1>0, <1>1
    <3> QED  BY <1>0, <1>1, <2>4, <3>1
  <2> HIDE DEF r, first_ws
  <2> QED  BY <2>3, <2>4, <2>5 DEF Scanned
<1>10. CASE ~ t.escaped /\ ~ t.in_quote /\ c \notin Quotes \cup {"backslash", "space"}
  <2>1. ~ (c = ";" \/ (i = 1 /\ c = "#"))
    BY <1>1, <1>10 DEF Stops, Plain
  <2>2. c # "backslash" /\ c \notin Quotes /\ c # "space"
    BY <1>10
  <2>3. r = [t EXCEPT !.last_ws = 0]
    <3> HIDE DEF c
    <3> QED  BY <1>1, <1>10, <2>1, <2>2, Zenon DEF ScanNext
  <2>4. r.end = 0 /\ ~ r.escaped /\ ~ r.in_quote /\ r.last_ws = 0
    BY <1>1, <1>4, <1>10, <2>3
  <2>5. ~ PlainSpace(s, i)
    BY <2>2 DEF PlainSpace
  <2> HIDE DEF r
  <2> QED  BY <1>1, <1>2, <1>10, <2>2, <2>4, <2>5 DEF Scanned
<1> QED  BY <1>5, <1>6, <1>7, <1>8, <1>9, <1>10

\* Where the white space began that the comment or the end ends.
LEMMA ScannedEnd ==
  ASSUME NEW s, NEW t, NEW c, NEW n, Len(s) \in Nat, Trims(s, c, n), Scanned(s, t, c - 1)
  PROVE  n + 1 = IF t.last_ws # 0 THEN t.last_ws ELSE c
<1>1. c \in Nat /\ n \in Nat /\ n <= c - 1 /\ c >= 1
  BY DEF Trims
<1>2. CASE t.last_ws # 0
  <2>1. /\ t.last_ws \in 1 .. c - 1 /\ \A j \in t.last_ws .. c - 1 : PlainSpace(s, j)
        /\ t.last_ws = 1 \/ ~ PlainSpace(s, t.last_ws - 1)
    BY <1>2 DEF Scanned
  <2>2. ~ n >= t.last_ws
    <3>1. n >= t.last_ws => n \in t.last_ws .. c - 1 /\ n # 0
      BY <1>1, <2>1
    <3> QED  BY <2>1, <3>1 DEF Trims
  <2>3. ~ n < t.last_ws - 1
    <3>1. n < t.last_ws - 1 => t.last_ws - 1 \in n + 1 .. c - 1 /\ t.last_ws # 1
      BY <1>1, <2>1
    <3> QED  BY <2>1, <3>1 DEF Trims
  <2> QED  BY <1>1, <1>2, <2>1, <2>2, <2>3
<1>3. CASE t.last_ws = 0
  <2>1. c - 1 = 0 \/ ~ PlainSpace(s, c - 1)
    BY <1>3 DEF Scanned
  <2>2. ~ n < c - 1
    <3>1. n < c - 1 => c - 1 \in n + 1 .. c - 1 /\ c - 1 # 0
      BY <1>1
    <3> QED  BY <2>1, <3>1 DEF Trims
  <2> QED  BY <1>1, <1>3, <2>2
<1> QED  BY <1>2, <1>3

LEMMA TrimIs ==
  ASSUME NEW s, NEW c, NEW n, Len(s) \in Nat, Trims(s, c, n)
  PROVE  trimws(s) = SubSeq(s, 1, n)
<1> DEFINE N == Len(s)
<1>0. c \in 1 .. N + 1 /\ n \in 0 .. c - 1 /\ N \in Nat /\ c \in Nat
  BY DEF Trims
<1>1. PICK f : Scan(f, s) /\ trimws(s) = SubSeq(s, 1, ScanEnd(f[N], N) - 1)
  BY TrimwsIs
<1>2. f[0] = ScanStart /\ \A i \in 1 .. N : f[i] = ScanNext(f[i - 1], s[i], i)
  BY <1>1, ScanAt
<1>3. \A i \in 0 .. N : f[i] \in Scanning(N)
  BY <1>1, ScanType
<1> HIDE DEF N
<1> DEFINE T == {i \in Nat : i < c => Scanned(s, f[i], i)}
<1>4. \A i \in Nat : i \in T
  <2>1. 0 \in T
    BY <1>2, ScannedStart
  <2>2. ASSUME NEW i \in Nat, i \in T PROVE i + 1 \in T
    <3> SUFFICES ASSUME i + 1 < c PROVE Scanned(s, f[i + 1], i + 1)
      OBVIOUS
    <3>1. i + 1 \in 1 .. N /\ i + 1 - 1 = i /\ i \in 0 .. N /\ i < c /\ i + 1 \in 1 .. c - 1
      BY <1>0
    <3>2. Scanned(s, f[i], i + 1 - 1) /\ ~ Stops(s, i + 1) /\ f[i] \in Scanning(N)
      BY <1>3, <2>2, <3>1 DEF Trims
    <3>3. Scanned(s, ScanNext(f[i], s[i + 1], i + 1), i + 1)
      BY <1>0, <3>1, <3>2, ScannedNext
    <3>4. f[i + 1] = ScanNext(f[i + 1 - 1], s[i + 1], i + 1)
      BY <1>2, <3>1
    <3> QED  BY <3>1, <3>3, <3>4
  <2> HIDE DEF T
  <2> QED  BY <2>1, <2>2, Counting
<1>5. Scanned(s, f[c - 1], c - 1) /\ c - 1 \in 0 .. N
  <2>1. c - 1 \in T /\ c - 1 \in Nat /\ c - 1 < c
    BY <1>0, <1>4
  <2> QED  BY <1>0, <2>1
<1> DEFINE t == f[c - 1]
<1>6. n + 1 = IF t.last_ws # 0 THEN t.last_ws ELSE c
  BY <1>5, ScannedEnd DEF N
<1>7. CASE c = N + 1
  <2>1. f[N] = t /\ t.end = 0
    BY <1>0, <1>5, <1>7 DEF Scanned
  <2>2. ScanEnd(f[N], N) = n + 1
    BY <1>6, <1>7, <2>1 DEF ScanEnd
  <2> QED  BY <1>0, <1>1, <2>2
<1>8. CASE c # N + 1
  <2> DEFINE U == {i \in Nat : c + i <= N => f[c + i].end = n + 1}
  <2>1. Stops(s, c) /\ c \in 1 .. N
    BY <1>0, <1>8 DEF Trims, N
  <2>2. f[c].end = n + 1
    <3>1. t.end = 0 /\ t \in Scanning(N) /\ c - 1 + 1 = c
      BY <1>0, <1>3, <1>5 DEF Scanned
    <3>2. ~ t.escaped /\ ~ t.in_quote
      BY <1>5, <2>1, <3>1 DEF Scanned, Stops, Plain
    <3>3. s[c] = ";" \/ (c = 1 /\ s[c] = "#")
      BY <2>1 DEF Stops
    <3>4. s[c] # "backslash" /\ s[c] \notin Quotes /\ s[c] # "space"
      BY <3>3, QuotesAre
    <3> DEFINE z == s[c]
               first_ws == IF t.last_ws # 0 THEN t.last_ws ELSE c
    <3>5. ScanNext(t, z, c) = [t EXCEPT !.end = first_ws]
      <4>1. /\ z = ";" \/ (c = 1 /\ z = "#")
            /\ z # "backslash" /\ z \notin Quotes /\ z # "space"
        BY <3>3, <3>4
      <4> HIDE DEF z, t
      <4> QED  BY <3>1, <3>2, <4>1, Zenon DEF ScanNext
    <3>6. f[c] = [t EXCEPT !.end = first_ws]
      BY <1>2, <2>1, <3>5
    <3>7. [t EXCEPT !.end = first_ws].end = first_ws
      <4> HIDE DEF t, first_ws
      <4> QED  BY <3>1 DEF Scanning
    <3> QED  BY <1>6, <3>6, <3>7
  <2>3. 0 \in U
    BY <2>2, <1>0
  <2>4. ASSUME NEW i \in Nat, i \in U PROVE i + 1 \in U
    <3> SUFFICES ASSUME c + (i + 1) <= N PROVE f[c + (i + 1)].end = n + 1
      OBVIOUS
    <3>1. /\ c + i \in 0 .. N /\ c + (i + 1) \in 1 .. N /\ c + (i + 1) - 1 = c + i
      BY <1>0
    <3>2. f[c + i].end = n + 1 /\ n + 1 # 0
      BY <1>0, <2>4, <3>1
    <3>3. PICK m \in 1 .. N : m = c + (i + 1) /\ m - 1 = c + i
      BY <1>0, <3>1
    <3>4. f[m] = ScanNext(f[m - 1], s[m], m)
      BY <1>2
    <3>5. ScanNext(f[m - 1], s[m], m) = f[m - 1]
      BY <3>2, <3>3, Zenon DEF ScanNext
    <3> QED  BY <3>2, <3>3, <3>4, <3>5
  <2>5. \A i \in Nat : i \in U
    <3> HIDE DEF U
    <3> QED  BY <2>3, <2>4, Counting
  <2>6. N - c \in Nat /\ c + (N - c) = N
    BY <1>0, <2>1
  <2>7. f[N].end = n + 1
    <3>1. PICK k \in Nat : c + k = N
      BY <2>6
    <3>2. k \in U
      BY <2>5
    <3>3. f[c + k].end = n + 1
      BY <1>0, <3>1, <3>2
    <3> QED  BY <3>1, <3>3
  <2>8. ScanEnd(f[N], N) = n + 1
    BY <1>0, <2>7 DEF ScanEnd
  <2> QED  BY <1>0, <1>1, <2>8
<1> QED  BY <1>7, <1>8


-----------------------------------------------------------------------------
(* Parts of a line.                                                        *)

\* The part of s from lo to hi.
PartOf(s, lo, hi, u) == u = SubSeq(s, lo, hi)

LEMMA PartIs ==
  ASSUME NEW S, NEW s \in Seq(S), NEW lo \in Nat \ {0}, NEW hi \in lo - 1 .. Len(s), NEW u,
         PartOf(s, lo, hi, u)
  PROVE  /\ u \in Seq(S) /\ Len(u) = hi - lo + 1
         /\ Part(s, lo - 1, u, hi - lo + 1)
         /\ \A i \in lo .. hi : u[i - lo + 1] = s[i]
<1>1. /\ lo \in Int /\ hi \in Int /\ \A i \in lo .. hi : s[i] \in S
      /\ (IF lo <= hi THEN hi - lo + 1 ELSE 0) = hi - lo + 1
  OBVIOUS
<1> DEFINE v == SubSeq(s, lo, hi)
<1>2. /\ v \in Seq(S) /\ Len(v) = IF lo <= hi THEN hi - lo + 1 ELSE 0
      /\ \A k \in 1 .. hi - lo + 1 : v[k] = s[lo + k - 1]
  BY <1>1, SubSeqProperties
<1>3. u = v
  BY DEF PartOf
<1> HIDE DEF v
<1>4. \A k \in 1 .. hi - lo + 1 : u[k] = s[lo - 1 + k]
  <2>1. \A k \in 1 .. hi - lo + 1 : lo + k - 1 = lo - 1 + k
    OBVIOUS
  <2> QED  BY <1>2, <1>3, <2>1
<1>5. \A i \in lo .. hi : u[i - lo + 1] = s[i]
  <2>1. \A i \in lo .. hi : i - lo + 1 \in 1 .. hi - lo + 1 /\ lo - 1 + (i - lo + 1) = i
    OBVIOUS
  <2> QED  BY <1>4, <2>1
<1> QED  BY <1>1, <1>2, <1>3, <1>4, <1>5 DEF Part

\* Two parts of one length with the same characters are one.
LEMMA SamePart ==
  ASSUME NEW S, NEW u \in Seq(S), NEW v \in Seq(S), Len(u) = Len(v),
         \A k \in 1 .. Len(u) : u[k] = v[k]
  PROVE  u = v
  BY SeqEqual

\* A part of a part.
LEMMA PartOfPart ==
  ASSUME NEW S, NEW s \in Seq(S), NEW lo \in Nat \ {0}, NEW hi \in lo - 1 .. Len(s), NEW u,
         PartOf(s, lo, hi, u),
         NEW a \in lo .. hi + 1, NEW b \in a - 1 .. hi, NEW v,
         PartOf(u, a - lo + 1, b - lo + 1, v)
  PROVE  PartOf(s, a, b, v)
<1>1. /\ a - lo + 1 \in Nat \ {0} /\ b - lo + 1 \in a - lo + 1 - 1 .. Len(u)
      /\ a \in Nat \ {0} /\ b \in a - 1 .. Len(s) /\ b - lo + 1 - (a - lo + 1) + 1 = b - a + 1
      /\ u \in Seq(S)
  <2>1. u \in Seq(S) /\ Len(u) = hi - lo + 1
    BY PartIs
  <2> QED  BY <2>1
<1>2. \A k \in 1 .. hi - lo + 1 : u[k] = s[lo - 1 + k]
  BY PartIs DEF Part
<1> DEFINE c == a - lo + 1
           d == b - lo + 1
           w == SubSeq(s, a, b)
<1>3. c \in Nat \ {0} /\ d \in c - 1 .. Len(u) /\ d - c + 1 = b - a + 1 /\ c = a - lo + 1
  BY <1>1
<1>4. PartOf(u, c, d, v) /\ PartOf(s, a, b, w)
  BY DEF PartOf
<1>9. u \in Seq(S)
  BY <1>1
<1> HIDE DEF c, d, w
<1>5. v \in Seq(S) /\ Len(v) = d - c + 1 /\ Part(u, c - 1, v, d - c + 1)
  <2>1. c \in Nat \ {0} /\ d \in c - 1 .. Len(u) /\ PartOf(u, c, d, v)
    BY <1>3, <1>4
  <2> QED  BY <1>9, <2>1, PartIs
<1>6. w \in Seq(S) /\ Len(w) = b - a + 1 /\ Part(s, a - 1, w, b - a + 1)
  BY <1>1, <1>4, PartIs
<1>7. ASSUME NEW k \in 1 .. Len(v) PROVE v[k] = w[k]
  <2>1. k \in 1 .. d - c + 1 /\ k \in 1 .. b - a + 1 /\ k \in Nat
    BY <1>1, <1>3, <1>5
  <2>2. v[k] = u[c - 1 + k] /\ w[k] = s[a - 1 + k]
    BY <1>5, <1>6, <2>1 DEF Part
  <2>3. c - 1 + k \in 1 .. hi - lo + 1 /\ lo - 1 + (c - 1 + k) = a - 1 + k
    BY <1>1, <1>3, <2>1
  <2>4. u[c - 1 + k] = s[lo - 1 + (c - 1 + k)]
    BY <1>2, <2>3
  <2> QED  BY <2>2, <2>3, <2>4
<1>8. v = w
  BY <1>3, <1>5, <1>6, <1>7, SamePart
<1> QED  BY <1>4, <1>8

\* How a part is read that begins where the line is plain.
LEMMA PartPlain ==
  ASSUME NEW S, NEW s \in Seq(S), NEW lo \in Nat \ {0}, NEW hi \in lo - 1 .. Len(s), NEW u,
         PartOf(s, lo, hi, u), Plain(s, lo)
  PROVE  \A i \in lo .. hi + 1 : /\ Plain(u, i - lo + 1) <=> Plain(s, i)
                                 /\ Escaped(u, i - lo + 1) <=> Escaped(s, i)
<1>1. Part(s, lo - 1, u, hi - lo + 1) /\ lo - 1 \in Nat /\ hi - lo + 1 \in Nat /\ lo - 1 + 1 = lo
  BY PartIs
<1> DEFINE f == lo - 1
           n == hi - lo + 1
<1> SUFFICES ASSUME NEW i \in lo .. hi + 1
             PROVE  /\ Plain(u, i - lo + 1) <=> Plain(s, i)
                    /\ Escaped(u, i - lo + 1) <=> Escaped(s, i)
  OBVIOUS
<1>2. PICK k \in 1 .. n + 1 : k = i - lo + 1 /\ f + k = i
  OBVIOUS
<1>3. Plain(s, f + 1) /\ f \in Nat /\ n \in Nat /\ Part(s, f, u, n)
  BY <1>1
<1> HIDE DEF f, n
<1>4. /\ Plain(u, k) <=> Plain(s, f + k)
      /\ Escaped(u, k) <=> Escaped(s, f + k)
  BY <1>3, SameReading
<1> QED  BY <1>2, <1>4

\* The first and the last of the places in a part that have something.
LEMMA FirstOf ==
  ASSUME NEW lo \in Nat, NEW hi \in Nat, NEW S, \E i \in lo .. hi : i \in S
  PROVE  \E a \in lo .. hi : a \in S /\ \A i \in lo .. a - 1 : i \notin S
<1> DEFINE T == {i \in Nat : i \in lo .. hi /\ i \in S}
<1>1. PICK a \in T : \A i \in T : a <= i
  <2>1. T # {} /\ T \in SUBSET Nat
    OBVIOUS
  <2> HIDE DEF T
  <2> QED  BY <2>1, LeastOf
<1>2. a \in lo .. hi /\ a \in S
  OBVIOUS
<1>3. ASSUME NEW i \in lo .. a - 1 PROVE i \notin S
  <2>1. i \in Nat /\ i \in lo .. hi /\ ~ a <= i
    BY <1>2
  <2> QED  BY <1>1, <2>1
<1> QED  BY <1>2, <1>3

LEMMA LastOf ==
  ASSUME NEW lo \in Nat, NEW hi \in Nat, NEW S, \E i \in lo .. hi : i \in S
  PROVE  \E a \in lo .. hi : a \in S /\ \A i \in a + 1 .. hi : i \notin S
<1> DEFINE R == {j \in Nat : hi - j \in S}
<1>1. PICK i \in lo .. hi : i \in S
  OBVIOUS
<1>2. \E j \in 0 .. hi - lo : j \in R
  <2>1. hi - i \in 0 .. hi - lo /\ hi - (hi - i) = i
    OBVIOUS
  <2> QED  BY <1>1, <2>1
<1>3. PICK b \in 0 .. hi - lo : b \in R /\ \A j \in 0 .. b - 1 : j \notin R
  <2>1. 0 \in Nat /\ hi - lo \in Nat
    BY <1>1
  <2> HIDE DEF R
  <2> QED  BY <1>2, <2>1, FirstOf
<1>4. hi - b \in lo .. hi /\ hi - b \in S
  BY <1>3
<1>5. ASSUME NEW j \in hi - b + 1 .. hi PROVE j \notin S
  <2>1. hi - j \in 0 .. b - 1 /\ hi - j \in Nat /\ hi - (hi - j) = j
    BY <1>4
  <2> QED  BY <1>3, <2>1
<1> QED  BY <1>4, <1>5

-----------------------------------------------------------------------------
(* What the operators make of parts.                                       *)

\* From a on there is text, after white space from lo to hi.
TextFrom(s, lo, hi, a) ==
  a \in lo .. hi /\ s[a] # "space" /\ \A i \in lo .. a - 1 : s[i] = "space"

Blank(s, lo, hi) == \A i \in lo .. hi : s[i] = "space"

LEMMA BlankOrText ==
  ASSUME NEW s, NEW lo \in Nat, NEW hi \in Nat
  PROVE  Blank(s, lo, hi) \/ \E a : TextFrom(s, lo, hi, a)
<1> DEFINE S == {i \in lo .. hi : s[i] # "space"}
<1>1. CASE \E i \in lo .. hi : i \in S
  <2>1. PICK a \in lo .. hi : a \in S /\ \A i \in lo .. a - 1 : i \notin S
    <3> HIDE DEF S
    <3> QED  BY <1>1, FirstOf
  <2>2. \A i \in lo .. a - 1 : i \in lo .. hi
    OBVIOUS
  <2> QED  BY <2>1, <2>2 DEF TextFrom
<1>2. CASE ~ \E i \in lo .. hi : i \in S
  BY <1>2 DEF Blank
<1> QED  BY <1>1, <1>2

LEMMA TextPlain ==
  ASSUME NEW s, NEW lo \in Nat \ {0}, NEW hi \in Nat, NEW a, TextFrom(s, lo, hi, a), Plain(s, lo)
  PROVE  Plain(s, a) /\ ~ PlainSpace(s, a)
<1>1. a \in Nat /\ lo <= a /\ a \in lo .. a /\ s[a] # "space"
      /\ \A j \in lo .. a - 1 : s[j] = "space"
  BY DEF TextFrom
<1>2. Plain(s, a)
  BY <1>1, PlainSpaces
<1> QED  BY <1>1, <1>2 DEF PlainSpace

LEMMA MinBy ==
  ASSUME NEW I \in SUBSET Nat, NEW a \in I, \A i \in I : a <= i
  PROVE  Min(I) = a
<1>1. Min(I) \in I /\ \A i \in I : Min(I) <= i
  BY MinIs
<1>2. Min(I) \in Nat /\ a \in Nat /\ Min(I) <= a /\ a <= Min(I)
  BY <1>1
<1> QED  BY <1>2

LEMMA MaxBy ==
  ASSUME NEW n \in Nat, NEW I \in SUBSET (1 .. n), NEW a \in I, \A i \in I : i <= a
  PROVE  Max(I) = a
<1>1. Max(I) \in I /\ \A i \in I : i <= Max(I)
  BY MaxIs
<1>2. Max(I) \in Nat /\ a \in Nat /\ Max(I) <= a /\ a <= Max(I)
  <2>1. \A i \in I : i \in Nat
    OBVIOUS
  <2> QED  BY <1>1, <2>1
<1> QED  BY <1>2

LEMMA TrimEmpty == trimws(<<>>) = <<>>
<1> DEFINE s == <<>>
<1>1. Len(s) = 0 /\ SubSeq(s, 1, 0) = <<>>
  OBVIOUS
<1>2. Trims(s, 1, 0)
  BY <1>1 DEF Trims
<1> HIDE DEF s
<1>3. trimws(s) = SubSeq(s, 1, 0)
  BY <1>1, <1>2, TrimIs
<1> QED  BY <1>1, <1>3 DEF s

LEMMA SkipText ==
  ASSUME NEW S, NEW s \in Seq(S), NEW lo \in Nat \ {0}, NEW hi \in lo - 1 .. Len(s), NEW u,
         PartOf(s, lo, hi, u), NEW a, TextFrom(s, lo, hi, a)
  PROVE  PartOf(s, a, hi, skipws(u))
<1> DEFINE text == {i \in DOMAIN u : u[i] # "space"}
           k == a - lo + 1
<1>1. a \in lo .. hi /\ s[a] # "space" /\ \A i \in lo .. a - 1 : s[i] = "space"
  BY DEF TextFrom
<1>2. /\ u \in Seq(S) /\ Len(u) = hi - lo + 1 /\ DOMAIN u = 1 .. hi - lo + 1
      /\ \A i \in 1 .. hi - lo + 1 : u[i] = s[lo - 1 + i]
  <2>1. u \in Seq(S) /\ Len(u) = hi - lo + 1 /\ Part(s, lo - 1, u, hi - lo + 1)
    BY PartIs
  <2> QED  BY <2>1 DEF Part
<1>3. k \in text
  <2>1. k \in 1 .. hi - lo + 1 /\ lo - 1 + k = a
    BY <1>1
  <2> HIDE DEF k
  <2> QED  BY <1>1, <1>2, <2>1
<1>4. ASSUME NEW i \in text PROVE k <= i
  <2>1. i \in 1 .. hi - lo + 1 /\ s[lo - 1 + i] # "space"
    BY <1>2
  <2>2. ~ lo - 1 + i \in lo .. a - 1
    BY <1>1, <2>1
  <2> QED  BY <1>1, <2>1, <2>2
<1>5. text \in SUBSET Nat
  BY <1>2
<1>6. Min(text) = k
  <2> HIDE DEF text, k
  <2> QED  BY <1>3, <1>4, <1>5, MinBy
<1>7. skipws(u) = SubSeq(u, k, Len(u))
  BY <1>3, <1>6 DEF skipws
<1>8. PartOf(u, a - lo + 1, hi - lo + 1, skipws(u))
  BY <1>2, <1>7 DEF PartOf
<1>9. a \in lo .. hi + 1 /\ hi \in a - 1 .. hi
  BY <1>1
<1> QED  BY <1>8, <1>9, PartOfPart

LEMMA SkipBlank ==
  ASSUME NEW S, NEW s \in Seq(S), NEW lo \in Nat \ {0}, NEW hi \in lo - 1 .. Len(s), NEW u,
         PartOf(s, lo, hi, u), Blank(s, lo, hi)
  PROVE  skipws(u) = <<>>
<1>1. /\ DOMAIN u = 1 .. hi - lo + 1
      /\ \A i \in 1 .. hi - lo + 1 : u[i] = s[lo - 1 + i]
  <2>1. u \in Seq(S) /\ Len(u) = hi - lo + 1 /\ Part(s, lo - 1, u, hi - lo + 1)
    BY PartIs
  <2> QED  BY <2>1 DEF Part
<1>2. \A i \in 1 .. hi - lo + 1 : lo - 1 + i \in lo .. hi
  OBVIOUS
<1>3. {i \in DOMAIN u : u[i] # "space"} = {}
  BY <1>1, <1>2 DEF Blank
<1> QED  BY <1>3 DEF skipws


\* Of the part from a to hi the text up to b is left: from c on there is a
\* comment, or the part has ended.
LeavesText(s, a, hi, c, b) ==
  /\ c \in a .. hi + 1 /\ \A i \in a .. c - 1 : ~ (s[i] = ";" /\ Plain(s, i))
  /\ c = hi + 1 \/ (s[c] = ";" /\ Plain(s, c))
  /\ b \in a - 1 .. c - 1 /\ \A i \in b + 1 .. c - 1 : PlainSpace(s, i)
  /\ b = a - 1 \/ ~ PlainSpace(s, b)

LEMMA TrimPart ==
  ASSUME NEW S, NEW s \in Seq(S), NEW a \in Nat \ {0}, NEW hi \in a .. Len(s), NEW u,
         PartOf(s, a, hi, u), Plain(s, a), s[a] # "#",
         NEW c, NEW b, LeavesText(s, a, hi, c, b)
  PROVE  PartOf(s, a, b, trimws(u))
<1>1. hi \in a - 1 .. Len(s) /\ hi \in Nat
  OBVIOUS
<1>2. /\ c \in a .. hi + 1 /\ \A i \in a .. c - 1 : ~ (s[i] = ";" /\ Plain(s, i))
      /\ c = hi + 1 \/ (s[c] = ";" /\ Plain(s, c))
      /\ b \in a - 1 .. c - 1 /\ \A i \in b + 1 .. c - 1 : PlainSpace(s, i)
      /\ b = a - 1 \/ ~ PlainSpace(s, b)
  BY DEF LeavesText
<1>0. a \in Nat /\ hi \in Nat /\ c \in a .. hi + 1 /\ b \in a - 1 .. c - 1 /\ a - a + 1 = 1
  <2>1. a \in Nat /\ hi \in Nat /\ a - a + 1 = 1
    OBVIOUS
  <2>2. c \in a .. hi + 1 /\ b \in a - 1 .. c - 1
    BY Zenon, <1>2
  <2> QED  BY <2>1, <2>2
<1>3. Len(u) = hi - a + 1 /\ \A i \in a .. hi : u[i - a + 1] = s[i]
  BY <1>1, PartIs
<1>4. \A i \in a .. hi + 1 : Plain(u, i - a + 1) <=> Plain(s, i)
  BY <1>1, PartPlain
<1> DEFINE d == c - a + 1
           n == b - a + 1
<1>5. Trims(u, d, n)
  <2>1. ASSUME NEW k \in 1 .. d - 1 PROVE ~ Stops(u, k)
    <3>1. PICK i \in a .. c - 1 : k = i - a + 1 /\ i \in a .. hi /\ i \in a .. hi + 1
      <4>1. k + a - 1 \in a .. c - 1 /\ k = k + a - 1 - a + 1 /\ k + a - 1 \in a .. hi
            /\ k + a - 1 \in a .. hi + 1
        BY <1>0
      <4> QED  BY <4>1
    <3>2. u[k] = s[i] /\ (Plain(u, k) <=> Plain(s, i)) /\ (k = 1 => i = a)
      BY <1>3, <1>4, <3>1
    <3> QED  BY <1>2, <3>1, <3>2 DEF Stops
  <2>2. d # Len(u) + 1 => Stops(u, d)
    <3>1. CASE c # hi + 1
      <4>1. c \in a .. hi /\ c \in a .. hi + 1
        BY <1>0, <3>1
      <4>2. u[d] = ";" /\ Plain(u, d)
        BY <1>2, <1>3, <1>4, <3>1, <4>1
      <4> QED  BY <4>2 DEF Stops
    <3>2. CASE c = hi + 1
      BY <1>3, <3>2
    <3> QED  BY <3>1, <3>2
  <2>3. ASSUME NEW k \in n + 1 .. d - 1 PROVE PlainSpace(u, k)
    <3>1. PICK i \in b + 1 .. c - 1 : k = i - a + 1 /\ i \in a .. hi /\ i \in a .. hi + 1
      <4>1. k + a - 1 \in b + 1 .. c - 1 /\ k = k + a - 1 - a + 1 /\ k + a - 1 \in a .. hi
            /\ k + a - 1 \in a .. hi + 1
        BY <1>0
      <4> QED  BY <4>1
    <3>2. u[k] = s[i] /\ (Plain(u, k) <=> Plain(s, i))
      BY <1>3, <1>4, <3>1
    <3> QED  BY <1>2, <3>1, <3>2 DEF PlainSpace
  <2>4. n # 0 => ~ PlainSpace(u, n)
    <3>1. CASE b # a - 1
      <4>1. b \in a .. hi /\ b \in a .. hi + 1
        BY <1>0, <3>1
      <4>2. u[n] = s[b] /\ (Plain(u, n) <=> Plain(s, b))
        BY <1>3, <1>4, <4>1
      <4> QED  BY <1>2, <3>1, <4>2 DEF PlainSpace
    <3>2. CASE b = a - 1
      BY <3>2
    <3> QED  BY <3>1, <3>2
  <2>5. d \in 1 .. Len(u) + 1 /\ n \in 0 .. d - 1
    BY <1>0, <1>3
  <2> HIDE DEF d, n
  <2> QED  BY <2>1, <2>2, <2>3, <2>4, <2>5 DEF Trims
<1>6. trimws(u) = SubSeq(u, 1, n)
  <2> HIDE DEF d, n
  <2>1. Len(u) \in Nat
    BY <1>3
  <2> QED  BY <1>5, <2>1, TrimIs
<1>7. PartOf(u, a - a + 1, b - a + 1, trimws(u))
  BY <1>0, <1>6 DEF PartOf
<1>8. a \in a .. hi + 1 /\ b \in a - 1 .. hi
  BY <1>0
<1> QED  BY <1>1, <1>7, <1>8, PartOfPart

\* A comment sign at the left.
LEMMA TrimHash ==
  ASSUME NEW s, Len(s) \in Nat \ {0}, s[1] = "#"
  PROVE  trimws(s) = <<>>
<1>1. Stops(s, 1)
  BY PlainFirst DEF Stops
<1>2. Trims(s, 1, 0)
  BY <1>1 DEF Trims
<1>3. trimws(s) = SubSeq(s, 1, 0)
  BY <1>2, TrimIs
<1> QED  BY <1>3

LEMMA StripPart ==
  ASSUME NEW S, NEW s \in Seq(S), NEW lo \in Nat \ {0}, NEW hi \in lo - 1 .. Len(s), NEW u,
         PartOf(s, lo, hi, u), Plain(s, lo), NEW a, TextFrom(s, lo, hi, a),
         NEW b \in a .. hi, ~ PlainSpace(s, b), \A i \in b + 1 .. hi : PlainSpace(s, i)
  PROVE  PartOf(s, a, b, Stripped(u))
<1> DEFINE text == {i \in DOMAIN u : u[i] # "space" \/ ~ Plain(u, i)}
           k == a - lo + 1
           m == b - lo + 1
           n == hi - lo + 1
<1>1. a \in lo .. hi /\ s[a] # "space" /\ \A i \in lo .. a - 1 : s[i] = "space"
  BY DEF TextFrom
<1>2. u \in Seq(S) /\ Len(u) = n /\ \A i \in lo .. hi : u[i - lo + 1] = s[i]
  <2>1. /\ u \in Seq(S) /\ Len(u) = hi - lo + 1
        /\ \A i \in lo .. hi : u[i - lo + 1] = s[i]
    BY PartIs
  <2> QED  BY <2>1
<1>3. \A i \in lo .. hi + 1 : Plain(u, i - lo + 1) <=> Plain(s, i)
  BY PartPlain
<1>4. ASSUME NEW i \in lo .. a PROVE Plain(s, i)
  <2>1. a \in Nat /\ lo <= a
    BY <1>1
  <2> QED  BY <1>1, <2>1, PlainSpaces
<1>5. ASSUME NEW j \in 1 .. n
      PROVE  /\ j \in text <=> ~ PlainSpace(s, lo - 1 + j)
             /\ lo - 1 + j \in lo .. hi
  <2>1. PICK i \in lo .. hi : i = lo - 1 + j /\ j = i - lo + 1 /\ i \in lo .. hi + 1
    OBVIOUS
  <2>2. u[j] = s[i] /\ (Plain(u, j) <=> Plain(s, i)) /\ j \in DOMAIN u
    <3>1. DOMAIN u = 1 .. n
      BY <1>2
    <3> QED  BY <1>2, <1>3, <2>1, <3>1
  <2>3. j \in text <=> ~ PlainSpace(s, i)
    BY <2>2 DEF PlainSpace
  <2> HIDE DEF text
  <2> QED  BY <2>1, <2>3
<1>6. text \in SUBSET (1 .. n) /\ n \in Nat
  <2>1. DOMAIN u = 1 .. n
    BY <1>2
  <2> QED  BY <2>1
<1> HIDE DEF text
<1>7. k \in text /\ m \in text
  <2>1. k \in 1 .. n /\ m \in 1 .. n /\ lo - 1 + k = a /\ lo - 1 + m = b
    BY <1>1
  <2>2. ~ PlainSpace(s, a)
    BY <1>1 DEF PlainSpace
  <2> HIDE DEF k, m, n
  <2> QED  BY <1>5, <2>1, <2>2
<1>8. ASSUME NEW j \in text PROVE k <= j /\ j <= m
  <2>1. PICK i \in lo .. hi : i = lo - 1 + j /\ ~ PlainSpace(s, i) /\ j \in Nat
    BY <1>5, <1>6
  <2>2. ~ i \in lo .. a - 1
    <3>1. i \in lo .. a - 1 => i \in lo .. a
      BY <1>1
    <3> QED  BY <1>1, <1>4, <2>1, <3>1 DEF PlainSpace
  <2>3. ~ i \in b + 1 .. hi
    BY <2>1
  <2> QED  BY <1>1, <2>1, <2>2, <2>3
<1>9. Min(text) = k /\ Max(text) = m
  <2>1. text \in SUBSET Nat
    BY <1>6
  <2> HIDE DEF k, m, n
  <2> QED  BY <1>6, <1>7, <1>8, <2>1, MinBy, MaxBy
<1>10. Stripped(u) = SubSeq(u, k, m)
  BY <1>7, <1>9 DEF Stripped, text
<1>11. PartOf(u, a - lo + 1, b - lo + 1, Stripped(u)) /\ a \in lo .. hi + 1 /\ b \in a - 1 .. hi
  BY <1>1, <1>10 DEF PartOf
<1> QED  BY <1>11, PartOfPart

LEMMA StripBlank ==
  ASSUME NEW S, NEW s \in Seq(S), NEW lo \in Nat \ {0}, NEW hi \in lo - 1 .. Len(s), NEW u,
         PartOf(s, lo, hi, u), Plain(s, lo), Blank(s, lo, hi)
  PROVE  Stripped(u) = <<>>
<1>1. u \in Seq(S) /\ Len(u) = hi - lo + 1 /\ \A i \in lo .. hi : u[i - lo + 1] = s[i]
  BY PartIs
<1>2. \A i \in lo .. hi + 1 : Plain(u, i - lo + 1) <=> Plain(s, i)
  BY PartPlain
<1>3. ASSUME NEW i \in lo .. hi + 1 PROVE Plain(s, i)
  <2>1. hi + 1 \in Nat /\ lo <= hi + 1 /\ hi + 1 - 1 = hi
    OBVIOUS
  <2>2. \A j \in lo .. hi + 1 - 1 : s[j] = "space"
    BY <2>1 DEF Blank
  <2> QED  BY <2>1, <2>2, PlainSpaces
<1>4. ASSUME NEW j \in DOMAIN u PROVE u[j] = "space" /\ Plain(u, j)
  <2>1. DOMAIN u = 1 .. hi - lo + 1
    BY <1>1
  <2>2. PICK i \in lo .. hi : j = i - lo + 1 /\ i \in lo .. hi + 1
    <3>0. j \in 1 .. hi - lo + 1
      BY <2>1
    <3> DEFINE i == lo - 1 + j
    <3>1. i \in lo .. hi /\ j = i - lo + 1 /\ i \in lo .. hi + 1
      BY <3>0
    <3> HIDE DEF i
    <3> QED  BY <3>1
  <2>3. u[j] = s[i] /\ Plain(u, j) /\ s[i] = "space"
    BY <1>1, <1>2, <1>3, <2>2 DEF Blank
  <2> QED  BY <2>3
<1>5. {i \in DOMAIN u : u[i] # "space" \/ ~ Plain(u, i)} = {}
  BY <1>4
<1> QED  BY <1>5 DEF Stripped

-----------------------------------------------------------------------------
(* The signs that divide a line.                                           *)

\* Where parse_name() stops.
FirstBare(s, e) ==
  /\ e \in 1 .. Len(s) /\ s[e] = "=" /\ ~ Escaped(s, e)
  /\ \A i \in 1 .. e - 1 : ~ (s[i] = "=" /\ ~ Escaped(s, i))

Protects(f, s) ==
  f = [i \in 1 .. Len(s) |-> i > 1 /\ s[i - 1] = "backslash" /\ ~ f[i - 1]]

LEMMA ProtectsExists ==
  ASSUME NEW s, Len(s) \in Nat
  PROVE  \E f : Protects(f, s)
<1> DEFINE f == [i \in 1 .. Len(s) |-> Escaped(s, i)]
<1>1. ASSUME NEW i \in 1 .. Len(s)
      PROVE  Escaped(s, i) = (i > 1 /\ s[i - 1] = "backslash" /\ ~ f[i - 1])
  <2>1. CASE i = 1
    <3>1. ~ Escaped(s, i)
      BY <2>1, PlainFirst DEF Plain
    <3>2. Escaped(s, i) \in BOOLEAN
      BY DEF Escaped
    <3> QED  BY <2>1, <3>1, <3>2
  <2>2. CASE i # 1
    <3>1. i - 1 \in Nat \ {0} /\ i - 1 + 1 = i /\ i - 1 \in 1 .. Len(s)
      BY <2>2
    <3>2. Escaped(s, i - 1 + 1) <=> s[i - 1] = "backslash" /\ ~ Escaped(s, i - 1)
      BY <3>1, EscapedNext
    <3>3. Escaped(s, i) \in BOOLEAN
      BY DEF Escaped
    <3>4. f[i - 1] = Escaped(s, i - 1)
      BY <3>1
    <3> QED  BY <3>1, <3>2, <3>3, <3>4
  <2> QED  BY <2>1, <2>2
<1>2. f = [i \in 1 .. Len(s) |-> i > 1 /\ s[i - 1] = "backslash" /\ ~ f[i - 1]]
  BY <1>1, Zenon
<1> HIDE DEF f
<1> QED  BY <1>2 DEF Protects

LEMMA ProtectsIs ==
  ASSUME NEW s, Len(s) \in Nat, NEW f, Protects(f, s)
  PROVE  \A i \in 1 .. Len(s) : f[i] <=> Escaped(s, i)
<1> DEFINE e(i) == i > 1 /\ s[i - 1] = "backslash" /\ ~ f[i - 1]
           T == {k \in Nat : k + 1 <= Len(s) => (f[k + 1] <=> Escaped(s, k + 1))}
<1>1. \A i \in 1 .. Len(s) : f[i] = e(i)
  <2>1. f = [i \in 1 .. Len(s) |-> e(i)]
    BY DEF Protects
  <2> HIDE DEF e
  <2> QED  BY <2>1
<1>2. 0 \in T
  <2>1. ~ Escaped(s, 1)
    BY PlainFirst DEF Plain
  <2>2. 1 <= Len(s) => ~ f[1]
    <3>1. 1 <= Len(s) => 1 \in 1 .. Len(s)
      OBVIOUS
    <3>2. ~ e(1)
      OBVIOUS
    <3> HIDE DEF e
    <3> QED  BY <1>1, <3>1, <3>2
  <2> QED  BY <2>1, <2>2
<1>3. ASSUME NEW k \in Nat, k \in T PROVE k + 1 \in T
  <2> SUFFICES ASSUME k + 1 + 1 <= Len(s) PROVE f[k + 1 + 1] <=> Escaped(s, k + 1 + 1)
    OBVIOUS
  <2>1. k + 1 \in Nat \ {0} /\ k + 1 + 1 \in 1 .. Len(s) /\ k + 1 + 1 > 1 /\ k + 1 + 1 - 1 = k + 1
    OBVIOUS
  <2>2. f[k + 1] <=> Escaped(s, k + 1)
    BY <1>3
  <2>3. Escaped(s, k + 1 + 1) <=> s[k + 1] = "backslash" /\ ~ Escaped(s, k + 1)
    BY <2>1, EscapedNext
  <2>4. f[k + 1 + 1] = (s[k + 1] = "backslash" /\ ~ f[k + 1])
    BY <1>1, <2>1
  <2> QED  BY <2>2, <2>3, <2>4
<1>4. \A k \in Nat : k \in T
  <2> HIDE DEF T
  <2> QED  BY <1>2, <1>3, Counting
<1> SUFFICES ASSUME NEW i \in 1 .. Len(s) PROVE f[i] <=> Escaped(s, i)
  OBVIOUS
<1>5. PICK k \in Nat : k + 1 = i
  <2>1. i - 1 \in Nat /\ i - 1 + 1 = i
    OBVIOUS
  <2> QED  BY <2>1
<1>6. k \in T /\ k + 1 <= Len(s)
  BY <1>4, <1>5
<1>7. f[k + 1] <=> Escaped(s, k + 1)
  BY <1>6
<1> QED  BY <1>5, <1>7

LEMMA EqualsIs ==
  ASSUME NEW s, Len(s) \in Nat, Equals(s) # 0
  PROVE  FirstBare(s, Equals(s))
<1> DEFINE f == CHOOSE g : Protects(g, s)
           at == {i \in 1 .. Len(s) : s[i] = "=" /\ ~ f[i]}
<1>1. Protects(f, s)
  BY ProtectsExists
<1>2. Equals(s) = IF at = {} THEN 0 ELSE Min(at)
  BY DEF Equals, Protects
<1> HIDE DEF f
<1>3. \A i \in 1 .. Len(s) : f[i] <=> Escaped(s, i)
  BY <1>1, ProtectsIs
<1>4. at # {} /\ at \in SUBSET Nat /\ Equals(s) = Min(at)
  BY <1>2
<1>5. PICK e : e = Equals(s)
  OBVIOUS
<1>6. e \in at /\ \A i \in at : e <= i
  <2> HIDE DEF at
  <2> QED  BY <1>4, <1>5, MinIs
<1>7. e \in 1 .. Len(s) /\ s[e] = "=" /\ ~ Escaped(s, e)
  BY <1>3, <1>6
<1>8. ASSUME NEW i \in 1 .. e - 1 PROVE ~ (s[i] = "=" /\ ~ Escaped(s, i))
  <2>1. i \in 1 .. Len(s) /\ ~ e <= i
    BY <1>7
  <2> QED  BY <1>3, <1>6, <2>1
<1> QED  BY <1>5, <1>7, <1>8 DEF FirstBare

\* Where a plain sign stands first.
Divides(s, c, e) ==
  /\ e \in 1 .. Len(s) /\ s[e] = c /\ Plain(s, e)
  /\ \A i \in 1 .. e - 1 : ~ (s[i] = c /\ Plain(s, i))

Undivided(s, c) == \A i \in 1 .. Len(s) : ~ (s[i] = c /\ Plain(s, i))

LEMMA FirstPlainBy ==
  ASSUME NEW S, NEW s \in Seq(S), NEW c
  PROVE  FirstPlain(s, c) =
           LET at == {i \in 1 .. Len(s) : s[i] = c /\ Plain(s, i)}
           IN  IF at # {} THEN Min(at) ELSE 0
<1> DEFINE f == [i \in DOMAIN s |-> s[i] = c /\ Plain(s, i)]
           at == {i \in 1 .. Len(s) : s[i] = c /\ Plain(s, i)}
           I == {i \in 1 .. Len(f) : f[i]}
<1>1. FirstPlain(s, c) = IF I # {} THEN Min(I) ELSE 0
  BY Zenon DEF FirstPlain, SelectInSeq
<1>2. Len(f) = Len(s) /\ \A i \in 1 .. Len(s) : f[i] = (s[i] = c /\ Plain(s, i))
  <2>1. DOMAIN s = 1 .. Len(s) /\ Len(s) \in Nat
    OBVIOUS
  <2>2. DOMAIN f = 1 .. Len(s) /\ \A i \in 1 .. Len(s) : f[i] = (s[i] = c /\ Plain(s, i))
    BY <2>1
  <2> HIDE DEF f
  <2> QED  BY <2>1, <2>2
<1> HIDE DEF f
<1>3. I = at
  BY <1>2
<1> HIDE DEF I, at
<1>4. FirstPlain(s, c) = IF at # {} THEN Min(at) ELSE 0
  BY <1>1, <1>3
<1> QED  BY <1>4 DEF at

LEMMA DividesIs ==
  ASSUME NEW S, NEW s \in Seq(S), NEW c, NEW e, Divides(s, c, e)
  PROVE  FirstPlain(s, c) = e /\ e # 0
<1> DEFINE at == {i \in 1 .. Len(s) : s[i] = c /\ Plain(s, i)}
<1>1. e \in 1 .. Len(s) /\ e \in at
  BY DEF Divides
<1>2. ASSUME NEW i \in at PROVE e <= i
  <2>1. ~ i \in 1 .. e - 1
    BY DEF Divides
  <2> QED  BY <1>1, <2>1
<1>3. at \in SUBSET Nat
  OBVIOUS
<1>4. FirstPlain(s, c) = IF at # {} THEN Min(at) ELSE 0
  BY FirstPlainBy
<1> HIDE DEF at
<1>5. Min(at) = e
  BY <1>1, <1>2, <1>3, MinBy
<1> QED  BY <1>1, <1>4, <1>5

LEMMA UndividedIs ==
  ASSUME NEW S, NEW s \in Seq(S), NEW c, Undivided(s, c)
  PROVE  FirstPlain(s, c) = 0
<1> DEFINE at == {i \in 1 .. Len(s) : s[i] = c /\ Plain(s, i)}
<1>1. at = {}
  BY DEF Undivided
<1>2. FirstPlain(s, c) = IF at # {} THEN Min(at) ELSE 0
  BY FirstPlainBy
<1> HIDE DEF at
<1> QED  BY <1>1, <1>2


-----------------------------------------------------------------------------
(* What a part of a line is to the program and to the comment.             *)

LEMMA WholePart ==
  ASSUME NEW S, NEW s \in Seq(S)
  PROVE  PartOf(s, 1, Len(s), s) /\ Len(s) \in Nat
  BY SubSeqFull DEF PartOf

LEMMA EmptyPart ==
  ASSUME NEW S, NEW s \in Seq(S), NEW lo \in Nat, NEW u, PartOf(s, lo, lo - 1, u)
  PROVE  u = <<>>
  BY SubSeqEmpty DEF PartOf

LEMMA PartFirst ==
  ASSUME NEW S, NEW s \in Seq(S), NEW a \in Nat \ {0}, NEW b \in a .. Len(s), NEW w,
         PartOf(s, a, b, w)
  PROVE  w # <<>> /\ w[1] = s[a]
<1>1. b \in a - 1 .. Len(s) /\ a \in a .. b /\ a - a + 1 = 1 /\ b - a + 1 # 0
  OBVIOUS
<1>2. Len(w) = b - a + 1 /\ \A i \in a .. b : w[i - a + 1] = s[i]
  BY <1>1, PartIs
<1> QED  BY <1>1, <1>2

\* The text of a part ends somewhere.
LEMMA LastText ==
  ASSUME NEW s, NEW lo \in Nat \ {0}, NEW hi \in Nat, NEW a, TextFrom(s, lo, hi, a)
  PROVE  \E b \in a .. hi : ~ PlainSpace(s, b) /\ \A i \in b + 1 .. hi : PlainSpace(s, i)
<1> DEFINE S == {i \in a .. hi : ~ PlainSpace(s, i)}
<1>1. a \in Nat /\ a \in a .. hi /\ ~ PlainSpace(s, a)
  BY DEF TextFrom, PlainSpace
<1>2. \E i \in a .. hi : i \in S
  BY <1>1
<1>3. PICK b \in a .. hi : b \in S /\ \A i \in b + 1 .. hi : i \notin S
  <2> HIDE DEF S
  <2> QED  BY <1>1, <1>2, LastOf
<1>4. \A i \in b + 1 .. hi : i \in a .. hi
  BY <1>1
<1> QED  BY <1>3, <1>4

NoComment(s, lo, hi) == \A i \in lo .. hi : ~ (s[i] = ";" /\ Plain(s, i))

NoHash(s, lo, hi) == \A a : TextFrom(s, lo, hi, a) => s[a] # "#"

\* The program and the comment in front of it make the same of a part without
\* a comment.
LEMMA SameText ==
  ASSUME NEW S, NEW s \in Seq(S), NEW lo \in Nat \ {0}, NEW hi \in lo - 1 .. Len(s), NEW u,
         PartOf(s, lo, hi, u), Plain(s, lo),
         NoComment(s, lo, hi), NoHash(s, lo, hi)
  PROVE  trimws(skipws(u)) = Stripped(u)
<1>0. lo \in Nat /\ hi \in Nat
  OBVIOUS
<1>1. CASE Blank(s, lo, hi)
  <2>1. skipws(u) = <<>> /\ Stripped(u) = <<>>
    BY <1>1, SkipBlank, StripBlank
  <2> QED  BY <2>1, TrimEmpty
<1>2. CASE \E a : TextFrom(s, lo, hi, a)
  <2>1. PICK a : TextFrom(s, lo, hi, a)
    BY <1>2
  <2>2. PICK b \in a .. hi : ~ PlainSpace(s, b) /\ \A i \in b + 1 .. hi : PlainSpace(s, i)
    BY <1>0, <2>1, LastText
  <2>3. a \in lo .. hi
    BY <2>1 DEF TextFrom
  <2>4. a \in Nat \ {0} /\ hi \in a .. Len(s) /\ a \in Nat
    BY <2>3
  <2>5. Plain(s, a) /\ s[a] # "#"
    BY <1>0, <2>1, TextPlain DEF NoHash
  <2>6. PartOf(s, a, hi, skipws(u))
    BY <2>1, SkipText
  <2>7. LeavesText(s, a, hi, hi + 1, b)
    <3>1. hi + 1 \in a .. hi + 1 /\ b \in a - 1 .. hi + 1 - 1 /\ hi + 1 - 1 = hi
      BY <1>0, <2>4
    <3>2. \A i \in a .. hi : i \in lo .. hi
      BY <2>3
    <3> DEFINE c == hi + 1
    <3>3. \A i \in b + 1 .. c - 1 : PlainSpace(s, i)
      BY <2>2, <3>1
    <3>7. NoComment(s, a, hi)
      BY <3>2, Zenon DEF NoComment
    <3>4. NoComment(s, a, c - 1)
      BY <3>1, <3>7
    <3>5. c \in a .. hi + 1 /\ b \in a - 1 .. c - 1 /\ c = hi + 1
      BY <3>1
    <3> HIDE DEF c
    <3>6. LeavesText(s, a, hi, c, b)
      BY <2>2, <3>3, <3>4, <3>5, Zenon DEF LeavesText, NoComment
    <3> QED  BY <3>5, <3>6
  <2>8. PartOf(s, a, b, trimws(skipws(u)))
    BY <2>4, <2>5, <2>6, <2>7, TrimPart
  <2>9. PartOf(s, a, b, Stripped(u))
    BY <2>1, <2>2, StripPart
  <2> QED  BY <2>8, <2>9 DEF PartOf
<1> QED  BY <1>0, <1>1, <1>2, BlankOrText

\* White space behind the text makes no difference.
LEMMA StripMore ==
  ASSUME NEW S, NEW s \in Seq(S), NEW lo \in Nat \ {0}, NEW hi \in lo - 1 .. Len(s),
         NEW more \in hi .. Len(s), \A i \in hi + 1 .. more : PlainSpace(s, i), Plain(s, lo),
         NEW u, PartOf(s, lo, hi, u), NEW v, PartOf(s, lo, more, v)
  PROVE  /\ Stripped(u) = Stripped(v)
         /\ \A a : TextFrom(s, lo, hi, a) => Stripped(v) # <<>> /\ Stripped(v)[1] = s[a]
<1>0. hi \in Nat /\ lo \in Nat /\ more \in lo - 1 .. Len(s) /\ more \in Nat
  OBVIOUS
<1>1. CASE Blank(s, lo, hi)
  <2>1. Blank(s, lo, more)
    <3>1. \A i \in lo .. more : i \in lo .. hi \/ i \in hi + 1 .. more
      BY <1>0
    <3> QED  BY <1>1, <3>1 DEF Blank, PlainSpace
  <2>2. Stripped(u) = <<>>
    BY <1>1, StripBlank
  <2>3. Stripped(v) = <<>>
    BY <1>0, <2>1, StripBlank
  <2>4. \A a : ~ TextFrom(s, lo, hi, a)
    BY <1>1 DEF Blank, TextFrom
  <2> QED  BY <2>2, <2>3, <2>4
<1>2. ASSUME NEW a, TextFrom(s, lo, hi, a)
      PROVE  Stripped(u) = Stripped(v) /\ Stripped(v) # <<>> /\ Stripped(v)[1] = s[a]
  <2>1. PICK b \in a .. hi : ~ PlainSpace(s, b) /\ \A i \in b + 1 .. hi : PlainSpace(s, i)
    BY <1>0, <1>2, LastText
  <2>2. a \in lo .. hi /\ a \in Nat \ {0}
    BY <1>2 DEF TextFrom
  <2>3. TextFrom(s, lo, more, a)
    <3>1. a \in lo .. more
      BY <1>0, <2>2
    <3> QED  BY <1>2, <3>1 DEF TextFrom
  <2>4. b \in a .. more /\ \A i \in b + 1 .. more : PlainSpace(s, i)
    <3>1. \A i \in b + 1 .. more : i \in b + 1 .. hi \/ i \in hi + 1 .. more
      BY <1>0
    <3>2. b \in a .. more
      BY <1>0, <2>2
    <3> QED  BY <2>1, <3>1, <3>2
  <2>5. PartOf(s, a, b, Stripped(u))
    BY <1>2, <2>1, StripPart
  <2>6. PartOf(s, a, b, Stripped(v))
    BY <1>0, <2>1, <2>3, <2>4, StripPart
  <2>7. Stripped(v)[1] = s[a] /\ Stripped(v) # <<>>
    <3>1. b \in a .. Len(s)
      BY <2>4
    <3> QED  BY <2>2, <2>6, <3>1, PartFirst
  <2> QED  BY <2>5, <2>6, <2>7 DEF PartOf
<1>3. (\E a : TextFrom(s, lo, hi, a)) => Stripped(u) = Stripped(v)
  BY <1>2
<1> QED  BY <1>0, <1>1, <1>2, <1>3, BlankOrText

\* What is left of a line: from a to b, before a comment at c.
Trimming(s, a, c, b) ==
  /\ TextFrom(s, 1, Len(s), a) /\ s[a] # "#"
  /\ c \in a + 1 .. Len(s) + 1 /\ \A i \in 1 .. c - 1 : ~ (s[i] = ";" /\ Plain(s, i))
  /\ c = Len(s) + 1 \/ (s[c] = ";" /\ Plain(s, c))
  /\ b \in a .. c - 1 /\ \A i \in b + 1 .. c - 1 : PlainSpace(s, i)

LEMMA TrimmingIs ==
  ASSUME NEW S, NEW s \in Seq(S), trimws(skipws(s)) # <<>>
  PROVE  \E a, c, b : Trimming(s, a, c, b) /\ PartOf(s, a, b, trimws(skipws(s)))
<1> DEFINE n == Len(s)
           t == trimws(skipws(s))
<1>0. n \in Nat /\ PartOf(s, 1, n, s) /\ n \in 1 - 1 .. Len(s) /\ 1 \in Nat \ {0} /\ 1 \in Nat
  BY WholePart
<1>1. PICK a : TextFrom(s, 1, n, a)
  <2>1. Blank(s, 1, n) => skipws(s) = <<>>
    BY <1>0, SkipBlank
  <2>2. ~ Blank(s, 1, n)
    BY <2>1, TrimEmpty
  <2> QED  BY <1>0, <2>2, BlankOrText
<1>2. a \in 1 .. n /\ \A i \in 1 .. a - 1 : s[i] = "space"
  BY <1>1 DEF TextFrom
<1>3. Plain(s, a)
  BY <1>0, <1>1, PlainFirst, TextPlain
<1>4. PartOf(s, a, n, skipws(s))
  BY <1>0, <1>1, SkipText
<1>5. s[a] # "#"
  <2> SUFFICES ASSUME s[a] = "#" PROVE FALSE
    OBVIOUS
  <2> DEFINE u == skipws(s)
  <2>1. PartOf(s, a, n, u) /\ a \in Nat \ {0} /\ n \in a - 1 .. Len(s) /\ a \in a .. n /\ a - a + 1 = 1
    BY <1>2, <1>4
  <2>2. trimws(u) # <<>>
    OBVIOUS
  <2> HIDE DEF u, n
  <2>3. Len(u) = n - a + 1 /\ u[a - a + 1] = s[a]
    BY <2>1, PartIs
  <2>4. Len(u) \in Nat \ {0} /\ u[1] = "#"
    BY <1>0, <1>2, <2>1, <2>3
  <2> QED  BY <2>2, <2>4, TrimHash
<1> DEFINE C == {i \in a .. n + 1 : i = n + 1 \/ (s[i] = ";" /\ Plain(s, i))}
<1>6. PICK c \in a .. n + 1 : c \in C /\ \A i \in a .. c - 1 : i \notin C
  <2>1. n + 1 \in a .. n + 1 /\ n + 1 \in Nat /\ a \in Nat
    BY <1>0, <1>2
  <2>2. \E i \in a .. n + 1 : i \in C
    BY <2>1
  <2> HIDE DEF C
  <2> QED  BY <2>1, <2>2, FirstOf
<1>7. /\ c = n + 1 \/ (s[c] = ";" /\ Plain(s, c))
      /\ \A i \in a .. c - 1 : ~ (s[i] = ";" /\ Plain(s, i))
  <2>1. \A i \in a .. c - 1 : i \in a .. n + 1
    BY <1>0, <1>2
  <2> QED  BY <1>6, <2>1
<1> DEFINE B == {i \in a - 1 .. c - 1 : i = a - 1 \/ ~ PlainSpace(s, i)}
<1>8. PICK b \in a - 1 .. c - 1 : b \in B /\ \A i \in b + 1 .. c - 1 : i \notin B
  <2>1. a - 1 \in a - 1 .. c - 1 /\ a - 1 \in Nat /\ c - 1 \in Nat
    BY <1>0, <1>2
  <2>2. \E i \in a - 1 .. c - 1 : i \in B
    BY <2>1
  <2> HIDE DEF B
  <2> QED  BY <2>1, <2>2, LastOf
<1>9. /\ b = a - 1 \/ ~ PlainSpace(s, b)
      /\ \A i \in b + 1 .. c - 1 : PlainSpace(s, i)
  <2>1. \A i \in b + 1 .. c - 1 : i \in a - 1 .. c - 1
    BY <1>0, <1>2
  <2> QED  BY <1>8, <2>1
<1>10. LeavesText(s, a, n, c, b)
  BY <1>7, <1>9 DEF LeavesText
<1>11. PartOf(s, a, b, t)
  <2>1. a \in Nat \ {0} /\ n \in a .. Len(s)
    BY <1>0, <1>2
  <2> HIDE DEF n
  <2> QED  BY <1>3, <1>4, <1>5, <1>10, <2>1, TrimPart
<1>12. b # a - 1
  <2> SUFFICES ASSUME b = a - 1 PROVE FALSE
    OBVIOUS
  <2>1. PartOf(s, a, a - 1, t) /\ a \in Nat
    BY <1>2, <1>11
  <2>2. t = <<>>
    BY <2>1, EmptyPart
  <2> QED  BY <2>2
<1>13. c \in a + 1 .. n + 1 /\ b \in a .. c - 1
  BY <1>0, <1>2, <1>12
<1>14. ASSUME NEW i \in 1 .. c - 1 PROVE ~ (s[i] = ";" /\ Plain(s, i))
  <2>1. i \in 1 .. a - 1 \/ i \in a .. c - 1
    BY <1>2
  <2> QED  BY <1>2, <1>7, <2>1
<1>15. Trimming(s, a, c, b)
  BY <1>1, <1>5, <1>7, <1>9, <1>13, <1>14 DEF Trimming
<1> QED  BY <1>11, <1>15


\* The first = that is not protected divides key and value.
Parted(s, a, b, p) ==
  /\ p \in a .. b /\ s[p] = "=" /\ Plain(s, p)
  /\ \A i \in 1 .. p - 1 : ~ (s[i] = "=" /\ Plain(s, i))

Bare(s) ==
  \A i \in DOMAIN s : s[i] = "=" /\ Quoted(s, i) /\ ~ Escaped(s, i) =>
    \E j \in 1 .. i - 1 : s[j] = "=" /\ Plain(s, j)

LEMMA TrimmingPlaces ==
  ASSUME NEW S, NEW s \in Seq(S), NEW a, NEW c, NEW b, Trimming(s, a, c, b)
  PROVE  /\ a \in 1 .. Len(s) /\ c \in a + 1 .. Len(s) + 1 /\ b \in a .. c - 1
         /\ Len(s) \in Nat
<1>1. TextFrom(s, 1, Len(s), a) /\ c \in a + 1 .. Len(s) + 1 /\ b \in a .. c - 1
  BY Zenon DEF Trimming
<1> QED  BY <1>1 DEF TextFrom

LEMMA PartedIs ==
  ASSUME NEW S, NEW s \in Seq(S), NEW a, NEW c, NEW b, Trimming(s, a, c, b),
         NEW t, PartOf(s, a, b, t), Bare(s), Equals(t) # 0
  PROVE  Parted(s, a, b, a + Equals(t) - 1) /\ Equals(t) \in 1 .. b - a + 1
<1>1. /\ a \in 1 .. Len(s) /\ c \in a + 1 .. Len(s) + 1 /\ b \in a .. c - 1
      /\ \A i \in 1 .. a - 1 : s[i] = "space"
  BY DEF Trimming, TextFrom
<1>2. a \in Nat \ {0} /\ b \in a - 1 .. Len(s) /\ 1 \in Nat \ {0} /\ Len(s) \in Nat
  BY <1>1
<1>3. Plain(s, a)
  BY <1>2, PlainFirst, TextPlain DEF Trimming
<1>4. Len(t) = b - a + 1 /\ \A i \in a .. b : t[i - a + 1] = s[i]
  BY <1>2, PartIs
<1>5. \A i \in a .. b + 1 : Escaped(t, i - a + 1) <=> Escaped(s, i)
  BY <1>2, <1>3, PartPlain
<1> DEFINE e == Equals(t)
           p == a + e - 1
<1>6. FirstBare(t, e)
  <2>1. Len(t) \in Nat
    BY <1>1, <1>4
  <2> QED  BY <2>1, EqualsIs
<1> HIDE DEF e
<1>7. /\ e \in 1 .. b - a + 1 /\ t[e] = "=" /\ ~ Escaped(t, e)
      /\ \A i \in 1 .. e - 1 : ~ (t[i] = "=" /\ ~ Escaped(t, i))
  BY <1>4, <1>6 DEF FirstBare
<1>8. p \in a .. b /\ p \in a .. b + 1 /\ p - a + 1 = e
  BY <1>1, <1>7
<1>9. s[p] = "=" /\ ~ Escaped(s, p)
  <2>1. t[p - a + 1] = s[p] /\ (Escaped(t, p - a + 1) <=> Escaped(s, p))
    BY <1>4, <1>5, <1>8
  <2> QED  BY <1>7, <1>8, <2>1
<1> HIDE DEF p
<1>10. ASSUME NEW i \in 1 .. p - 1 PROVE ~ (s[i] = "=" /\ Plain(s, i))
  <2>1. CASE i < a
    <3>1. i \in 1 .. a - 1
      BY <1>1, <2>1
    <3> QED  BY <1>1, <3>1
  <2>2. CASE ~ i < a
    <3>1. i \in a .. b /\ i \in a .. b + 1 /\ i - a + 1 \in 1 .. e - 1
      BY <1>1, <1>7, <1>8, <2>2
    <3>2. t[i - a + 1] = s[i] /\ (Escaped(t, i - a + 1) <=> Escaped(s, i))
      BY <1>4, <1>5, <3>1
    <3> QED  BY <1>7, <3>1, <3>2 DEF Plain
  <2> QED  BY <2>1, <2>2
<1>11. ~ Quoted(s, p)
  <2>1. p \in DOMAIN s
    BY <1>1, <1>8
  <2> QED  BY <1>9, <1>10, <2>1 DEF Bare
<1>12. Parted(s, a, b, p)
  BY <1>8, <1>9, <1>10, <1>11 DEF Parted, Plain
<1> QED  BY <1>7, <1>12 DEF p, e

\* The line without its comment, if no # of its key starts one.
Hashless(s) == \A i \in DOMAIN s : s[i] = "#" /\ Plain(s, i) => ~ IsLeft(s, i)

LEMMA UncommentedIs ==
  ASSUME NEW S, NEW s \in Seq(S), NEW a, NEW c, NEW b, Trimming(s, a, c, b), Hashless(s)
  PROVE  PartOf(s, 1, c - 1, Uncommented(s))
<1>1. a \in 1 .. Len(s) /\ c \in a + 1 .. Len(s) + 1 /\ Len(s) \in Nat
  BY TrimmingPlaces
<1>2. c = Len(s) + 1 \/ (s[c] = ";" /\ Plain(s, c))
  BY Zenon DEF Trimming
<1>3. \A i \in 1 .. c - 1 : ~ (s[i] = ";" /\ Plain(s, i))
  BY DEF Trimming
<1> DEFINE at == Comments(s)
<1>4. \A i : i \in at <=> i \in DOMAIN s /\ s[i] = ";" /\ Plain(s, i)
  <2> SUFFICES ASSUME NEW i PROVE i \in at <=> i \in DOMAIN s /\ s[i] = ";" /\ Plain(s, i)
    OBVIOUS
  <2>1. i \in DOMAIN s /\ s[i] = "#" /\ Plain(s, i) => ~ IsLeft(s, i)
    BY Zenon DEF Hashless
  <2>2. i \in at <=> /\ i \in DOMAIN s
                     /\ Plain(s, i) /\ (s[i] = ";" \/ (s[i] = "#" /\ IsLeft(s, i)))
    BY Zenon DEF Comments
  <2> HIDE DEF at
  <2> QED  BY <2>1, <2>2, Zenon
<1>5. Uncommented(s) = IF at = {} THEN s ELSE SubSeq(s, 1, Min(at) - 1)
  BY DEF Uncommented
<1>6. DOMAIN s = 1 .. Len(s)
  BY <1>1
<1> HIDE DEF at
<1>7. CASE c = Len(s) + 1
  <2>1. c - 1 = Len(s)
    BY <1>1, <1>7
  <2>2. at = {}
    <3>1. \A i : i \in DOMAIN s => i \in 1 .. c - 1
      BY <1>6, <2>1
    <3> QED  BY <1>3, <1>4, <3>1, Zenon
  <2>3. PartOf(s, 1, Len(s), s)
    BY WholePart
  <2> QED  BY <1>5, <2>1, <2>2, <2>3
<1>8. CASE c # Len(s) + 1
  <2>1. c \in 1 .. Len(s)
    BY <1>1, <1>8
  <2>2. c \in at
    BY <1>2, <1>4, <1>6, <1>8, <2>1, Zenon
  <2>3. at \in SUBSET Nat
    <3>1. \A i : i \in at => i \in 1 .. Len(s)
      BY <1>4, <1>6, Zenon
    <3>2. at \subseteq 1 .. Len(s)
      BY <3>1, Zenon
    <3> QED  BY <1>1, <3>2
  <2>4. ASSUME NEW i \in at PROVE c <= i
    <3>1. i \notin 1 .. c - 1
      BY <1>3, <1>4, Zenon
    <3>2. i \in 1 .. Len(s)
      BY <1>4, <1>6
    <3> QED  BY <1>1, <3>1, <3>2
  <2>5. Min(at) = c
    BY <2>2, <2>3, <2>4, MinBy
  <2>6. Uncommented(s) = SubSeq(s, 1, c - 1)
    BY <1>5, <2>2, <2>5
  <2> QED  BY <2>6 DEF PartOf
<1> QED  BY <1>7, <1>8

\* What a line means, and what the program takes, are made of the same parts.
LEMMA PartsAre ==
  ASSUME NEW S, NEW s \in Seq(S), NEW a, NEW c, NEW b, NEW p, Trimming(s, a, c, b),
         Parted(s, a, b, p),
         NEW u, PartOf(s, 1, c - 1, u)
  PROVE  /\ FirstPlain(u, "=") = p
         /\ PartOf(s, 1, p - 1, SubSeq(u, 1, p - 1))
         /\ PartOf(s, p + 1, c - 1, SubSeq(u, p + 1, Len(u)))
<1>1. /\ a \in 1 .. Len(s) /\ c \in a + 1 .. Len(s) + 1 /\ b \in a .. c - 1 /\ p \in a .. b
      /\ Len(s) \in Nat
  <2>1. p \in a .. b
    BY Zenon DEF Parted
  <2> QED  BY <2>1, TrimmingPlaces
<1>2. 1 \in Nat \ {0} /\ c - 1 \in 1 - 1 .. Len(s) /\ c - 1 - 1 + 1 = c - 1
  BY <1>1
<1>3. u \in Seq(S) /\ Len(u) = c - 1 /\ \A i \in 1 .. c - 1 : u[i - 1 + 1] = s[i]
  <2>1. /\ u \in Seq(S) /\ Len(u) = c - 1 - 1 + 1
        /\ \A i \in 1 .. c - 1 : u[i - 1 + 1] = s[i]
    BY <1>2, PartIs
  <2> QED  BY <1>2, <2>1
<1>4. \A i \in 1 .. c - 1 + 1 : Plain(u, i - 1 + 1) <=> Plain(s, i)
  BY <1>2, PlainFirst, PartPlain
<1>5. ASSUME NEW i \in 1 .. c - 1 PROVE u[i] = s[i] /\ (Plain(u, i) <=> Plain(s, i))
  <2>1. i - 1 + 1 = i /\ i \in 1 .. c - 1 + 1
    BY <1>1
  <2>2. u[i - 1 + 1] = s[i] /\ (Plain(u, i - 1 + 1) <=> Plain(s, i))
    BY <1>3, <1>4, <2>1
  <2> QED  BY <2>1, <2>2
<1>6. p \in 1 .. c - 1 /\ \A i \in 1 .. p - 1 : i \in 1 .. c - 1
  BY <1>1
<1>7. Divides(u, "=", p)
  <2>1. s[p] = "=" /\ Plain(s, p) /\ \A i \in 1 .. p - 1 : ~ (s[i] = "=" /\ Plain(s, i))
    BY DEF Parted
  <2>2. u[p] = "=" /\ Plain(u, p)
    BY <1>5, <1>6, <2>1
  <2>3. ASSUME NEW i \in 1 .. p - 1 PROVE ~ (u[i] = "=" /\ Plain(u, i))
    <3>1. u[i] = s[i] /\ (Plain(u, i) <=> Plain(s, i))
      BY <1>5, <1>6
    <3> QED  BY <2>1, <3>1
  <2>4. p \in 1 .. Len(u)
    BY <1>3, <1>6
  <2> QED  BY <2>2, <2>3, <2>4 DEF Divides
<1>8. FirstPlain(u, "=") = p
  BY <1>3, <1>7, DividesIs
<1> DEFINE v == SubSeq(u, 1, p - 1)
           w == SubSeq(u, p + 1, Len(u))
<1>9. PartOf(u, 1 - 1 + 1, p - 1 - 1 + 1, v) /\ PartOf(u, (p + 1) - 1 + 1, c - 1 - 1 + 1, w)
  <2>1. 1 - 1 + 1 = 1 /\ p - 1 - 1 + 1 = p - 1 /\ (p + 1) - 1 + 1 = p + 1 /\ c - 1 - 1 + 1 = Len(u)
    BY <1>1, <1>3
  <2> QED  BY <2>1 DEF PartOf
<1>10. /\ 1 \in 1 .. c - 1 + 1 /\ p - 1 \in 1 - 1 .. c - 1
       /\ p + 1 \in 1 .. c - 1 + 1 /\ c - 1 \in p + 1 - 1 .. c - 1
  BY <1>1
<1> HIDE DEF v, w
<1>11. PartOf(s, 1, p - 1, v)
  BY <1>2, <1>9, <1>10, PartOfPart
<1>12. PartOf(s, p + 1, c - 1, w)
  <2> DEFINE q == p + 1
             d == c - 1
  <2>1. q \in 1 .. d + 1 /\ d \in q - 1 .. d
    BY <1>1
  <2>3. d \in 1 - 1 .. Len(s) /\ 1 \in Nat \ {0}
    BY <1>2
  <2>4. PartOf(u, q - 1 + 1, d - 1 + 1, w)
    BY <1>9, Zenon
  <2>5. PartOf(s, 1, d, u)
    BY Zenon
  <2> HIDE DEF q, d
  <2>2. PartOf(s, q, d, w)
    BY <2>1, <2>3, <2>4, <2>5, PartOfPart
  <2> QED  BY <2>2 DEF q, d
<1> QED  BY <1>8, <1>11, <1>12 DEF v, w

\* The program takes what a line means, if the line is one it understands.
LEMMA LineMeans ==
  ASSUME NEW line \in Line, IsEntry(line), Understood(line)
  PROVE  KeyOf[line] = MeantKey[line] /\ ValueOf[line] = MeantValue[line]
<1> DEFINE S == Word \cup Special
           t == trimws(skipws(line))
           e == Equals(t)
           u == Uncommented(line)
<1>0. line \in Seq(S) /\ Len(line) \in Nat
  BY ConfigAssumption
<1>1. /\ Trimmed[line] = t /\ t # <<>> /\ e # 0
      /\ KeyOf[line] = trimws(SubSeq(t, 1, e - 1))
      /\ RestOf[line] = SubSeq(t, e + 1, Len(t))
      /\ ValueOf[line] = trimws(skipws(RestOf[line]))
  BY DEF IsEntry, Trimmed, KeyOf, RestOf, ValueOf
<1>2. /\ MeantKey[line] = Stripped(SubSeq(u, 1, FirstPlain(u, "=") - 1))
      /\ MeantValue[line] = Stripped(SubSeq(u, FirstPlain(u, "=") + 1, Len(u)))
  BY DEF MeantKey, MeantValue
<1>3. /\ Bare(line) /\ Hashless(line)
      /\ MeantValue[line] = <<>> \/ MeantValue[line][1] # "#"
  BY Zenon DEF Understood, Bare, Hashless
<1> HIDE DEF t, e, u, S
<1>4. PICK a, c, b : Trimming(line, a, c, b) /\ PartOf(line, a, b, t)
  BY <1>0, <1>1, TrimmingIs DEF t
<1> DEFINE p == a + e - 1
<1>5. Parted(line, a, b, p) /\ e \in 1 .. b - a + 1
  BY <1>0, <1>1, <1>3, <1>4, PartedIs DEF e
<1>6. /\ a \in 1 .. Len(line) /\ c \in a + 1 .. Len(line) + 1 /\ b \in a .. c - 1
      /\ e = p - a + 1 /\ p \in a .. b
  <2>1. a \in 1 .. Len(line) /\ c \in a + 1 .. Len(line) + 1 /\ b \in a .. c - 1
    BY <1>4 DEF Trimming, TextFrom
  <2>2. e = p - a + 1 /\ p \in a .. b
    BY <1>5, <2>1
  <2> QED  BY <2>1, <2>2
<1>7. PartOf(line, 1, c - 1, u)
  BY <1>0, <1>3, <1>4, UncommentedIs DEF u
<1> DEFINE k == SubSeq(u, 1, p - 1)
           v == SubSeq(u, p + 1, Len(u))
<1>8. FirstPlain(u, "=") = p /\ PartOf(line, 1, p - 1, k) /\ PartOf(line, p + 1, c - 1, v)
  <2> HIDE DEF p
  <2> QED  BY <1>0, <1>4, <1>5, <1>7, PartsAre
<1>9. MeantKey[line] = Stripped(k) /\ MeantValue[line] = Stripped(v)
  BY <1>2, <1>8
<1> DEFINE x == SubSeq(t, 1, e - 1)
           r == SubSeq(t, e + 1, Len(t))
<1>10. Len(t) = b - a + 1 /\ a \in Nat \ {0} /\ b \in a - 1 .. Len(line)
  <2>1. a \in Nat \ {0} /\ b \in a - 1 .. Len(line)
    BY <1>6
  <2> QED  BY <1>0, <1>4, <2>1, PartIs
<1>11. PartOf(t, a - a + 1, p - 1 - a + 1, x) /\ PartOf(t, (p + 1) - a + 1, b - a + 1, r)
  <2>1. a - a + 1 = 1 /\ p - 1 - a + 1 = e - 1 /\ (p + 1) - a + 1 = e + 1
    BY <1>6
  <2> HIDE DEF p
  <2> QED  BY <1>10, <2>1 DEF PartOf
<1>12. KeyOf[line] = trimws(x) /\ ValueOf[line] = trimws(skipws(r))
  BY <1>1
<1> HIDE DEF p, k, v, x, r
<1>13. PartOf(line, a, p - 1, x) /\ PartOf(line, p + 1, b, r)
  <2>1. /\ a \in a .. b + 1 /\ p - 1 \in a - 1 .. b /\ p + 1 \in a .. b + 1 /\ b \in p + 1 - 1 .. b
    BY <1>6
  <2>2. PartOf(line, a, p - 1, x)
    BY <1>0, <1>4, <1>10, <1>11, <2>1, PartOfPart
  <2> DEFINE q == p + 1
  <2>4. PartOf(t, q - a + 1, b - a + 1, r)
    BY <1>11, Zenon
  <2>6. q \in a .. b + 1 /\ b \in q - 1 .. b
    BY <2>1
  <2> HIDE DEF q
  <2>5. PartOf(line, q, b, r)
    BY <1>0, <1>4, <1>10, <2>4, <2>6, PartOfPart
  <2>3. PartOf(line, p + 1, b, r)
    BY <2>5 DEF q
  <2> QED  BY <2>2, <2>3
<1>14. \A i \in 1 .. c - 1 : ~ (line[i] = ";" /\ Plain(line, i))
  BY <1>4 DEF Trimming
<1>15. TextFrom(line, 1, Len(line), a) /\ line[a] # "#"
  BY <1>4 DEF Trimming
<1>16. trimws(x) = Stripped(k)
  <2>1. 1 \in Nat \ {0} /\ p - 1 \in 1 - 1 .. Len(line)
    BY <1>6
  <2>2. trimws(skipws(k)) = Stripped(k)
    <3>1. NoComment(line, 1, p - 1)
      <4>1. \A i \in 1 .. p - 1 : i \in 1 .. c - 1
        BY <1>6
      <4> QED  BY <1>14, <4>1, Zenon DEF NoComment
    <3>2. NoHash(line, 1, p - 1)
      <4> SUFFICES ASSUME NEW d, TextFrom(line, 1, p - 1, d) PROVE line[d] # "#"
        BY DEF NoHash
      <4>1. d \in 1 .. p - 1 /\ line[d] # "space" /\ \A i \in 1 .. d - 1 : line[i] = "space"
        BY DEF TextFrom
      <4>2. \A i \in 1 .. a - 1 : line[i] = "space"
        BY <1>15 DEF TextFrom
      <4>3. line[a] # "space"
        BY <1>15 DEF TextFrom
      <4>4. ~ d < a /\ ~ a < d
        BY <1>6, <4>1, <4>2, <4>3
      <4>5. d = a
        BY <1>6, <4>1, <4>4
      <4> QED  BY <1>15, <4>5
    <3> QED  BY <1>0, <1>8, <2>1, <3>1, <3>2, PlainFirst, SameText
  <2>3. x = skipws(k)
    <3>1. CASE p = a
      <4>1. Blank(line, 1, p - 1)
        BY <1>15, <3>1 DEF Blank, TextFrom
      <4>2. skipws(k) = <<>>
        BY <1>0, <1>8, <2>1, <4>1, SkipBlank
      <4>3. a \in Nat /\ PartOf(line, a, a - 1, x)
        BY <1>6, <1>13, <3>1
      <4>4. x = <<>>
        BY <1>0, <4>3, EmptyPart
      <4> QED  BY <4>2, <4>4
    <3>2. CASE p # a
      <4>1. TextFrom(line, 1, p - 1, a)
        <5>1. a \in 1 .. p - 1
          BY <1>6, <3>2
        <5> QED  BY <1>15, <5>1 DEF TextFrom
      <4>2. PartOf(line, a, p - 1, skipws(k))
        BY <1>0, <1>8, <2>1, <4>1, SkipText
      <4> QED  BY <1>13, <4>2 DEF PartOf
    <3> QED  BY <3>1, <3>2
  <2> QED  BY <2>2, <2>3
<1>17. trimws(skipws(r)) = Stripped(v)
  <2>1. /\ p + 1 \in Nat \ {0} /\ b \in p + 1 - 1 .. Len(line) /\ c - 1 \in b .. Len(line)
        /\ p \in Nat \ {0}
    BY <1>0, <1>6
  <2>2. Plain(line, p + 1)
    <3>1. Plain(line, p) /\ line[p] = "="
      BY <1>5 DEF Parted
    <3>2. line[p] # "backslash" /\ line[p] \notin Quotes
      BY <3>1, QuotesAre
    <3> QED  BY <2>1, <3>1, <3>2, PlainNext
  <2>3. \A i \in b + 1 .. c - 1 : PlainSpace(line, i)
    BY <1>4 DEF Trimming
  <2>4. /\ Stripped(r) = Stripped(v)
        /\ \A d : TextFrom(line, p + 1, b, d) => Stripped(v) # <<>> /\ Stripped(v)[1] = line[d]
    BY <1>0, <1>8, <1>13, <2>1, <2>2, <2>3, StripMore
  <2>5. NoHash(line, p + 1, b)
    BY <1>3, <1>9, <2>4 DEF NoHash
  <2>6. NoComment(line, p + 1, b)
    <3>1. \A i \in p + 1 .. b : i \in 1 .. c - 1
      BY <1>6
    <3> QED  BY <1>14, <3>1, Zenon DEF NoComment
  <2>7. trimws(skipws(r)) = Stripped(r)
    BY <1>0, <1>13, <2>1, <2>2, <2>5, <2>6, SameText
  <2> QED  BY <2>4, <2>7
<1> QED  BY <1>9, <1>12, <1>16, <1>17

\* So the history has what the program takes, of any entry.
LEMMA LineGiven ==
  ASSUME NEW line \in Line, IsEntry(line)
  PROVE  KeyOf[line] = GivenKey[line] /\ ValueOf[line] = GivenValue[line]
<1>1. /\ GivenKey[line] = IF Understood(line) THEN MeantKey[line] ELSE KeyOf[line]
      /\ GivenValue[line] = IF Understood(line) THEN MeantValue[line] ELSE ValueOf[line]
  BY DEF GivenKey, GivenValue
<1> QED  BY <1>1, LineMeans

-----------------------------------------------------------------------------
(* Reading.                                                                *)

FrameName == SectionName \cup {None}

ConfigInv ==
  /\ db \in {"reading", "read", "failed", "crashed"}
  /\ sections \in Seq(SectionRec) /\ open \in Seq(FrameName)
  /\ db = "reading" => Len(open) >= 1 /\ \A i \in 1 .. Len(open) : Frame(sections, open[i])
  /\ Given(sections, assigned)
  /\ db # "failed" => AllLooked(sections, assigned)

LEMMA FrontIs ==
  ASSUME NEW S, NEW s \in Seq(S), Len(s) >= 1
  PROVE  /\ Front(s) \in Seq(S) /\ Len(Front(s)) = Len(s) - 1
         /\ \A i \in 1 .. Len(s) - 1 : Front(s)[i] = s[i]
<1>1. Len(s) - 1 \in 0 .. Len(s)
  OBVIOUS
<1> QED  BY <1>1, SplitAt DEF Front

LEMMA ConfigInitial == ConfigInit => ConfigInv
<1> SUFFICES ASSUME ConfigInit PROVE ConfigInv
  OBVIOUS
<1>1. db = "reading" /\ sections = <<>> /\ open = <<None>> /\ assigned = <<>>
  BY DEF ConfigInit
<1>2. open \in Seq(FrameName) /\ Len(open) = 1 /\ open[1] = None
  <2>1. None \in FrameName
    BY DEF FrameName
  <2>2. <<None>> \in Seq(FrameName)
    BY <2>1, OneIs
  <2> QED  BY <1>1, <2>2
<1>3. sections \in Seq(SectionRec) /\ Len(sections) = 0 /\ DOMAIN assigned = {}
  BY <1>1
<1>4. \A i \in 1 .. Len(open) : Frame(sections, open[i])
  BY <1>2 DEF Frame
<1>5. Given(sections, assigned) /\ AllLooked(sections, assigned)
  BY <1>3 DEF Given, AllLooked
<1> QED  BY <1>1, <1>2, <1>3, <1>4, <1>5 DEF ConfigInv

\* The section of the innermost file.
LEMMA CurIs ==
  ASSUME ConfigInv, Reading
  PROVE  Len(open) \in Nat /\ Len(open) >= 1 /\ cur = open[Len(open)] /\ Frame(sections, cur)
<1>1. db = "reading" /\ open \in Seq(FrameName)
  BY DEF ConfigInv, Reading
<1>2. Len(open) \in Nat /\ Len(open) >= 1 /\ cur = open[Len(open)]
  BY <1>1 DEF ConfigInv, cur, Last
<1>3. Len(open) \in 1 .. Len(open)
  BY <1>2
<1> QED  BY <1>1, <1>2, <1>3 DEF ConfigInv

LEMMA SectionKeeps ==
  ASSUME ConfigInv, NEW line \in Line, SectionLine(line)
  PROVE  ConfigInv'
<1> DEFINE name == NameOf(line)
           x == [name |-> name, keys |-> <<>>]
<1>0. name \in SectionName
  BY DEF SectionName, SectionLine
<1>1. /\ db = "reading" /\ db' = db /\ assigned' = assigned
      /\ open' = [open EXCEPT ![Len(open)] = name]
      /\ sections' = IF cfg_find_section(sections, name) # 0 THEN sections
                     ELSE <<x>> \o sections
      /\ Reading
  BY DEF SectionLine, ReadLine, Reading
<1>2. /\ sections \in Seq(SectionRec) /\ open \in Seq(FrameName)
      /\ Len(open) \in Nat /\ Len(open) >= 1 /\ \A i \in 1 .. Len(open) : Frame(sections, open[i])
      /\ Given(sections, assigned) /\ AllLooked(sections, assigned) /\ Len(sections) \in Nat
  BY <1>1, CurIs DEF ConfigInv
<1>3. /\ sections' \in Seq(SectionRec) /\ Frame(sections', name)
      /\ \A i \in 1 .. Len(open) : Frame(sections', open[i])
      /\ Given(sections', assigned) /\ AllLooked(sections', assigned)
  <2>1. CASE cfg_find_section(sections, name) # 0
    <3>1. PICK s \in 1 .. Len(sections) : Section(sections, name, s)
      BY <1>2, <2>1, FindSectionIs DEF Section
    <3>2. Frame(sections, name)
      BY <3>1 DEF Frame
    <3> QED  BY <1>1, <1>2, <2>1, <3>2
  <2>2. CASE cfg_find_section(sections, name) = 0
    <3>1. NoSection(sections, name)
      <4>1. 0 \notin 1 .. Len(sections)
        OBVIOUS
      <4> QED  BY <1>2, <2>2, <4>1, FindSectionIs DEF Section
    <3>2. x \in SectionRec /\ x.keys = <<>> /\ x.name = name
      <4>1. <<>> \in Seq(EntryRec) /\ name \in SectionName
        BY <1>0
      <4> QED  BY <4>1 DEF SectionRec
    <3> DEFINE b == <<x>> \o sections
    <3>3. b \in Seq(SectionRec) /\ InFront(sections, x, b)
      BY <1>2, <3>2, ConsIs
    <3>4. sections' = b
      BY <1>1, <2>2
    <3> HIDE DEF x, b, name
    <3>5. /\ \A n : Frame(sections, n) => Frame(b, n)
          /\ Frame(b, x.name)
          /\ Given(sections, assigned) => Given(b, assigned)
          /\ AllLooked(sections, assigned) => AllLooked(b, assigned)
      BY <1>2, <3>1, <3>2, <3>3, NewSection
    <3> QED  BY <1>2, <3>2, <3>3, <3>4, <3>5
  <2> QED  BY <2>1, <2>2
<1>4. name \in FrameName /\ Len(open) \in 1 .. Len(open)
  BY <1>0, <1>2 DEF FrameName
<1>5. /\ open' \in Seq(FrameName) /\ Len(open') = Len(open)
      /\ \A j \in 1 .. Len(open) : open'[j] = IF j = Len(open) THEN name ELSE open[j]
  <2> HIDE DEF name
  <2> QED  BY <1>1, <1>2, <1>4, ExceptSeq
<1>6. \A j \in 1 .. Len(open') : Frame(sections', open'[j])
  <2> HIDE DEF name
  <2> QED  BY <1>3, <1>5
<1> QED  BY <1>1, <1>2, <1>3, <1>5, <1>6 DEF ConfigInv

LEMMA EntryKeeps ==
  ASSUME ConfigInv, NEW line \in Line, EntryLine(line)
  PROVE  ConfigInv'
<1>1. /\ db = "reading" /\ db' = db /\ open' = open /\ Reading /\ line \in Entries
  BY DEF EntryLine, ReadLine, Reading, Entries
<1>2. /\ sections \in Seq(SectionRec) /\ open \in Seq(FrameName)
      /\ Len(open) >= 1 /\ \A i \in 1 .. Len(open) : Frame(sections, open[i])
      /\ Given(sections, assigned) /\ AllLooked(sections, assigned) /\ Len(sections) \in Nat
      /\ Frame(sections, cur)
  BY <1>1, CurIs DEF ConfigInv
<1>3. CASE cur = None
  <2>1. UNCHANGED <<sections, assigned>>
    BY <1>3 DEF EntryLine
  <2> QED  BY <1>1, <1>2, <2>1 DEF ConfigInv
<1>4. CASE cur # None
  <2>1. PICK i \in 1 .. Len(sections) : Section(sections, cur, i)
    BY <1>2, <1>4 DEF Frame
  <2>2. cfg_find_section(sections, cur) = i
    BY <1>2, <2>1, SectionIs
  <2> DEFINE old == sections[i].keys
             keys == Assign(old, KeyOf[line], ValueOf[line])
             b == [sections EXCEPT ![i].keys = keys]
  <2>3. sections' = b
    BY <1>4, <2>2 DEF EntryLine
  <2>4. KeyOf[line] = GivenKey[line] /\ ValueOf[line] = GivenValue[line]
    BY LineGiven DEF EntryLine
  <2>5. GivenAt(assigned, Place(cur, KeyOf[line]), ValueOf[line], assigned')
    <3>1. assigned' = [x \in DOMAIN assigned \cup {Place(cur, KeyOf[line])} |->
                         IF x = Place(cur, KeyOf[line]) THEN ValueOf[line] ELSE assigned[x]]
      BY <1>4, <2>4 DEF EntryLine, Place
    <3> QED  BY <3>1 DEF GivenAt
  <2>6. old \in Seq(EntryRec)
    <3>1. sections[i] \in SectionRec
      BY <1>2
    <3> QED  BY <3>1 DEF SectionRec
  <2> HIDE DEF old
  <2>7. keys \in Seq(EntryRec) /\ Assigned(old, KeyOf[line], ValueOf[line], keys)
    BY <1>1, <2>6, AssignIs
  <2> HIDE DEF keys
  <2>8. b \in Seq(SectionRec) /\ Rekeyed(sections, i, keys, b)
    BY <1>2, <2>7, RekeyedIs
  <2> HIDE DEF b
  <2>9. /\ \A name : Frame(sections, name) => Frame(b, name)
        /\ Given(b, assigned') /\ AllLooked(b, assigned')
    <3>1. Assigned(sections[i].keys, KeyOf[line], ValueOf[line], keys)
      BY <2>7 DEF old
    <3> QED  BY <1>2, <2>1, <2>5, <2>8, <3>1, NewEntry
  <2> QED  BY <1>1, <1>2, <2>3, <2>8, <2>9 DEF ConfigInv
<1> QED  BY <1>3, <1>4

\* The end of a file, with what it gave.
LEMMA FrontKeeps ==
  ASSUME ConfigInv, Reading, open' = Front(open)
  PROVE  /\ open' \in Seq(FrameName) /\ Len(open) \in Nat
         /\ Len(open) > 1 => Len(open') >= 1
         /\ \A i \in 1 .. Len(open') : Frame(sections, open'[i])
<1>1. /\ open \in Seq(FrameName) /\ Len(open) \in Nat /\ Len(open) >= 1
      /\ \A i \in 1 .. Len(open) : Frame(sections, open[i])
  BY CurIs DEF ConfigInv, Reading
<1>2. /\ open' \in Seq(FrameName) /\ Len(open') = Len(open) - 1
      /\ \A i \in 1 .. Len(open) - 1 : open'[i] = open[i]
  BY <1>1, FrontIs
<1> QED  BY <1>1, <1>2

LEMMA AbortKeeps ==
  ASSUME ConfigInv, NEW line \in Line, Abort(line)
  PROVE  ConfigInv'
<1>1. Reading /\ open' = Front(open) /\ assigned' = assigned
  BY DEF Abort, ReadLine
<1>2. /\ open' \in Seq(FrameName) /\ Len(open) \in Nat
      /\ Len(open) > 1 => Len(open') >= 1
      /\ \A i \in 1 .. Len(open') : Frame(sections, open'[i])
  BY <1>1, FrontKeeps
<1>3. CASE Len(open) > 1
  <2>1. UNCHANGED <<db, sections>>
    BY <1>3 DEF Abort
  <2> QED  BY <1>1, <1>2, <1>3, <2>1 DEF ConfigInv
<1>4. CASE ~ Len(open) > 1
  <2>1. db' = "failed" /\ sections' = <<>>
    BY <1>4 DEF Abort
  <2>2. <<>> \in Seq(SectionRec) /\ Len(<<>>) = 0
    BY EmptySeq
  <2>3. Given(<<>>, assigned)
    BY <2>2 DEF Given
  <2> QED  BY <1>1, <1>2, <2>1, <2>2, <2>3 DEF ConfigInv
<1> QED  BY <1>3, <1>4

LEMMA ClosesKeeps ==
  ASSUME ConfigInv, Reading, Closes
  PROVE  ConfigInv'
<1>1. /\ open' = Front(open) /\ UNCHANGED <<sections, assigned>>
      /\ db' = IF Len(open) > 1 THEN db ELSE "read"
  BY DEF Closes
<1>2. /\ open' \in Seq(FrameName) /\ Len(open) \in Nat
      /\ Len(open) > 1 => Len(open') >= 1
      /\ \A i \in 1 .. Len(open') : Frame(sections, open'[i])
  BY <1>1, FrontKeeps
<1> QED  BY <1>1, <1>2 DEF ConfigInv, Reading

LEMMA IncludeKeeps ==
  ASSUME ConfigInv, NEW line \in Line, IncludeLine(line)
  PROVE  ConfigInv'
<1>1. db' = db /\ UNCHANGED <<sections, assigned>> /\ open' = Append(open, None) /\ Reading
  BY DEF IncludeLine, ReadLine
<1>2. /\ open \in Seq(FrameName) /\ None \in FrameName /\ Len(open) \in Nat
      /\ \A i \in 1 .. Len(open) : Frame(sections, open[i])
  BY <1>1, CurIs DEF ConfigInv, FrameName, Reading
<1>3. /\ open' \in Seq(FrameName) /\ Len(open') = Len(open) + 1
      /\ open'[Len(open) + 1] = None /\ \A i \in 1 .. Len(open) : open'[i] = open[i]
  BY <1>1, <1>2, AppendProperties
<1>4. ASSUME NEW i \in 1 .. Len(open') PROVE Frame(sections', open'[i])
  <2>1. CASE i = Len(open) + 1
    BY <1>1, <1>3, <2>1 DEF Frame
  <2>2. CASE i # Len(open) + 1
    <3>1. i \in 1 .. Len(open)
      BY <1>2, <1>3, <2>2
    <3> QED  BY <1>1, <1>2, <1>3, <3>1
  <2> QED  BY <2>1, <2>2
<1>5. Len(open') >= 1
  BY <1>2, <1>3
<1> QED  BY <1>1, <1>3, <1>4, <1>5 DEF ConfigInv

LEMMA ConfigStep ==
  ASSUME ConfigInv, ConfigNext \/ UNCHANGED configVars
  PROVE  ConfigInv'
<1>1. ASSUME NEW line \in Line, SkippedLine(line) PROVE ConfigInv'
  BY <1>1 DEF SkippedLine, ConfigInv
<1>2. ASSUME NEW line \in Line, OpenSection(line) PROVE ConfigInv'
  <2>1. CASE Closes
    BY <1>2, <2>1, ClosesKeeps DEF OpenSection, ReadLine
  <2>2. CASE db' = "crashed" /\ UNCHANGED <<sections, open, assigned>>
    BY <1>2, <2>2 DEF OpenSection, ReadLine, Reading, ConfigInv
  <2> QED  BY <1>2, <2>1, <2>2 DEF OpenSection
<1>3. CASE EndOfFile
  BY <1>3, ClosesKeeps DEF EndOfFile
<1>4. CASE UNCHANGED configVars
  BY <1>4 DEF configVars, ConfigInv
<1> QED  BY <1>1, <1>2, <1>3, <1>4, SectionKeeps, EntryKeeps, AbortKeeps, IncludeKeeps
         DEF ConfigNext

LEMMA ConfigAlways == KeyTableSpec => []ConfigInv
<1>1. KeyTableInit => ConfigInv
  BY ConfigInitial DEF KeyTableInit
<1>2. ConfigInv /\ [KeyTableNext]_keyVars => ConfigInv'
  BY ConfigStep DEF KeyTableNext, keyVars
<1> QED  BY <1>1, <1>2, PTL DEF KeyTableSpec

\* What a lookup finds.
LEMMA LookedIs ==
  ASSUME NEW list \in Seq(SectionRec), NEW g, NEW at, Looked(list, g, at)
  PROVE  Spoiled(list, at[1]) \/ cfg_find_val(list, at[1], at[2]) = g[at]
<1>1. PICK s \in 1 .. Len(list) :
        /\ Section(list, at[1], s)
        /\ \/ \E k \in 1 .. Len(list[s].keys) : Entry(list[s].keys, <<>>, k)
           \/ \E k \in 1 .. Len(list[s].keys) :
                Entry(list[s].keys, at[2], k) /\ list[s].keys[k].value = g[at]
  BY DEF Looked
<1>2. cfg_find_section(list, at[1]) = s /\ s # 0
  BY <1>1, SectionIs
<1> DEFINE keys == list[s].keys
<1>3. keys \in Seq(EntryRec)
  <2>1. list[s] \in SectionRec
    OBVIOUS
  <2> QED  BY <2>1 DEF SectionRec
<1>4. Len(keys) \in Nat
  BY <1>3
<1> HIDE DEF keys
<1>5. ASSUME NEW k \in 1 .. Len(keys), Entry(keys, <<>>, k) PROVE Spoiled(list, at[1])
  <2>1. cfg_find_entry(keys, <<>>) # 0
    BY <1>4, <1>5, EntryIs
  <2> QED  BY <1>2, <2>1 DEF Spoiled, keys
<1>6. ASSUME NEW k \in 1 .. Len(keys), Entry(keys, at[2], k), keys[k].value = g[at]
      PROVE  cfg_find_val(list, at[1], at[2]) = g[at]
  <2>1. cfg_find_entry(keys, at[2]) = k /\ k # 0
    BY <1>4, <1>6, EntryIs
  <2> QED  BY <1>2, <1>6, <2>1 DEF cfg_find_val, keys
<1> QED  BY <1>1, <1>5, <1>6 DEF keys

\* A lookup finds the value that the files gave last, in whatever spelling,
\* part of a section or included file; unless a line without a key spoiled the
\* section.  Nothing is assumed of the lines: one that the program does not
\* take as the comments have it gives what the program takes of it.
THEOREM ConfigLookupIsLast == KeyTableSpec => []LookupIsLast
<1>1. ConfigInv => LookupIsLast
  <2> SUFFICES ASSUME ConfigInv, db # "failed", NEW at \in DOMAIN assigned
               PROVE  \/ Spoiled(sections, at[1])
                      \/ cfg_find_val(sections, at[1], at[2]) = assigned[at]
    BY DEF LookupIsLast
  <2>1. Looked(sections, assigned, at) /\ sections \in Seq(SectionRec)
    BY DEF ConfigInv, AllLooked
  <2> QED  BY <2>1, LookedIs
<1> QED  BY <1>1, ConfigAlways, PTL

-----------------------------------------------------------------------------
(* Sorting.                                                                *)

Perms(n) ==
  {p \in [1 .. n -> 1 .. n] : /\ \A i, j \in 1 .. n : p[i] = p[j] => i = j
                              /\ \A w \in 1 .. n : \E v \in 1 .. n : p[v] = w}

\* A sequence in some order.
Shuffled(seq, s) ==
  \E p \in Perms(Len(seq)) : s = [i \in 1 .. Len(seq) |-> seq[p[i]]]

LEMMA PermsInsert ==
  ASSUME NEW n \in Nat, NEW p \in Perms(n), NEW m \in 1 .. n, NEW k \in 1 .. m
  PROVE  Insert(p, m, k) \in Perms(n)
<1> DEFINE src == [i \in 1 .. n |-> IF i = k THEN m ELSE IF i \in k + 1 .. m THEN i - 1 ELSE i]
           q == [i \in 1 .. n |-> p[src[i]]]
<1>1. p \in [1 .. n -> 1 .. n] /\ DOMAIN p = 1 .. n
  BY DEF Perms
<1>2. src \in [1 .. n -> 1 .. n] /\ \A i, j \in 1 .. n : src[i] = src[j] => i = j
  OBVIOUS
<1>3. ASSUME NEW w \in 1 .. n PROVE \E v \in 1 .. n : src[v] = w
  <2>1. CASE w = m
    BY <2>1
  <2>2. CASE w \in k .. m - 1
    <3>1. w + 1 \in 1 .. n /\ src[w + 1] = w
      BY <2>2
    <3> QED  BY <3>1
  <2>3. CASE w # m /\ w \notin k .. m - 1
    <3>1. src[w] = w
      BY <2>3
    <3> QED  BY <3>1
  <2> QED  BY <2>1, <2>2, <2>3
<1>4. Insert(p, m, k) = q
  BY <1>1 DEF Insert
<1> HIDE DEF src
<1>5. q \in [1 .. n -> 1 .. n] /\ \A i, j \in 1 .. n : q[i] = q[j] => i = j
  BY <1>1, <1>2 DEF Perms
<1>6. ASSUME NEW w \in 1 .. n PROVE \E v \in 1 .. n : q[v] = w
  <2>1. PICK u \in 1 .. n : p[u] = w
    BY DEF Perms
  <2>2. PICK v \in 1 .. n : src[v] = u
    BY <1>3
  <2> QED  BY <2>1, <2>2
<1> HIDE DEF q
<1>7. q \in Perms(n)
  BY <1>5, <1>6 DEF Perms
<1> QED  BY <1>4, <1>7

LEMMA PermsId ==
  ASSUME NEW n \in Nat
  PROVE  [i \in 1 .. n |-> i] \in Perms(n)
<1>1. [i \in 1 .. n |-> i] \in [1 .. n -> 1 .. n]
  OBVIOUS
<1> QED  BY <1>1 DEF Perms

LEMMA ShuffledSelf ==
  ASSUME NEW S, NEW seq \in Seq(S)
  PROVE  Shuffled(seq, seq)
<1> DEFINE n == Len(seq)
           p == [i \in 1 .. n |-> i]
<1>1. n \in Nat /\ seq = [i \in 1 .. n |-> seq[i]]
  OBVIOUS
<1> HIDE DEF n
<1>2. p \in Perms(n)
  BY <1>1, PermsId
<1>3. seq = [i \in 1 .. n |-> seq[p[i]]]
  BY <1>1
<1> HIDE DEF p
<1> QED  BY <1>2, <1>3 DEF Shuffled, n

LEMMA ShuffledInsert ==
  ASSUME NEW S, NEW seq \in Seq(S), NEW s, Shuffled(seq, s),
         NEW m \in 1 .. Len(seq), NEW k \in 1 .. m
  PROVE  Shuffled(seq, Insert(s, m, k))
<1> DEFINE n == Len(seq)
<1>1. n \in Nat /\ m \in 1 .. n
  OBVIOUS
<1>2. PICK p \in Perms(n) : s = [i \in 1 .. n |-> seq[p[i]]]
  BY DEF Shuffled
<1> HIDE DEF n
<1> DEFINE q == Insert(p, m, k)
           at(i) == IF i = k THEN m ELSE IF i \in k + 1 .. m THEN i - 1 ELSE i
<1>3. q \in Perms(n)
  BY <1>1, PermsInsert
<1>4. DOMAIN p = 1 .. n /\ DOMAIN s = 1 .. n
  BY <1>2 DEF Perms
<1>5. ASSUME NEW i \in 1 .. n PROVE at(i) \in 1 .. n
  BY <1>1
<1>6. q = [i \in 1 .. n |-> p[at(i)]] /\ Insert(s, m, k) = [i \in 1 .. n |-> s[at(i)]]
  BY <1>4 DEF Insert
<1> HIDE DEF at, q
<1>7. ASSUME NEW i \in 1 .. n PROVE s[at(i)] = seq[q[i]]
  BY <1>2, <1>5, <1>6
<1>8. Insert(s, m, k) = [i \in 1 .. n |-> seq[q[i]]]
  BY <1>6, <1>7
<1> QED  BY <1>3, <1>8 DEF Shuffled, n

\* The recursion of Sortings, for any order among those in front.
Puts(R, m) == {Insert(r, m, k) : r \in R, k \in 1 .. m}

Arrangements(S, seq) == {s \in Seq(S) : Shuffled(seq, s)}

LEMMA ShuffledIn ==
  ASSUME NEW S, NEW seq \in Seq(S), NEW s, Shuffled(seq, s)
  PROVE  s \in Arrangements(S, seq) /\ Len(s) = Len(seq)
<1> DEFINE n == Len(seq)
<1>1. n \in Nat /\ \A i \in 1 .. n : seq[i] \in S
  OBVIOUS
<1>2. PICK p \in Perms(n) : s = [i \in 1 .. n |-> seq[p[i]]]
  BY DEF Shuffled
<1>3. \A i \in 1 .. n : p[i] \in 1 .. n
  BY DEF Perms
<1> HIDE DEF n
<1>4. s \in [1 .. n -> S]
  BY <1>1, <1>2, <1>3
<1>5. s \in Seq(S) /\ Len(s) = n
  BY <1>1, <1>4
<1> QED  BY <1>5 DEF Arrangements, n

LEMMA PutsIn ==
  ASSUME NEW S, NEW seq \in Seq(S), NEW R \in SUBSET Arrangements(S, seq), NEW m \in 1 .. Len(seq)
  PROVE  Puts(R, m) \subseteq Arrangements(S, seq)
<1>1. ASSUME NEW r \in R, NEW k \in 1 .. m PROVE Insert(r, m, k) \in Arrangements(S, seq)
  <2>1. Shuffled(seq, r)
    BY DEF Arrangements
  <2> QED  BY <2>1, ShuffledInsert, ShuffledIn
<1> QED  BY <1>1 DEF Puts

Sorted1(s, m) == \A i, j \in 1 .. m : i < j => ~ ecmp1(s[j], s[i])

Sorting1(f, seq) ==
  f = [m \in 0 .. Len(seq) |->
         IF m = 0 THEN {seq} ELSE {s \in Puts(f[m - 1], m) : Sorted1(s, m)}]

LEMMA Sorting1Exists ==
  ASSUME NEW S, NEW seq \in Seq(S)
  PROVE  \E f : Sorting1(f, seq)
<1> DEFINE n == Len(seq)
           All == SUBSET Arrangements(S, seq)
           step1(R, m) == {s \in Puts(R, m) : Sorted1(s, m)}
           next == [x \in All \X (1 .. n) |-> step1(x[1], x[2])]
<1>1. n \in Nat
  OBVIOUS
<1>2. {seq} \in All
  BY ShuffledSelf, ShuffledIn
<1>3. next \in [All \X (1 .. n) -> All]
  <2>1. ASSUME NEW x \in All \X (1 .. n) PROVE step1(x[1], x[2]) \in All
    <3>1. Puts(x[1], x[2]) \subseteq Arrangements(S, seq)
      BY PutsIn
    <3> QED  BY <3>1
  <2> HIDE DEF All, step1, n
  <2> QED  BY <2>1
<1>4. PICK f : Forward(f, next, {seq}, n) /\ \A m \in 0 .. n : f[m] \in All
  <2> HIDE DEF All, next, n
  <2> QED  BY <1>1, <1>2, <1>3, ForwardExists
<1> DEFINE e(m) == IF m = 0 THEN {seq} ELSE step1(f[m - 1], m)
<1> HIDE DEF All, step1, n
<1>5. ASSUME NEW m \in 0 .. n PROVE f[m] = e(m)
  <2>1. CASE m = 0
    BY <1>4, <2>1 DEF Forward
  <2>2. CASE m # 0
    <3>1. m \in 1 .. n /\ m - 1 \in 0 .. n
      BY <1>1, <2>2
    <3>2. <<f[m - 1], m>> \in All \X (1 .. n)
      BY <1>4, <3>1
    <3>3. next[<<f[m - 1], m>>] = step1(f[m - 1], m)
      BY <3>2
    <3>4. f[m] = next[<<f[m - 1], m>>]
      <4> HIDE DEF next
      <4> QED  BY <1>4, <3>1 DEF Forward
    <3> QED  BY <2>2, <3>3, <3>4
  <2> QED  BY <2>1, <2>2
<1>6. f = [m \in 0 .. n |-> f[m]]
  BY <1>4 DEF Forward
<1> HIDE DEF e
<1>7. f = [m \in 0 .. n |-> e(m)]
  BY <1>5, <1>6
<1> QED  BY <1>7 DEF Sorting1, e, step1, n

LEMMA Sorted1Is ==
  ASSUME NEW S, NEW seq \in Seq(S), NEW s \in Sortings(seq, ecmp1)
  PROVE  Shuffled(seq, s) /\ Sorted1(s, Len(seq))
<1> DEFINE n == Len(seq)
           f == CHOOSE g : Sorting1(g, seq)
<1>1. n \in Nat
  OBVIOUS
<1>2. Sorting1(f, seq)
  BY Sorting1Exists
<1>3. Sortings(seq, ecmp1) = f[n]
  BY DEF Sortings, Sorting1, Sorted1, Puts
<1> HIDE DEF f, n
<1> DEFINE e(m) == IF m = 0 THEN {seq} ELSE {r \in Puts(f[m - 1], m) : Sorted1(r, m)}
<1>4. f = [m \in 0 .. n |-> e(m)]
  BY <1>2 DEF Sorting1, n
<1> HIDE DEF e
<1>5. \A m \in 0 .. n : f[m] = e(m)
  BY <1>4
<1> DEFINE Right(m) == f[m] \subseteq Arrangements(S, seq) /\ \A r \in f[m] : Sorted1(r, m)
           T == {m \in Nat : m <= n => Right(m)}
<1>6. 0 \in T
  <2>1. f[0] = {seq}
    <3>1. f[0] = e(0)
      BY <1>1, <1>5
    <3> QED  BY <3>1 DEF e
  <2>2. seq \in Arrangements(S, seq)
    BY ShuffledSelf, ShuffledIn
  <2>3. Sorted1(seq, 0)
    BY DEF Sorted1
  <2> QED  BY <2>1, <2>2, <2>3
<1>7. ASSUME NEW m \in Nat, m \in T PROVE m + 1 \in T
  <2> SUFFICES ASSUME m + 1 <= n PROVE Right(m + 1)
    OBVIOUS
  <2>1. m \in 0 .. n /\ m + 1 \in 0 .. n /\ m + 1 # 0 /\ m + 1 - 1 = m /\ m + 1 \in 1 .. n
    BY <1>1
  <2>2. f[m] \in SUBSET Arrangements(S, seq)
    BY <1>7, <2>1
  <2>3. f[m + 1] = {r \in Puts(f[m], m + 1) : Sorted1(r, m + 1)}
    <3>1. f[m + 1] = e(m + 1)
      BY <1>5, <2>1
    <3> QED  BY <2>1, <3>1 DEF e
  <2>4. Puts(f[m], m + 1) \subseteq Arrangements(S, seq)
    BY <2>1, <2>2, PutsIn DEF n
  <2> QED  BY <2>3, <2>4
<1>8. n \in T
  <2> HIDE DEF T
  <2> QED  BY <1>1, <1>6, <1>7, Counting
<1>9. s \in Arrangements(S, seq) /\ Sorted1(s, n)
  BY <1>1, <1>3, <1>8
<1> QED  BY <1>9 DEF Arrangements, n
Sorted(s, m) == \A i, j \in 1 .. m : i < j => ~ ecmp(s[j], s[i])

Sorting(f, seq) ==
  f = [m \in 0 .. Len(seq) |->
         IF m = 0 THEN {seq} ELSE {s \in Puts(f[m - 1], m) : Sorted(s, m)}]

LEMMA SortingExists ==
  ASSUME NEW S, NEW seq \in Seq(S)
  PROVE  \E f : Sorting(f, seq)
<1> DEFINE n == Len(seq)
           All == SUBSET Arrangements(S, seq)
           stepOf(R, m) == {s \in Puts(R, m) : Sorted(s, m)}
           next == [x \in All \X (1 .. n) |-> stepOf(x[1], x[2])]
<1>1. n \in Nat
  OBVIOUS
<1>2. {seq} \in All
  BY ShuffledSelf, ShuffledIn
<1>3. next \in [All \X (1 .. n) -> All]
  <2>1. ASSUME NEW x \in All \X (1 .. n) PROVE stepOf(x[1], x[2]) \in All
    <3>1. Puts(x[1], x[2]) \subseteq Arrangements(S, seq)
      BY PutsIn
    <3> QED  BY <3>1
  <2> HIDE DEF All, stepOf, n
  <2> QED  BY <2>1
<1>4. PICK f : Forward(f, next, {seq}, n) /\ \A m \in 0 .. n : f[m] \in All
  <2> HIDE DEF All, next, n
  <2> QED  BY <1>1, <1>2, <1>3, ForwardExists
<1> DEFINE e(m) == IF m = 0 THEN {seq} ELSE stepOf(f[m - 1], m)
<1> HIDE DEF All, stepOf, n
<1>5. ASSUME NEW m \in 0 .. n PROVE f[m] = e(m)
  <2>1. CASE m = 0
    BY <1>4, <2>1 DEF Forward
  <2>2. CASE m # 0
    <3>1. m \in 1 .. n /\ m - 1 \in 0 .. n
      BY <1>1, <2>2
    <3>2. <<f[m - 1], m>> \in All \X (1 .. n)
      BY <1>4, <3>1
    <3>3. next[<<f[m - 1], m>>] = stepOf(f[m - 1], m)
      BY <3>2
    <3>4. f[m] = next[<<f[m - 1], m>>]
      <4> HIDE DEF next
      <4> QED  BY <1>4, <3>1 DEF Forward
    <3> QED  BY <2>2, <3>3, <3>4
  <2> QED  BY <2>1, <2>2
<1>6. f = [m \in 0 .. n |-> f[m]]
  BY <1>4 DEF Forward
<1> HIDE DEF e
<1>7. f = [m \in 0 .. n |-> e(m)]
  BY <1>5, <1>6
<1> QED  BY <1>7 DEF Sorting, e, stepOf, n

LEMMA SortedIs ==
  ASSUME NEW S, NEW seq \in Seq(S), NEW s \in Sortings(seq, ecmp)
  PROVE  Shuffled(seq, s) /\ Sorted(s, Len(seq))
<1> DEFINE n == Len(seq)
           f == CHOOSE g : Sorting(g, seq)
<1>1. n \in Nat
  OBVIOUS
<1>2. Sorting(f, seq)
  BY SortingExists
<1>3. Sortings(seq, ecmp) = f[n]
  BY DEF Sortings, Sorting, Sorted, Puts
<1> HIDE DEF f, n
<1> DEFINE e(m) == IF m = 0 THEN {seq} ELSE {r \in Puts(f[m - 1], m) : Sorted(r, m)}
<1>4. f = [m \in 0 .. n |-> e(m)]
  BY <1>2 DEF Sorting, n
<1> HIDE DEF e
<1>5. \A m \in 0 .. n : f[m] = e(m)
  BY <1>4
<1> DEFINE Right(m) == f[m] \subseteq Arrangements(S, seq) /\ \A r \in f[m] : Sorted(r, m)
           T == {m \in Nat : m <= n => Right(m)}
<1>6. 0 \in T
  <2>1. f[0] = {seq}
    <3>1. f[0] = e(0)
      BY <1>1, <1>5
    <3> QED  BY <3>1 DEF e
  <2>2. seq \in Arrangements(S, seq)
    BY ShuffledSelf, ShuffledIn
  <2>3. Sorted(seq, 0)
    BY DEF Sorted
  <2> QED  BY <2>1, <2>2, <2>3
<1>7. ASSUME NEW m \in Nat, m \in T PROVE m + 1 \in T
  <2> SUFFICES ASSUME m + 1 <= n PROVE Right(m + 1)
    OBVIOUS
  <2>1. m \in 0 .. n /\ m + 1 \in 0 .. n /\ m + 1 # 0 /\ m + 1 - 1 = m /\ m + 1 \in 1 .. n
    BY <1>1
  <2>2. f[m] \in SUBSET Arrangements(S, seq)
    BY <1>7, <2>1
  <2>3. f[m + 1] = {r \in Puts(f[m], m + 1) : Sorted(r, m + 1)}
    <3>1. f[m + 1] = e(m + 1)
      BY <1>5, <2>1
    <3> QED  BY <2>1, <3>1 DEF e
  <2>4. Puts(f[m], m + 1) \subseteq Arrangements(S, seq)
    BY <2>1, <2>2, PutsIn DEF n
  <2> QED  BY <2>3, <2>4
<1>8. n \in T
  <2> HIDE DEF T
  <2> QED  BY <1>1, <1>6, <1>7, Counting
<1>9. s \in Arrangements(S, seq) /\ Sorted(s, n)
  BY <1>1, <1>3, <1>8
<1> QED  BY <1>9 DEF Arrangements, n

-----------------------------------------------------------------------------
(* The table.                                                              *)

KeyEntry   == [name : DOMAIN Rank, type : KT_SEND .. KT_SYM, code : Nat]
TableEntry ==
  [name : DOMAIN Rank, type : KT_SEND .. KT_SYM \cup {Dup}, code : Nat]

\* Each name given is there, unmarked and with the shortest of its sequences.
Kept(all, t) ==
  \A i \in 1 .. Len(all) : \E j \in 1 .. Len(t) :
    t[j].type # Dup /\ Same(t[j], all[i]) /\ Shortest(all, t[j])

\* Nothing is there that was not given.
FromGiven(all, t) ==
  \A j \in 1 .. Len(t) : \E i \in 1 .. Len(all) :
    /\ t[j].name = all[i].name /\ t[j].code = all[i].code
    /\ t[j].type = Dup \/ t[j].type = all[i].type

\* No two unmarked entries are of one name.
Unique(t) ==
  \A i, j \in 1 .. Len(t) :
    t[i].type # Dup /\ t[j].type # Dup /\ Same(t[i], t[j]) => i = j

TableIs(all, t) == t \in Seq(TableEntry) /\ Kept(all, t) /\ FromGiven(all, t) /\ Unique(t)

\* At most one entry is marked, and the sweep still has to come by it; or it
\* has to come by all that are, and no marked one is among those that will
\* come in.
Marked(t) == {i \in 1 .. Len(t) : t[i].type = Dup}

TailClear(t, n) == \A i \in Marked(t) : n <= i /\ i <= Len(t) - Cardinality(Marked(t))

OneMarked(t, n) ==
  /\ \A i \in 1 .. Len(t) : t[i].type = Dup => i >= n
  /\ \A i, j \in 1 .. Len(t) : t[i].type = Dup /\ t[j].type = Dup => i = j

Clear(t, n) == OneMarked(t, n) \/ TailClear(t, n)

NoneMarked(t) == \A i \in 1 .. Len(t) : t[i].type # Dup

TableInv ==
  /\ step \in {"none", "opened", "sweep", "ready", "loaded", "none made"}
  /\ kindle3 \in BOOLEAN
  /\ step \in {"opened", "sweep", "ready", "loaded"} => db = "read"
  /\ step \in {"sweep", "ready", "loaded"} => TableIs(given, table)
  /\ step = "sweep" =>
       pos \in Nat \ {0} /\ (SweptClean(given) => Clear(table, pos))
  /\ step \in {"ready", "loaded"} /\ SweptClean(given) => NoneMarked(table)
  /\ step = "loaded" => \A p \in DOMAIN keycode : keycode[p] \in setKey(p)

\* build_seq() makes typed entries.
LEMMA NamesType ==
  ASSUME NEW entry \in EntryRec
  PROVE  Names(entry) \in Seq(KeyEntry)
<1>1. PICK line \in Entries : entry.value = ValueOf[line]
  BY DEF EntryRec
<1>2. PICK other \in Entries : entry.key = KeyOf[other]
  BY DEF EntryRec
<1> DEFINE value == entry.value
           names == NamesOf(value)
           first == Code[entry.key]
           from == {i \in DOMAIN value : value[i] # "space" /\ (i = 1 \/ value[i - 1] = "space")}
           n == Cardinality(from)
           e(i) == [name |-> names[i], type |-> first.type, code |-> (first.code + i - 1) % 256]
<1>3. value \in Seq(Char)
  BY <1>1, ValueType DEF Entries
<1>4. n \in Nat
  <2>1. Len(value) \in Nat /\ from \subseteq 1 .. Len(value)
    BY <1>3
  <2> HIDE DEF from
  <2>2. IsFiniteSet(1 .. Len(value))
    BY <2>1, FS_Interval
  <2>3. IsFiniteSet(from)
    BY <2>1, <2>2, FS_Subset
  <2> QED  BY <2>3, FS_CardinalityType
<1>5. DOMAIN names = 1 .. n
  BY DEF NamesOf
<1>6. first.type \in KT_SEND .. KT_SYM /\ first.code \in 0 .. 255
  <2>1. entry.key \in DOMAIN Code
    BY <1>2, TableAssumption DEF Entries
  <2>2. first \in [type : KT_SEND .. KT_SYM, code : 0 .. 255]
    BY <2>1, TableAssumption
  <2> QED  BY <2>2
<1>7. \A i \in 1 .. n : names[i] \in DOMAIN Rank
  <2>1. names = NamesOf(ValueOf[line])
    BY <1>1
  <2> HIDE DEF names
  <2> QED  BY <1>5, <2>1, TableAssumption DEF Entries
<1>8. Names(entry) = [i \in 1 .. n |-> e(i)]
  <2>1. Names(entry) = [i \in DOMAIN names |-> e(i)]
    BY DEF Names
  <2> QED  BY <1>5, <2>1
<1> HIDE DEF names, first, n
<1>9. ASSUME NEW i \in 1 .. n PROVE e(i) \in KeyEntry
  <2>1. (first.code + i - 1) % 256 \in Nat
    BY <1>4, <1>6
  <2> QED  BY <1>6, <1>7, <2>1 DEF KeyEntry
<1> HIDE DEF e
<1>10. [i \in 1 .. n |-> e(i)] \in [1 .. n -> KeyEntry]
  BY <1>9
<1> QED  BY <1>4, <1>8, <1>10

LEMMA BuildType ==
  ASSUME ConfigInv, NEW sec
  PROVE  build_seq(sec) \in Seq(KeyEntry)
<1> DEFINE s == cfg_find_section(sections, sec)
           keys == sections[s].keys
           each == [k \in DOMAIN keys |-> Names(keys[k])]
<1>1. sections \in Seq(SectionRec) /\ Len(sections) \in Nat
  BY DEF ConfigInv
<1>2. build_seq(sec) = IF s = 0 THEN <<>> ELSE FlattenSeq(each)
  BY DEF build_seq
<1>3. CASE s = 0
  BY <1>2, <1>3, EmptySeq
<1>4. CASE s # 0
  <2>1. s \in 1 .. Len(sections)
    BY <1>1, <1>4, FindSectionIs DEF Section
  <2>2. sections[s] \in SectionRec
    BY <1>1, <2>1
  <2>3. keys \in Seq(EntryRec)
    BY <2>2 DEF SectionRec
  <2> HIDE DEF keys
  <2>4. DOMAIN keys = 1 .. Len(keys) /\ Len(keys) \in Nat /\ \A k \in 1 .. Len(keys) : keys[k] \in EntryRec
    BY <2>3
  <2>5. \A k \in 1 .. Len(keys) : Names(keys[k]) \in Seq(KeyEntry)
    BY <2>4, NamesType
  <2>6. each \in [1 .. Len(keys) -> Seq(KeyEntry)]
    BY <2>4, <2>5
  <2> HIDE DEF each
  <2>7. each \in Seq(Seq(KeyEntry))
    BY <2>4, <2>6
  <2> QED  BY <1>2, <1>4, <2>7, FlatType
<1> QED  BY <1>3, <1>4

LEMMA GivenType ==
  ASSUME ConfigInv, kindle3 \in BOOLEAN
  PROVE  given \in Seq(KeyEntry)
<1> DEFINE secs == KeySections[kindle3]
           each == [i \in DOMAIN secs |-> build_seq(secs[i])]
<1>1. secs \in Seq(Seq(Word))
  BY TableAssumption
<1>2. given = FlattenSeq(each)
  BY DEF given
<1> HIDE DEF secs
<1>3. DOMAIN secs = 1 .. Len(secs) /\ Len(secs) \in Nat
  BY <1>1
<1>4. each \in [1 .. Len(secs) -> Seq(KeyEntry)]
  BY <1>3, BuildType
<1> HIDE DEF each
<1>5. each \in Seq(Seq(KeyEntry))
  BY <1>3, <1>4
<1> QED  BY <1>2, <1>5, FlatType

\* What sorting and marking make of what was given.
Repeats(s, i) == i > 1 /\ Same(s[i], s[i - 1])

LEMMA MarkIs ==
  ASSUME NEW s \in Seq(KeyEntry)
  PROVE  /\ Mark(s) \in Seq(TableEntry) /\ Len(Mark(s)) = Len(s)
         /\ \A i \in 1 .. Len(s) :
              /\ Mark(s)[i].name = s[i].name /\ Mark(s)[i].code = s[i].code
              /\ Mark(s)[i].type = IF Repeats(s, i) THEN Dup ELSE s[i].type
<1> DEFINE n == Len(s)
           e(i) == IF Repeats(s, i) THEN [s[i] EXCEPT !.type = Dup] ELSE s[i]
<1>1. n \in Nat /\ DOMAIN s = 1 .. n /\ \A i \in 1 .. n : s[i] \in KeyEntry
  OBVIOUS
<1>2. Mark(s) = [i \in 1 .. n |-> e(i)]
  BY <1>1 DEF Mark, Repeats
<1>3. ASSUME NEW i \in 1 .. n
      PROVE  /\ e(i) \in TableEntry
             /\ e(i).name = s[i].name /\ e(i).code = s[i].code
             /\ e(i).type = IF Repeats(s, i) THEN Dup ELSE s[i].type
  <2>1. s[i] \in KeyEntry
    BY <1>1
  <2> DEFINE x == s[i]
  <2> HIDE DEF x
  <2>2. x \in KeyEntry
    BY <2>1 DEF x
  <2>3. /\ x \in TableEntry /\ [x EXCEPT !.type = Dup] \in TableEntry
        /\ [x EXCEPT !.type = Dup].name = x.name /\ [x EXCEPT !.type = Dup].code = x.code
        /\ [x EXCEPT !.type = Dup].type = Dup
    BY <2>2 DEF KeyEntry, TableEntry
  <2> QED  BY <2>3 DEF x
<1> HIDE DEF e
<1>4. Mark(s) \in [1 .. n -> TableEntry]
  BY <1>2, <1>3
<1> HIDE DEF n
<1>5. Mark(s) \in Seq(TableEntry) /\ Len(Mark(s)) = n
  BY <1>1, <1>4
<1>6. \A i \in 1 .. n : Mark(s)[i] = e(i)
  BY <1>2
<1> QED  BY <1>3, <1>5, <1>6 DEF n

LEMMA KeyEntryIs ==
  ASSUME NEW e \in KeyEntry
  PROVE  /\ Rank[e.name] \in Nat /\ e.type \in KT_SEND .. KT_SYM /\ e.code \in Nat
         /\ e.type # Dup /\ e.type \in Int
  BY TableAssumption DEF KeyEntry, KT_SEND, KT_SYM, Dup

LEMMA SortedRanks ==
  ASSUME NEW s \in Seq(KeyEntry), Sorted1(s, Len(s)),
         NEW i \in 1 .. Len(s), NEW j \in 1 .. Len(s), i < j
  PROVE  \/ Rank[s[i].name] < Rank[s[j].name]
         \/ Same(s[i], s[j]) /\ s[i].type <= s[j].type
<1>1. ~ ecmp1(s[j], s[i])
  BY DEF Sorted1
<1>2. s[i] \in KeyEntry /\ s[j] \in KeyEntry
  OBVIOUS
<1>3. /\ Rank[s[i].name] \in Nat /\ Rank[s[j].name] \in Nat
      /\ s[i].type \in Int /\ s[j].type \in Int
  BY <1>2, KeyEntryIs
<1> QED  BY <1>1, <1>3 DEF ecmp1, ecmp, Same

LEMMA ShuffledIs ==
  ASSUME NEW S, NEW seq \in Seq(S), NEW s, Shuffled(seq, s)
  PROVE  /\ s \in Seq(S) /\ Len(s) = Len(seq)
         /\ \A i \in 1 .. Len(seq) : \E j \in 1 .. Len(seq) : s[i] = seq[j]
         /\ \A i \in 1 .. Len(seq) : \E j \in 1 .. Len(seq) : s[j] = seq[i]
<1>1. s \in Seq(S) /\ Len(s) = Len(seq)
  BY ShuffledIn DEF Arrangements
<1> DEFINE n == Len(seq)
<1>2. PICK p \in Perms(n) : s = [i \in 1 .. n |-> seq[p[i]]]
  BY DEF Shuffled
<1> HIDE DEF n
<1>3. \A i \in 1 .. n : p[i] \in 1 .. n /\ s[i] = seq[p[i]]
  BY <1>2 DEF Perms
<1>4. \A i \in 1 .. n : \E j \in 1 .. n : p[j] = i
  BY DEF Perms
<1>5. \A i \in 1 .. n : \E j \in 1 .. n : s[i] = seq[j]
  BY <1>3
<1>6. \A i \in 1 .. n : \E j \in 1 .. n : s[j] = seq[i]
  BY <1>3, <1>4
<1> QED  BY <1>1, <1>5, <1>6 DEF n

\* The first of a name is left, and has the shortest sequence.
LEMMA MarkKept ==
  ASSUME NEW all \in Seq(KeyEntry), NEW s, Shuffled(all, s), Sorted1(s, Len(all))
  PROVE  Kept(all, Mark(s))
<1> DEFINE n == Len(all)
           m == Mark(s)
<1>1. /\ s \in Seq(KeyEntry) /\ Len(s) = n /\ n \in Nat
      /\ \A i \in 1 .. n : \E j \in 1 .. n : s[j] = all[i]
  BY ShuffledIs
<1>2. /\ Len(m) = n
      /\ \A i \in 1 .. n : /\ m[i].name = s[i].name
                           /\ m[i].type = IF Repeats(s, i) THEN Dup ELSE s[i].type
  BY <1>1, MarkIs
<1>0. n \in Nat
  BY <1>1
<1> HIDE DEF n, m
<1> SUFFICES ASSUME NEW i \in 1 .. n
             PROVE  \E j \in 1 .. Len(m) :
                      m[j].type # Dup /\ Same(m[j], all[i]) /\ Shortest(all, m[j])
  BY DEF Kept, n, m
<1> DEFINE T == {j \in 1 .. n : Same(s[j], all[i])}
<1>3. T # {} /\ T \in SUBSET Nat
  <2>1. PICK j \in 1 .. n : s[j] = all[i]
    BY <1>1
  <2>2. j \in T
    BY <2>1 DEF Same
  <2>3. T \subseteq 1 .. n /\ 1 .. n \subseteq Nat
    BY <1>0
  <2> HIDE DEF T
  <2> QED  BY <2>2, <2>3
<1>4. PICK j \in T : \A k \in T : j <= k
  <2> HIDE DEF T
  <2> QED  BY <1>3, LeastOf
<1>5. j \in 1 .. n /\ Same(s[j], all[i])
  BY <1>4
<1>6. ~ Repeats(s, j)
  <2> SUFFICES ASSUME j > 1, Same(s[j], s[j - 1]) PROVE FALSE
    BY DEF Repeats
  <2>1. j - 1 \in 1 .. n
    BY <1>0, <1>5
  <2>2. j - 1 \in T
    BY <1>5, <2>1 DEF Same
  <2> QED  BY <1>1, <1>4, <1>5, <2>2
<1>7. m[j].name = s[j].name /\ m[j].type = s[j].type
  BY <1>2, <1>5, <1>6
<1>8. s[j] \in KeyEntry
  BY <1>1, <1>5
<1>9. ASSUME NEW k \in 1 .. n, Same(all[k], m[j]) PROVE m[j].type <= all[k].type
  <2>1. PICK l \in 1 .. n : s[l] = all[k]
    BY <1>1
  <2>2. l \in T
    BY <1>5, <1>7, <1>9, <2>1 DEF Same
  <2>3. CASE l = j
    BY <1>7, <1>8, <2>1, <2>3, KeyEntryIs
  <2>4. CASE l # j
    <3>1. j < l
      BY <1>1, <1>4, <1>5, <2>2, <2>4
    <3>2. Rank[s[j].name] < Rank[s[l].name] \/ s[j].type <= s[l].type
      BY <1>1, <1>5, <3>1, SortedRanks DEF n
    <3>3. Rank[s[j].name] = Rank[s[l].name] /\ Rank[s[j].name] \in Nat
      BY <1>5, <1>8, <2>2, KeyEntryIs DEF Same
    <3> QED  BY <1>7, <2>1, <3>2, <3>3
  <2> QED  BY <2>3, <2>4
<1>10. DOMAIN all = 1 .. n
  BY DEF n
<1>11. Shortest(all, m[j])
  BY <1>9, <1>10 DEF Shortest
<1>12. m[j].type # Dup /\ Same(m[j], all[i])
  BY <1>5, <1>7, <1>8, KeyEntryIs DEF Same
<1> QED  BY <1>2, <1>5, <1>11, <1>12

LEMMA MarkGiven ==
  ASSUME NEW all \in Seq(KeyEntry), NEW s, Shuffled(all, s)
  PROVE  FromGiven(all, Mark(s))
<1> DEFINE n == Len(all)
           m == Mark(s)
<1>1. /\ s \in Seq(KeyEntry) /\ Len(s) = n
      /\ \A i \in 1 .. n : \E j \in 1 .. n : s[i] = all[j]
  BY ShuffledIs
<1>2. /\ Len(m) = n
      /\ \A i \in 1 .. n : /\ m[i].name = s[i].name /\ m[i].code = s[i].code
                           /\ m[i].type = IF Repeats(s, i) THEN Dup ELSE s[i].type
  BY <1>1, MarkIs
<1> HIDE DEF n, m
<1>3. ASSUME NEW j \in 1 .. n
      PROVE  \E i \in 1 .. n : /\ m[j].name = all[i].name /\ m[j].code = all[i].code
                               /\ m[j].type = Dup \/ m[j].type = all[i].type
  <2>1. PICK i \in 1 .. n : s[j] = all[i]
    BY <1>1
  <2> QED  BY <1>2, <2>1
<1> QED  BY <1>2, <1>3 DEF FromGiven, m, n

\* Two entries of one name stand side by side, or have others between them;
\* the second is marked.
LEMMA MarkUnique ==
  ASSUME NEW s \in Seq(KeyEntry), Sorted1(s, Len(s))
  PROVE  Unique(Mark(s))
<1> DEFINE n == Len(s)
           m == Mark(s)
<1>0. n \in Nat
  OBVIOUS
<1>1. /\ Len(m) = n
      /\ \A i \in 1 .. n : /\ m[i].name = s[i].name
                           /\ m[i].type = IF Repeats(s, i) THEN Dup ELSE s[i].type
  BY MarkIs
<1>2. \A i, j \in 1 .. n : i < j => Rank[s[i].name] <= Rank[s[j].name]
  <2> SUFFICES ASSUME NEW i \in 1 .. n, NEW j \in 1 .. n, i < j
               PROVE  Rank[s[i].name] <= Rank[s[j].name]
    OBVIOUS
  <2>1. s[i] \in KeyEntry /\ s[j] \in KeyEntry
    OBVIOUS
  <2>2. Rank[s[i].name] \in Nat /\ Rank[s[j].name] \in Nat
    BY <2>1, KeyEntryIs
  <2> QED  BY <2>2, SortedRanks DEF Same
<1>3. \A i \in 1 .. n : Rank[s[i].name] \in Nat
  <2> SUFFICES ASSUME NEW i \in 1 .. n PROVE Rank[s[i].name] \in Nat
    OBVIOUS
  <2>1. s[i] \in KeyEntry
    OBVIOUS
  <2> QED  BY <2>1, KeyEntryIs
<1> HIDE DEF n, m
<1>4. ASSUME NEW i \in 1 .. n, NEW j \in 1 .. n, i < j, Same(s[i], s[j]) PROVE m[j].type = Dup
  <2>1. j - 1 \in 1 .. n /\ j > 1
    BY <1>0, <1>4
  <2>2. Rank[s[i].name] <= Rank[s[j - 1].name]
    <3>1. CASE i = j - 1
      BY <1>3, <3>1
    <3>2. CASE i < j - 1
      BY <1>2, <2>1, <3>2
    <3> QED  BY <1>0, <1>4, <3>1, <3>2
  <2>3. Rank[s[j - 1].name] <= Rank[s[j].name]
    BY <1>0, <1>2, <2>1
  <2>4. Rank[s[j].name] = Rank[s[j - 1].name]
    BY <1>3, <1>4, <2>1, <2>2, <2>3 DEF Same
  <2>5. Repeats(s, j)
    BY <2>1, <2>4 DEF Repeats, Same
  <2> QED  BY <1>1, <2>5
<1>5. ASSUME NEW i \in 1 .. n, NEW j \in 1 .. n, m[i].type # Dup, m[j].type # Dup, Same(m[i], m[j])
      PROVE  i = j
  <2>1. Same(s[i], s[j]) /\ Same(s[j], s[i])
    BY <1>1, <1>5 DEF Same
  <2>2. ~ (i < j) /\ ~ (j < i)
    BY <1>4, <1>5, <2>1
  <2> QED  BY <1>0, <2>2
<1> QED  BY <1>1, <1>5 DEF Unique, n, m

\* The ranks of what was given are those of the entries that are not marked.
LEMMA TwoMarked ==
  ASSUME NEW all \in Seq(KeyEntry), NEW s, Shuffled(all, s),
         NEW a \in 1 .. Len(all), NEW b \in 1 .. Len(all), a < b, Repeats(s, a), Repeats(s, b)
  PROVE  Duplicates(all) >= 2
<1> DEFINE n == Len(all)
<1>1. /\ \A i \in 1 .. n : \E j \in 1 .. n : s[i] = all[j]
      /\ \A i \in 1 .. n : \E j \in 1 .. n : s[j] = all[i]
  <2>1. \A i \in 1 .. n : \E j \in 1 .. n : s[i] = all[j]
    BY ShuffledIs
  <2>2. \A i \in 1 .. n : \E j \in 1 .. n : s[j] = all[i]
    BY ShuffledIs
  <2> QED  BY <2>1, <2>2
<1> DEFINE R == {Rank[all[i].name] : i \in DOMAIN all}
           D == ((1 .. n) \ {a}) \ {b}
           f == [i \in D |-> Rank[s[i].name]]
<1>2. n \in Nat /\ DOMAIN all = 1 .. n /\ a \in 1 .. n /\ b \in 1 .. n /\ Duplicates(all) = n - Cardinality(R)
  BY DEF Duplicates
<1>3. /\ a > 1 /\ Rank[s[a].name] = Rank[s[a - 1].name]
      /\ b > 1 /\ Rank[s[b].name] = Rank[s[b - 1].name]
  BY DEF Repeats, Same
<1> HIDE DEF n
<1>4. f \in [D -> R]
  <2> SUFFICES ASSUME NEW i \in D PROVE Rank[s[i].name] \in R
    OBVIOUS
  <2>1. i \in 1 .. n
    OBVIOUS
  <2>2. PICK j \in 1 .. n : s[i] = all[j]
    BY <1>1, <2>1
  <2> QED  BY <1>2, <2>2
<1>5. ASSUME NEW r \in R PROVE \E i \in D : f[i] = r
  <2>1. PICK k \in 1 .. n : r = Rank[all[k].name]
    BY <1>2
  <2>2. PICK i \in 1 .. n : s[i] = all[k]
    BY <1>1
  <2>3. r = Rank[s[i].name]
    BY <2>1, <2>2
  <2>4. a - 1 \in D
    BY <1>2, <1>3
  <2>5. CASE i = a
    <3>1. f[a - 1] = r
      BY <1>3, <2>3, <2>4, <2>5
    <3> QED  BY <2>4, <3>1
  <2>6. CASE i = b /\ b - 1 = a
    <3>1. f[a - 1] = r
      BY <1>3, <2>3, <2>4, <2>6
    <3> QED  BY <2>4, <3>1
  <2>7. CASE i = b /\ b - 1 # a
    <3>1. b - 1 \in D
      BY <1>2, <1>3, <2>7
    <3>2. f[b - 1] = r
      BY <1>3, <2>3, <2>7, <3>1
    <3> QED  BY <3>1, <3>2
  <2>8. CASE i # a /\ i # b
    <3>1. i \in D
      BY <2>8
    <3>2. f[i] = r
      BY <2>3, <3>1
    <3> QED  BY <3>1, <3>2
  <2> QED  BY <2>5, <2>6, <2>7, <2>8
<1>6. f \in Surjection(D, R)
  <2> HIDE DEF D, R, f
  <2> QED  BY <1>4, <1>5 DEF Surjection
<1>7. IsFiniteSet(D) /\ Cardinality(D) = n - 2
  <2>1. IsFiniteSet(1 .. n) /\ Cardinality(1 .. n) = n
    <3>1. 1 \in Int /\ n \in Int /\ (IF 1 > n THEN 0 ELSE n - 1 + 1) = n
      BY <1>2
    <3> QED  BY <3>1, FS_Interval
  <2>2. IsFiniteSet((1 .. n) \ {a}) /\ Cardinality((1 .. n) \ {a}) = n - 1
    BY <1>2, <2>1, FS_RemoveElement
  <2>3. b \in (1 .. n) \ {a}
    BY <1>2
  <2>4. IsFiniteSet(D) /\ Cardinality(D) = n - 1 - 1
    BY <2>2, <2>3, FS_RemoveElement
  <2> QED  BY <1>2, <2>4
<1>8. IsFiniteSet(R) /\ Cardinality(R) <= Cardinality(D)
  <2> HIDE DEF D, R, f
  <2> QED  BY <1>6, <1>7, FS_Surjection
<1>9. Cardinality(R) \in Nat
  BY <1>8, FS_CardinalityType
<1> HIDE DEF R, D
<1> QED  BY <1>2, <1>7, <1>8, <1>9

LEMMA DuplicatesType ==
  ASSUME NEW all \in Seq(KeyEntry)
  PROVE  Duplicates(all) \in Int
<1> DEFINE n == Len(all)
           R == {Rank[all[i].name] : i \in 1 .. n}
           f == [i \in 1 .. n |-> Rank[all[i].name]]
<1>1. n \in Nat /\ Duplicates(all) = n - Cardinality(R)
  <2>1. DOMAIN all = 1 .. n
    OBVIOUS
  <2> QED  BY <2>1 DEF Duplicates
<1>2. f \in Surjection(1 .. n, R)
  BY DEF Surjection
<1>3. IsFiniteSet(1 .. n)
  <2>1. 1 \in Int /\ n \in Int
    BY <1>1
  <2> HIDE DEF n
  <2> QED  BY <2>1, FS_Interval
<1> HIDE DEF n, R, f
<1>4. Cardinality(R) \in Nat
  BY <1>2, <1>3, FS_Surjection, FS_CardinalityType
<1> QED  BY <1>1, <1>4

LEMMA MarkOne ==
  ASSUME NEW all \in Seq(KeyEntry), NEW s, Shuffled(all, s), Duplicates(all) <= 1
  PROVE  OneMarked(Mark(s), 1)
<1> DEFINE n == Len(all)
           m == Mark(s)
<1>1. s \in Seq(KeyEntry) /\ Len(s) = n /\ n \in Nat
  BY ShuffledIs
<1>2. Len(m) = n /\ \A i \in 1 .. n : m[i].type = IF Repeats(s, i) THEN Dup ELSE s[i].type
  BY <1>1, MarkIs
<1>3. \A i \in 1 .. n : m[i].type = Dup => Repeats(s, i)
  <2> SUFFICES ASSUME NEW i \in 1 .. n PROVE m[i].type = Dup => Repeats(s, i)
    OBVIOUS
  <2>1. s[i] \in KeyEntry
    BY <1>1
  <2> QED  BY <1>2, <2>1, KeyEntryIs
<1>4. ~ (Duplicates(all) >= 2)
  <2>1. Duplicates(all) \in Int
    BY DuplicatesType
  <2> QED  BY <2>1
<1> HIDE DEF n, m
<1>5. ASSUME NEW a \in 1 .. n, NEW b \in 1 .. n, m[a].type = Dup, m[b].type = Dup PROVE a = b
  <2>1. Repeats(s, a) /\ Repeats(s, b)
    BY <1>3, <1>5
  <2>2. ~ (a < b) /\ ~ (b < a)
    BY <1>4, <2>1, TwoMarked DEF n
  <2> QED  BY <1>1, <2>2
<1> QED  BY <1>1, <1>2, <1>5 DEF OneMarked, n, m

\* The first of each rank is not marked.
LEMMA RepeatsCount ==
  ASSUME NEW all \in Seq(KeyEntry), NEW s, Shuffled(all, s),
         NEW M, M = {i \in 1 .. Len(all) : Repeats(s, i)}
  PROVE  /\ IsFiniteSet(M) /\ Cardinality(M) \in Nat
         /\ Cardinality(M) <= Duplicates(all)
<1> DEFINE n == Len(all)
           R == {Rank[all[i].name] : i \in DOMAIN all}
           D == (1 .. n) \ M
           f == [i \in D |-> Rank[s[i].name]]
<1>1. /\ \A i \in 1 .. n : \E j \in 1 .. n : s[i] = all[j]
      /\ \A i \in 1 .. n : \E j \in 1 .. n : s[j] = all[i]
  <2>1. \A i \in 1 .. n : \E j \in 1 .. n : s[i] = all[j]
    BY ShuffledIs
  <2>2. \A i \in 1 .. n : \E j \in 1 .. n : s[j] = all[i]
    BY ShuffledIs
  <2> QED  BY <2>1, <2>2
<1>2. n \in Nat /\ DOMAIN all = 1 .. n /\ Duplicates(all) = n - Cardinality(R)
  BY DEF Duplicates
<1>3. \A i : i \in M <=> i \in 1 .. n /\ i > 1 /\ Rank[s[i].name] = Rank[s[i - 1].name]
  BY DEF Repeats, Same
<1> HIDE DEF n
<1>4. f \in [D -> R]
  <2> SUFFICES ASSUME NEW i \in D PROVE Rank[s[i].name] \in R
    OBVIOUS
  <2>1. i \in 1 .. n
    OBVIOUS
  <2>2. PICK j \in 1 .. n : s[i] = all[j]
    BY <1>1, <2>1
  <2> QED  BY <1>2, <2>2
<1>5. ASSUME NEW r \in R PROVE \E i \in D : f[i] = r
  <2>1. PICK k \in 1 .. n : r = Rank[all[k].name]
    BY <1>2
  <2> DEFINE T == {i \in 1 .. n : Rank[s[i].name] = r}
  <2>2. T # {} /\ T \in SUBSET Nat
    <3>1. PICK i \in 1 .. n : s[i] = all[k]
      BY <1>1
    <3>2. i \in T
      BY <2>1, <3>1
    <3>3. T \subseteq 1 .. n /\ 1 .. n \subseteq Nat
      BY <1>2
    <3> HIDE DEF T
    <3> QED  BY <3>2, <3>3
  <2>3. PICK i \in T : \A j \in T : i <= j
    <3> HIDE DEF T
    <3> QED  BY <2>2, LeastOf
  <2>4. i \in 1 .. n /\ Rank[s[i].name] = r
    OBVIOUS
  <2>5. i \notin M
    <3> SUFFICES ASSUME i \in M PROVE FALSE
      OBVIOUS
    <3>1. i > 1 /\ Rank[s[i - 1].name] = r
      BY <1>3, <2>4
    <3>2. i - 1 \in 1 .. n
      BY <1>2, <2>4, <3>1
    <3>3. i - 1 \in T
      BY <3>1, <3>2
    <3>4. i <= i - 1
      BY <2>3, <3>3
    <3> QED  BY <1>2, <2>4, <3>4
  <2>6. i \in D
    BY <2>4, <2>5
  <2> QED  BY <2>4, <2>6
<1>6. f \in Surjection(D, R)
  <2> HIDE DEF D, R, f
  <2> QED  BY <1>4, <1>5 DEF Surjection
<1>7. IsFiniteSet(1 .. n) /\ Cardinality(1 .. n) = n
  <2>1. 1 \in Int /\ n \in Int /\ (IF 1 > n THEN 0 ELSE n - 1 + 1) = n
    BY <1>2
  <2> QED  BY <2>1, FS_Interval
<1>8. M \subseteq 1 .. n
  BY <1>3
<1>9. IsFiniteSet(M) /\ Cardinality(M) \in Nat
  BY <1>7, <1>8, FS_Subset, FS_CardinalityType
<1>10. IsFiniteSet(D) /\ Cardinality(D) = n - Cardinality(M)
  <2>1. IsFiniteSet(D)
    BY <1>7, FS_Subset
  <2>2. (1 .. n) \cap M = M
    BY <1>8
  <2>3. Cardinality(D) = Cardinality(1 .. n) - Cardinality((1 .. n) \cap M)
    BY <1>7, FS_Difference
  <2> QED  BY <1>7, <2>1, <2>2, <2>3
<1>11. IsFiniteSet(R) /\ Cardinality(R) <= Cardinality(D)
  <2> HIDE DEF D, R, f
  <2> QED  BY <1>6, <1>10, FS_Surjection
<1>12. Cardinality(R) \in Nat
  BY <1>11, FS_CardinalityType
<1> HIDE DEF R, D
<1> QED  BY <1>2, <1>9, <1>10, <1>11, <1>12

\* Names behind that of the i-th come after it.
LEMMA LaterCount ==
  ASSUME NEW all \in Seq(KeyEntry), NEW s, Sorted1(s, Len(all)),
         NEW p \in Perms(Len(all)), s = [i \in 1 .. Len(all) |-> all[p[i]]],
         NEW i \in 1 .. Len(all)
  PROVE  Cardinality({k \in DOMAIN all : ecmp(all[p[i]], all[k])}) <= Len(all) - i
<1> DEFINE n == Len(all)
           L == {k \in DOMAIN all : ecmp(all[p[i]], all[k])}
           V == {v \in i + 1 .. n : p[v] \in L}
           g == [v \in V |-> p[v]]
<1>1. Shuffled(all, s)
  BY DEF Shuffled
<1>2. s \in Seq(KeyEntry) /\ Len(s) = n /\ Sorted1(s, Len(s))
  BY <1>1, ShuffledIn DEF Arrangements
<1>3. n \in Nat /\ DOMAIN all = 1 .. n
  OBVIOUS
<1>4. \A v, w \in 1 .. n : v < w => Rank[s[v].name] <= Rank[s[w].name]
  <2> SUFFICES ASSUME NEW v \in 1 .. n, NEW w \in 1 .. n, v < w
               PROVE  Rank[s[v].name] <= Rank[s[w].name]
    OBVIOUS
  <2>1. s[v] \in KeyEntry /\ s[w] \in KeyEntry
    BY <1>2
  <2>2. Rank[s[v].name] \in Nat /\ Rank[s[w].name] \in Nat
    BY <2>1, KeyEntryIs
  <2>3. v \in 1 .. Len(s) /\ w \in 1 .. Len(s)
    BY <1>2
  <2>4. Rank[s[v].name] < Rank[s[w].name] \/ Rank[s[v].name] = Rank[s[w].name]
    BY <1>2, <2>3, SortedRanks DEF Same
  <2> QED  BY <2>2, <2>4
<1>5. \A v \in 1 .. n : Rank[s[v].name] \in Nat
  <2> SUFFICES ASSUME NEW v \in 1 .. n PROVE Rank[s[v].name] \in Nat
    OBVIOUS
  <2>1. s[v] \in KeyEntry
    BY <1>2
  <2> QED  BY <2>1, KeyEntryIs
<1>6. /\ \A v \in 1 .. n : p[v] \in 1 .. n /\ s[v] = all[p[v]]
      /\ \A w \in 1 .. n : \E v \in 1 .. n : p[v] = w
  <2>1. /\ \A v \in 1 .. n : p[v] \in 1 .. n
        /\ \A w \in 1 .. n : \E v \in 1 .. n : p[v] = w
    BY DEF Perms
  <2> HIDE DEF n
  <2>2. s = [v \in 1 .. n |-> all[p[v]]]
    BY DEF n
  <2> QED  BY <2>1, <2>2
<1> HIDE DEF n
<1>7. ASSUME NEW k \in L PROVE \E v \in V : g[v] = k
  <2>1. k \in 1 .. n /\ Rank[all[p[i]].name] < Rank[all[k].name]
    BY <1>3 DEF ecmp
  <2>2. PICK v \in 1 .. n : p[v] = k
    BY <1>6, <2>1
  <2>3. i \in 1 .. n
    BY DEF n
  <2>4. Rank[s[i].name] < Rank[s[v].name]
    BY <1>6, <2>1, <2>2, <2>3
  <2>5. v > i
    <3>0. Rank[s[i].name] \in Nat /\ Rank[s[v].name] \in Nat
      BY <1>5, <2>3
    <3>1. ~ (v < i) /\ v # i
      <4>1. v < i => Rank[s[v].name] <= Rank[s[i].name]
        BY <1>4, <2>3
      <4>2. v = i => Rank[s[v].name] = Rank[s[i].name]
        OBVIOUS
      <4> HIDE DEF n, V, g, L
      <4> QED  BY <2>4, <3>0, <4>1, <4>2
    <3> QED  BY <1>3, <2>3, <3>1
  <2>6. v \in V
    BY <1>3, <2>2, <2>3, <2>5
  <2> QED  BY <2>2, <2>6
<1>8. g \in Surjection(V, L)
  <2>1. g \in [V -> L]
    OBVIOUS
  <2> HIDE DEF V, L, g
  <2> QED  BY <1>7, <2>1 DEF Surjection
<1>9. i \in 1 .. n
  BY DEF n
<1>10. IsFiniteSet(i + 1 .. n) /\ Cardinality(i + 1 .. n) = n - i
  <2>1. i + 1 \in Int /\ n \in Int /\ (IF i + 1 > n THEN 0 ELSE n - (i + 1) + 1) = n - i
    BY <1>3, <1>9
  <2> QED  BY <2>1, FS_Interval
<1>11. V \subseteq i + 1 .. n
  OBVIOUS
<1> HIDE DEF V, L, g
<1>12. IsFiniteSet(V) /\ Cardinality(V) <= n - i /\ Cardinality(V) \in Nat
  <2>1. IsFiniteSet(V) /\ Cardinality(V) <= Cardinality(i + 1 .. n)
    BY <1>10, <1>11, FS_Subset
  <2> QED  BY <1>10, <2>1, FS_CardinalityType
<1>13. IsFiniteSet(L) /\ Cardinality(L) <= Cardinality(V)
  BY <1>8, <1>12, FS_Surjection
<1>14. Cardinality(L) \in Nat
  BY <1>13, FS_CardinalityType
<1>15. Cardinality(L) <= n - i
  BY <1>3, <1>9, <1>12, <1>13, <1>14
<1> QED  BY <1>15 DEF L, n

\* If the sweep is to leave nothing marked, it can.
LEMMA MarkClear ==
  ASSUME NEW all \in Seq(KeyEntry), NEW s, Shuffled(all, s), Sorted1(s, Len(all)),
         SweptClean(all)
  PROVE  Clear(Mark(s), 1)
<1> DEFINE n == Len(all)
           m == Mark(s)
           M == {i \in 1 .. n : Repeats(s, i)}
<1>1. CASE Duplicates(all) <= 1
  BY <1>1, MarkOne DEF Clear
<1>2. CASE \A i, j \in DOMAIN all : i # j /\ Same(all[i], all[j]) =>
             Duplicates(all) <= Cardinality({k \in DOMAIN all : ecmp(all[i], all[k])})
  <2>1. s \in Seq(KeyEntry) /\ Len(s) = n /\ n \in Nat
    BY ShuffledIs
  <2>2. Len(m) = n /\ \A i \in 1 .. n : m[i].type = IF Repeats(s, i) THEN Dup ELSE s[i].type
    BY <2>1, MarkIs
  <2>3. \A i \in 1 .. n : m[i].type = Dup <=> Repeats(s, i)
    <3> SUFFICES ASSUME NEW i \in 1 .. n PROVE m[i].type = Dup <=> Repeats(s, i)
      OBVIOUS
    <3>1. s[i] \in KeyEntry
      BY <2>1
    <3> QED  BY <2>2, <3>1, KeyEntryIs
  <2>4. Cardinality(M) \in Nat /\ Cardinality(M) <= Duplicates(all)
    BY RepeatsCount
  <2>5. Duplicates(all) \in Int
    BY DuplicatesType
  <2>6. PICK p \in Perms(n) : s = [i \in 1 .. n |-> all[p[i]]]
    BY DEF Shuffled
  <2>7. ASSUME NEW i \in M PROVE Duplicates(all) <= n - i
    <3> DEFINE L == {k \in DOMAIN all : ecmp(all[p[i]], all[k])}
    <3>1. i \in 1 .. n /\ i > 1 /\ Same(s[i], s[i - 1])
      BY DEF Repeats
    <3>2. i - 1 \in 1 .. n /\ i - 1 # i
      BY <2>1, <3>1
    <3>3. /\ p[i] \in 1 .. n /\ p[i - 1] \in 1 .. n /\ p[i] # p[i - 1]
      BY <3>1, <3>2 DEF Perms
    <3>4. s[i] = all[p[i]] /\ s[i - 1] = all[p[i - 1]]
      <4> HIDE DEF n
      <4> QED  BY <2>6, <3>1, <3>2
    <3>5. DOMAIN all = 1 .. n
      OBVIOUS
    <3>6. Duplicates(all) <= Cardinality(L)
      <4> HIDE DEF n
      <4> QED  BY <1>2, <3>1, <3>3, <3>4, <3>5
    <3>7. Cardinality(L) <= n - i
      BY <2>6, <3>1, LaterCount
    <3>8. IsFiniteSet(L) /\ Cardinality(L) \in Nat
      <4>1. IsFiniteSet(1 .. n)
        <5>1. 1 \in Int /\ n \in Int
          BY <2>1
        <5> HIDE DEF n
        <5> QED  BY <5>1, FS_Interval
      <4>2. L \subseteq 1 .. n
        BY <3>5
      <4> HIDE DEF L, n
      <4> QED  BY <4>1, <4>2, FS_Subset, FS_CardinalityType
    <3> HIDE DEF L, n
    <3> QED  BY <2>1, <2>5, <3>1, <3>6, <3>7, <3>8
  <2>8. Marked(m) = M
    <3> HIDE DEF m
    <3> QED  BY <2>2, <2>3 DEF Marked
  <2>9. ASSUME NEW i \in M PROVE 1 <= i /\ i <= n - Cardinality(M)
    <3>1. i \in 1 .. n /\ Duplicates(all) <= n - i
      BY <2>7
    <3> HIDE DEF M, n
    <3> QED  BY <2>1, <2>4, <2>5, <3>1
  <2> HIDE DEF M, m, n
  <2>10. TailClear(m, 1)
    BY <2>2, <2>8, <2>9 DEF TailClear
  <2> QED  BY <2>10 DEF Clear, m
<1> QED  BY <1>1, <1>2 DEF SweptClean

\* Entries in other places, and none gone that is not marked.
Rearranged(t, u, src) ==
  /\ \A j \in 1 .. Len(u) : src[j] \in 1 .. Len(t) /\ u[j] = t[src[j]]
  /\ \A i, j \in 1 .. Len(u) : src[i] = src[j] => i = j
  /\ \A i \in 1 .. Len(t) : t[i].type # Dup => \E j \in 1 .. Len(u) : src[j] = i

LEMMA RearrangedKeeps ==
  ASSUME NEW all, NEW t, TableIs(all, t),
         NEW u \in Seq(TableEntry), NEW src, Rearranged(t, u, src)
  PROVE  TableIs(all, u) /\ (NoneMarked(t) => NoneMarked(u))
<1>1. /\ \A j \in 1 .. Len(u) : src[j] \in 1 .. Len(t) /\ u[j] = t[src[j]]
      /\ \A i, j \in 1 .. Len(u) : src[i] = src[j] => i = j
      /\ \A i \in 1 .. Len(t) : t[i].type # Dup => \E j \in 1 .. Len(u) : src[j] = i
  BY DEF Rearranged
<1>2. Kept(all, u)
  <2> SUFFICES ASSUME NEW i \in 1 .. Len(all)
               PROVE  \E j \in 1 .. Len(u) :
                        u[j].type # Dup /\ Same(u[j], all[i]) /\ Shortest(all, u[j])
    BY DEF Kept
  <2>1. PICK k \in 1 .. Len(t) :
          t[k].type # Dup /\ Same(t[k], all[i]) /\ Shortest(all, t[k])
    BY DEF TableIs, Kept
  <2>2. PICK j \in 1 .. Len(u) : src[j] = k
    BY <1>1, <2>1
  <2>3. u[j] = t[k]
    BY <1>1, <2>2
  <2> QED  BY <2>1, <2>3
<1>3. FromGiven(all, u)
  <2> SUFFICES ASSUME NEW j \in 1 .. Len(u)
               PROVE  \E i \in 1 .. Len(all) :
                        /\ u[j].name = all[i].name /\ u[j].code = all[i].code
                        /\ u[j].type = Dup \/ u[j].type = all[i].type
    BY DEF FromGiven
  <2>1. src[j] \in 1 .. Len(t) /\ u[j] = t[src[j]]
    BY <1>1
  <2> QED  BY <2>1 DEF TableIs, FromGiven
<1>4. Unique(u)
  <2> SUFFICES ASSUME NEW i \in 1 .. Len(u), NEW j \in 1 .. Len(u),
                      u[i].type # Dup, u[j].type # Dup, Same(u[i], u[j])
               PROVE  i = j
    BY DEF Unique
  <2>1. /\ src[i] \in 1 .. Len(t) /\ u[i] = t[src[i]]
        /\ src[j] \in 1 .. Len(t) /\ u[j] = t[src[j]]
    BY <1>1
  <2>2. src[i] = src[j]
    BY <2>1 DEF TableIs, Unique
  <2> QED  BY <1>1, <2>2
<1>5. NoneMarked(t) => NoneMarked(u)
  BY <1>1 DEF NoneMarked
<1> QED  BY <1>2, <1>3, <1>4, <1>5 DEF TableIs

\* The sweep at place i.
LEMMA SweepIs ==
  ASSUME NEW t \in Seq(TableEntry), NEW i \in 1 .. Len(t), t[i].type = Dup
  PROVE  /\ Sweep(t, i) \in Seq(TableEntry) /\ Len(Sweep(t, i)) = Len(t) - 1
         /\ \A j \in 1 .. Len(t) - 1 : Sweep(t, i)[j] = IF j = i THEN t[Len(t)] ELSE t[j]
<1> DEFINE n == Len(t)
           c == [t EXCEPT ![i] = Last(t)]
<1>1. n \in Nat /\ n >= 1 /\ Last(t) = t[n] /\ t[n] \in TableEntry
  <2>1. n \in 1 .. Len(t)
    OBVIOUS
  <2> QED  BY <2>1 DEF Last
<1>2. /\ c \in Seq(TableEntry) /\ Len(c) = n
      /\ \A j \in 1 .. n : c[j] = IF j = i THEN t[n] ELSE t[j]
  BY <1>1
<1>3. Sweep(t, i) = Front(c)
  BY DEF Sweep
<1> HIDE DEF c, n
<1>4. /\ Front(c) \in Seq(TableEntry) /\ Len(Front(c)) = n - 1
      /\ \A j \in 1 .. n - 1 : Front(c)[j] = c[j]
  BY <1>1, <1>2, FrontIs
<1>5. \A j \in 1 .. n - 1 : Front(c)[j] = IF j = i THEN t[n] ELSE t[j]
  BY <1>1, <1>2, <1>4
<1> QED  BY <1>3, <1>4, <1>5 DEF n

LEMMA SweepKeeps ==
  ASSUME NEW all, NEW t, TableIs(all, t), NEW i \in 1 .. Len(t)
  PROVE  /\ TableIs(all, Sweep(t, i))
         /\ OneMarked(t, i) => OneMarked(Sweep(t, i), i + 1)
<1>1. t \in Seq(TableEntry) /\ Len(t) \in Nat
  BY DEF TableIs
<1>2. CASE t[i].type # Dup
  <2>1. Sweep(t, i) = t
    BY <1>2 DEF Sweep
  <2>2. OneMarked(t, i) => OneMarked(t, i + 1)
    <3> SUFFICES ASSUME OneMarked(t, i), NEW j \in 1 .. Len(t), t[j].type = Dup
                 PROVE  j >= i + 1
      BY DEF OneMarked
    <3>1. j >= i /\ j # i
      BY <1>2 DEF OneMarked
    <3> QED  BY <1>1, <3>1
  <2> QED  BY <2>1, <2>2
<1>3. CASE t[i].type = Dup
  <2> DEFINE n == Len(t)
             u == Sweep(t, i)
             src == [j \in 1 .. n - 1 |-> IF j = i THEN n ELSE j]
  <2>1. /\ u \in Seq(TableEntry) /\ Len(u) = n - 1
        /\ \A j \in 1 .. n - 1 : u[j] = IF j = i THEN t[n] ELSE t[j]
    BY <1>1, <1>3, SweepIs
  <2>0. n \in Nat /\ i \in 1 .. n
    BY <1>1
  <2> HIDE DEF n, u
  <2>2. \A j \in 1 .. n - 1 : src[j] \in 1 .. n /\ u[j] = t[src[j]]
    BY <2>0, <2>1
  <2>3. \A j, k \in 1 .. n - 1 : src[j] = src[k] => j = k
    BY <2>0
  <2>4. ASSUME NEW k \in 1 .. n, t[k].type # Dup
        PROVE  \E j \in 1 .. n - 1 : src[j] = k
    <3>1. k # i
      BY <1>3, <2>4
    <3>2. CASE k = n
      <4>1. i \in 1 .. n - 1 /\ src[i] = k
        BY <2>0, <3>1, <3>2
      <4> QED  BY <4>1
    <3>3. CASE k # n
      <4>1. k \in 1 .. n - 1 /\ src[k] = k
        BY <2>0, <3>1, <3>3
      <4> QED  BY <4>1
    <3> QED  BY <3>2, <3>3
  <2>5. Rearranged(t, u, src)
    <3> HIDE DEF src
    <3> QED  BY <2>1, <2>2, <2>3, <2>4 DEF Rearranged, n
  <2>6. TableIs(all, u)
    BY <2>1, <2>5, RearrangedKeeps
  <2>7. ASSUME OneMarked(t, i) PROVE OneMarked(u, i + 1)
    <3>1. ASSUME NEW j \in 1 .. n - 1 PROVE u[j].type # Dup
      <4>1. src[j] \in 1 .. n /\ src[j] # i
        BY <2>0
      <4>2. t[src[j]].type # Dup
        <5> HIDE DEF src
        <5> QED  BY <1>3, <2>0, <2>7, <4>1 DEF OneMarked, n
      <4> QED  BY <2>2, <4>2
    <3> QED  BY <2>1, <3>1 DEF OneMarked
  <2> QED  BY <2>6, <2>7 DEF u
<1> QED  BY <1>2, <1>3

\* What comes in is not marked, and the end comes nearer by the one dropped.
LEMMA SweepClears ==
  ASSUME NEW all, NEW t, TableIs(all, t), NEW i \in 1 .. Len(t), Clear(t, i)
  PROVE  Clear(Sweep(t, i), i + 1)
<1>1. t \in Seq(TableEntry) /\ Len(t) \in Nat
  BY DEF TableIs
<1>2. CASE OneMarked(t, i)
  BY <1>2, SweepKeeps DEF Clear
<1>3. CASE TailClear(t, i) /\ t[i].type # Dup
  <2>1. Sweep(t, i) = t
    BY <1>3 DEF Sweep
  <2>2. i \notin Marked(t) /\ Marked(t) \subseteq 1 .. Len(t)
    BY <1>3 DEF Marked
  <2>3. \A j \in Marked(t) : i + 1 <= j
    BY <1>1, <1>3, <2>2 DEF TailClear
  <2>4. TailClear(t, i + 1)
    BY <1>3, <2>3 DEF TailClear
  <2> QED  BY <2>1, <2>4 DEF Clear
<1>4. CASE TailClear(t, i) /\ t[i].type = Dup
  <2> DEFINE n == Len(t)
             u == Sweep(t, i)
             M == Marked(t)
             c == Cardinality(M)
  <2>1. /\ Len(u) = n - 1
        /\ \A j \in 1 .. n - 1 : u[j] = IF j = i THEN t[n] ELSE t[j]
    BY <1>1, <1>4, SweepIs
  <2>2. \A j : j \in M <=> j \in 1 .. n /\ t[j].type = Dup
    BY DEF Marked
  <2>3. n \in Nat /\ i \in 1 .. n /\ i \in M
    BY <1>1, <1>4, <2>2
  <2>4. IsFiniteSet(M) /\ c \in Nat /\ c # 0
    <3>1. IsFiniteSet(1 .. n)
      <4>1. 1 \in Int /\ n \in Int
        BY <2>3
      <4> HIDE DEF n
      <4> QED  BY <4>1, FS_Interval
    <3>2. M \subseteq 1 .. n
      BY <2>2
    <3> HIDE DEF n, M
    <3>3. IsFiniteSet(M)
      BY <3>1, <3>2, FS_Subset
    <3> QED  BY <2>3, <3>3, FS_CardinalityType, FS_EmptySet
  <2>5. \A j \in M : i <= j /\ j <= n - c
    BY <1>4 DEF TailClear
  <2> HIDE DEF n, u, M, c
  <2>6. i \in 1 .. n - 1 /\ n \notin M
    BY <2>3, <2>4, <2>5
  <2>7. t[n].type # Dup
    BY <2>2, <2>3, <2>6
  <2>8. Marked(u) = M \ {i}
    <3>1. ASSUME NEW j PROVE j \in Marked(u) <=> j \in M \ {i}
      <4>1. j \in Marked(u) <=> j \in 1 .. n - 1 /\ u[j].type = Dup
        BY <2>1 DEF Marked
      <4>2. j \in 1 .. n - 1 => (u[j].type = Dup <=> j # i /\ t[j].type = Dup)
        BY <2>1, <2>7
      <4>3. j \in M => j \in 1 .. n - 1
        BY <2>2, <2>3, <2>6
      <4>4. j \in 1 .. n - 1 => j \in 1 .. n
        BY <2>3
      <4> QED  BY <2>2, <4>1, <4>2, <4>3, <4>4
    <3> QED  BY <3>1
  <2>9. Cardinality(Marked(u)) = c - 1
    BY <2>3, <2>4, <2>8, FS_RemoveElement DEF c
  <2>10. ASSUME NEW j \in Marked(u)
         PROVE  i + 1 <= j /\ j <= Len(u) - Cardinality(Marked(u))
    <3>1. j \in M /\ j # i /\ j \in 1 .. n
      BY <2>2, <2>8
    <3>2. i <= j /\ j <= n - c
      BY <2>5, <3>1
    <3> QED  BY <2>1, <2>3, <2>4, <2>9, <3>1, <3>2
  <2>11. TailClear(u, i + 1)
    BY <2>10 DEF TailClear
  <2> QED  BY <2>11 DEF Clear, u
<1> QED  BY <1>2, <1>3, <1>4 DEF Clear

LEMMA ShuffledKeeps ==
  ASSUME NEW all, NEW t, TableIs(all, t), NEW u, Shuffled(t, u)
  PROVE  TableIs(all, u) /\ (NoneMarked(t) => NoneMarked(u))
<1> DEFINE n == Len(t)
<1>1. t \in Seq(TableEntry)
  BY DEF TableIs
<1>2. u \in Seq(TableEntry) /\ Len(u) = n
  BY <1>1, ShuffledIn DEF Arrangements
<1>3. PICK p \in Perms(n) : u = [i \in 1 .. n |-> t[p[i]]]
  BY DEF Shuffled
<1> HIDE DEF n
<1>4. /\ \A i \in 1 .. n : p[i] \in 1 .. n
      /\ \A i, j \in 1 .. n : p[i] = p[j] => i = j
      /\ \A i \in 1 .. n : \E j \in 1 .. n : p[j] = i
  BY DEF Perms
<1>5. \A i \in 1 .. n : u[i] = t[p[i]]
  BY <1>3
<1>6. Rearranged(t, u, p)
  BY <1>2, <1>4, <1>5 DEF Rearranged, n
<1> QED  BY <1>2, <1>6, RearrangedKeeps

\* What was given, and what is made from the table, stay what they are.
LEMMA GivenSame ==
  ASSUME sections' = sections, kindle3' = kindle3
  PROVE  given' = given
  BY DEF given, build_seq

LEMMA SetKeySame ==
  ASSUME sections' = sections, table' = table
  PROVE  \A p : setKey(p)' = setKey(p)
  BY DEF setKey, setVal, lookup_key

LEMMA ConfigReads == ConfigNext => db = "reading"
  BY DEF ConfigNext, SkippedLine, SectionLine, EntryLine, IncludeLine, Abort, OpenSection,
         EndOfFile, ReadLine, Reading

LEMMA ConfigStays ==
  ASSUME TableInv, ConfigNext, UNCHANGED tableVars
  PROVE  TableInv'
<1>1. db = "reading"
  BY ConfigReads
<1>2. step \notin {"opened", "sweep", "ready", "loaded"} /\ step' = step /\ kindle3' = kindle3
  BY <1>1 DEF TableInv, tableVars
<1> QED  BY <1>2 DEF TableInv

LEMMA OpenKeeps ==
  ASSUME TableInv, GivesUp \/ OpenDevices, UNCHANGED configVars
  PROVE  TableInv'
<1>1. step' \in {"none made", "opened"} /\ (step' = "opened" => db' = "read") /\ kindle3' \in BOOLEAN
  BY DEF TableInv, GivesUp, OpenDevices, is_kindle3, configVars
<1> QED  BY <1>1 DEF TableInv

LEMMA ReadKeeps ==
  ASSUME ConfigInv, TableInv, ReadKeys, UNCHANGED configVars
  PROVE  TableInv'
<1>1. /\ step = "opened" /\ step' = "sweep" /\ pos' = 1 /\ kindle3' = kindle3
      /\ sections' = sections /\ db' = db
  BY DEF ReadKeys, configVars
<1>2. PICK s \in Sortings(given, ecmp1) : table' = Mark(s)
  BY DEF ReadKeys
<1>3. db = "read" /\ kindle3 \in BOOLEAN
  BY <1>1 DEF TableInv
<1>4. given \in Seq(KeyEntry) /\ given' = given
  BY <1>1, <1>3, GivenType, GivenSame
<1>5. Shuffled(given, s) /\ Sorted1(s, Len(given))
  BY <1>4, Sorted1Is
<1>6. s \in Seq(KeyEntry) /\ Len(s) = Len(given)
  BY <1>4, <1>5, ShuffledIn DEF Arrangements
<1>7. Mark(s) \in Seq(TableEntry) /\ Unique(Mark(s))
  BY <1>5, <1>6, MarkIs, MarkUnique
<1>8. Kept(given, Mark(s)) /\ FromGiven(given, Mark(s))
  BY <1>4, <1>5, MarkKept, MarkGiven
<1>9. SweptClean(given) => Clear(Mark(s), 1)
  BY <1>4, <1>5, MarkClear
<1>10. TableIs(given, table')
  BY <1>2, <1>7, <1>8 DEF TableIs
<1> QED  BY <1>1, <1>2, <1>3, <1>4, <1>9, <1>10 DEF TableInv

LEMMA SweepStep ==
  ASSUME ConfigInv, TableInv, SweepOne, UNCHANGED configVars
  PROVE  TableInv'
<1>1. /\ step = "sweep" /\ step' = "sweep" /\ pos' = pos + 1 /\ kindle3' = kindle3
      /\ sections' = sections /\ db' = db /\ table' = Sweep(table, pos) /\ pos <= Len(table)
  BY DEF SweepOne, configVars
<1>2. /\ db = "read" /\ kindle3 \in BOOLEAN /\ TableIs(given, table) /\ pos \in Nat \ {0}
      /\ SweptClean(given) => Clear(table, pos)
  BY <1>1 DEF TableInv
<1>3. given' = given
  BY <1>1, GivenSame
<1>4. Len(table) \in Nat
  BY <1>2 DEF TableIs
<1>5. pos \in 1 .. Len(table)
  BY <1>1, <1>2, <1>4
<1>6. /\ TableIs(given, table')
      /\ SweptClean(given) => Clear(table', pos')
  BY <1>1, <1>2, <1>5, SweepKeeps, SweepClears
<1>7. pos' \in Nat \ {0}
  BY <1>1, <1>2
<1> QED  BY <1>1, <1>2, <1>3, <1>6, <1>7 DEF TableInv

LEMMA SortStep ==
  ASSUME ConfigInv, TableInv, SortAgain, UNCHANGED configVars
  PROVE  TableInv'
<1>1. /\ step = "sweep" /\ step' = "ready" /\ kindle3' = kindle3
      /\ sections' = sections /\ db' = db /\ pos > Len(table)
  BY DEF SortAgain, configVars
<1>2. /\ db = "read" /\ kindle3 \in BOOLEAN /\ TableIs(given, table) /\ pos \in Nat \ {0}
      /\ SweptClean(given) => Clear(table, pos)
  BY <1>1 DEF TableInv
<1>3. given' = given
  BY <1>1, GivenSame
<1>4. table' \in Sortings(table, ecmp)
  BY DEF SortAgain
<1>5. table \in Seq(TableEntry) /\ Len(table) \in Nat
  BY <1>2 DEF TableIs
<1>6. Shuffled(table, table')
  BY <1>4, <1>5, SortedIs
<1>7. Clear(table, pos) => NoneMarked(table)
  <2>1. OneMarked(table, pos) => NoneMarked(table)
    BY <1>1, <1>2, <1>5 DEF OneMarked, NoneMarked
  <2>2. TailClear(table, pos) => NoneMarked(table)
    <3>1. \A i \in 1 .. Len(table) : ~ (pos <= i)
      BY <1>1, <1>2, <1>5
    <3> QED  BY <3>1 DEF TailClear, Marked, NoneMarked
  <2> QED  BY <2>1, <2>2 DEF Clear
<1>8. TableIs(given, table') /\ (SweptClean(given) => NoneMarked(table'))
  BY <1>2, <1>6, <1>7, ShuffledKeeps
<1> QED  BY <1>1, <1>2, <1>3, <1>8 DEF TableInv

LEMMA LoadStep ==
  ASSUME ConfigInv, TableInv, LoadKeys, UNCHANGED configVars
  PROVE  TableInv'
<1>1. /\ step = "ready" /\ step' = "loaded" /\ kindle3' = kindle3 /\ table' = table
      /\ sections' = sections /\ db' = db
  BY DEF LoadKeys, configVars
<1>2. /\ db = "read" /\ kindle3 \in BOOLEAN /\ TableIs(given, table)
      /\ SweptClean(given) => NoneMarked(table)
  BY <1>1 DEF TableInv
<1>3. given' = given /\ \A p : setKey(p)' = setKey(p)
  BY <1>1, GivenSame, SetKeySame
<1>4. DOMAIN keycode' = DOMAIN keycode /\ \A p \in DOMAIN keycode : keycode'[p] \in setKey(p)
  BY DEF LoadKeys
<1>5. \A p \in DOMAIN keycode' : keycode'[p] \in setKey(p)'
  BY <1>3, <1>4
<1> QED  BY <1>1, <1>2, <1>3, <1>5 DEF TableInv

LEMMA TableAlways == KeyTableSpec => [](ConfigInv /\ TableInv)
<1>1. KeyTableInit => ConfigInv /\ TableInv
  BY ConfigInitial DEF KeyTableInit, TableInv
<1>2. ConfigInv /\ TableInv /\ [KeyTableNext]_keyVars => (ConfigInv /\ TableInv)'
  <2> SUFFICES ASSUME ConfigInv, TableInv, [KeyTableNext]_keyVars PROVE (ConfigInv /\ TableInv)'
    OBVIOUS
  <2>1. ConfigInv'
    BY ConfigStep DEF KeyTableNext, keyVars
  <2>2. CASE ConfigNext /\ UNCHANGED tableVars
    BY <2>1, <2>2, ConfigStays
  <2>3. CASE /\ GivesUp \/ OpenDevices \/ ReadKeys \/ SweepOne \/ SortAgain \/ LoadKeys
             /\ UNCHANGED configVars
    BY <2>1, <2>3, OpenKeeps, ReadKeeps, SweepStep, SortStep, LoadStep
  <2>4. CASE UNCHANGED keyVars
    <3>1. /\ sections' = sections /\ db' = db /\ table' = table /\ pos' = pos /\ step' = step
          /\ kindle3' = kindle3 /\ keycode' = keycode
      BY <2>4 DEF keyVars, configVars, tableVars
    <3>2. given' = given /\ \A p : setKey(p)' = setKey(p)
      BY <3>1, GivenSame, SetKeySame
    <3> QED  BY <2>1, <3>1, <3>2 DEF TableInv
  <2> QED  BY <2>1, <2>2, <2>3, <2>4 DEF KeyTableNext
<1> QED  BY <1>1, <1>2, PTL DEF KeyTableSpec

-----------------------------------------------------------------------------
(* What the table is good for.                                             *)

\* When none is marked, each name is in the table once.
LEMMA LookupOne ==
  ASSUME NEW all, TableIs(all, table), NoneMarked(table), NEW i \in 1 .. Len(table)
  PROVE  lookup_key(table[i].name) = {i} /\ Shortest(all, table[i])
<1>0. table \in Seq(TableEntry)
  BY DEF TableIs
<1>1. DOMAIN table = 1 .. Len(table)
  BY <1>0
<1>2. \A j \in 1 .. Len(table) : Same(table[j], table[i]) => j = i
  BY DEF TableIs, Unique, NoneMarked
<1>3. lookup_key(table[i].name) = {i}
  BY <1>1, <1>2 DEF lookup_key, Same
<1>4. PICK k \in 1 .. Len(all) : table[i].name = all[k].name
  BY DEF TableIs, FromGiven
<1>5. PICK j \in 1 .. Len(table) : Same(table[j], all[k]) /\ Shortest(all, table[j])
  BY DEF TableIs, Kept
<1>6. j = i
  BY <1>2, <1>4, <1>5 DEF Same
<1> QED  BY <1>3, <1>5, <1>6

LEMMA LastSelected ==
  ASSUME NEW code, Len(table) \in Nat
  PROVE  by_code(code) # 0 => by_code(code) \in 1 .. Len(table)
<1> DEFINE I == {i \in 1 .. Len(table) : table[i].code = code /\ table[i].type \in {KT_SEND, KT_FW}}
<1>1. by_code(code) = IF I # {} THEN Max(I) ELSE 0
  BY Zenon DEF by_code, SelectLastInSeq
<1>2. I \in SUBSET (1 .. Len(table))
  OBVIOUS
<1> HIDE DEF I
<1> QED  BY <1>1, <1>2, MaxIs

\* No name that the files give is lost in sorting and sweeping, and it has the
\* shortest of its sequences; unless a name given twice is too near the end of
\* the order, every lookup finds that one, and the key of a code is the key of
\* its name.  Symbols are names like the others.
THEOREM TableKeepsAllNames == KeyTableSpec => []TableKeepsNames
<1>1. ConfigInv /\ TableInv => TableKeepsNames
  <2> SUFFICES ASSUME ConfigInv, TableInv, step \in {"ready", "loaded"}
               PROVE  TableKeepsNames
    BY DEF TableKeepsNames
  <2> DEFINE all == given
  <2>1. /\ TableIs(all, table) /\ all \in Seq(KeyEntry)
        /\ SweptClean(all) => NoneMarked(table)
    BY GivenType DEF TableInv
  <2> HIDE DEF all
  <2>2. /\ DOMAIN all = 1 .. Len(all)
        /\ DOMAIN table = 1 .. Len(table) /\ Len(table) \in Nat
    BY <2>1 DEF TableIs
  <2>3. ASSUME NEW i \in DOMAIN all
        PROVE  \E j \in lookup_key(all[i].name) : Shortest(all, table[j])
    <3>1. PICK j \in 1 .. Len(table) : Same(table[j], all[i]) /\ Shortest(all, table[j])
      BY <2>1, <2>2 DEF TableIs, Kept
    <3>2. j \in lookup_key(all[i].name)
      BY <2>2, <3>1 DEF lookup_key, Same
    <3> QED  BY <3>1, <3>2
  <2>4. ASSUME SweptClean(all), NEW i \in DOMAIN table
        PROVE  /\ \A j \in lookup_key(table[i].name) : Shortest(all, table[j])
               /\ LET k == by_code(table[i].code)
                  IN  k # 0 => lookup_key(table[k].name) = {k}
    <3>1. NoneMarked(table)
      BY <2>1, <2>4
    <3>2. lookup_key(table[i].name) = {i} /\ Shortest(all, table[i])
      BY <2>1, <2>2, <3>1, LookupOne
    <3> DEFINE k == by_code(table[i].code)
    <3>3. k # 0 => k \in 1 .. Len(table)
      BY <2>2, LastSelected
    <3> HIDE DEF k
    <3>4. k # 0 => lookup_key(table[k].name) = {k}
      BY <2>1, <3>1, <3>3, LookupOne
    <3> QED  BY <3>2, <3>4 DEF k
  <2> QED  BY <2>3, <2>4, Zenon DEF TableKeepsNames, all
<1> QED  BY <1>1, TableAlways, PTL

\* A lookup does not tell a name from what it is in one case.
LEMMA FoldedFinds ==
  ASSUME NEW list, NEW name, Len(list) \in Nat
  PROVE  cfg_find_section(list, Folded(name)) = cfg_find_section(list, name)
<1>1. CASE Section(list, name, cfg_find_section(list, name))
  <2>1. Section(list, Folded(name), cfg_find_section(list, name))
    BY <1>1, SectionFolded
  <2> QED  BY <2>1, SectionIs
<1>2. CASE cfg_find_section(list, name) = 0 /\ NoSection(list, name)
  <2>1. NoSection(list, Folded(name))
    BY <1>2, SameFolded DEF NoSection
  <2>2. ~ Section(list, Folded(name), cfg_find_section(list, Folded(name)))
    BY <2>1 DEF Section, NoSection
  <2> QED  BY <1>2, <2>2, FindSectionIs
<1> QED  BY <1>1, <1>2, FindSectionIs

LEMMA FoldedFindsEntry ==
  ASSUME NEW keys, NEW name, Len(keys) \in Nat
  PROVE  cfg_find_entry(keys, Folded(name)) = cfg_find_entry(keys, name)
<1>1. CASE Entry(keys, name, cfg_find_entry(keys, name))
  <2>1. Entry(keys, Folded(name), cfg_find_entry(keys, name))
    BY <1>1, SameFolded DEF Entry
  <2> QED  BY <2>1, EntryIs
<1>2. CASE cfg_find_entry(keys, name) = 0 /\ NoEntry(keys, name)
  <2>1. NoEntry(keys, Folded(name))
    BY <1>2, SameFolded DEF NoEntry
  <2>2. ~ Entry(keys, Folded(name), cfg_find_entry(keys, Folded(name)))
    BY <2>1 DEF Entry, NoEntry
  <2> QED  BY <1>2, <2>2, FindEntryIs
<1> QED  BY <1>1, <1>2, FindEntryIs

\* What is found was given last, or its section is spoiled.
LEMMA FoundGiven ==
  ASSUME ConfigInv, db = "read", NEW sec, NEW key, cfg_find_val(sections, sec, key) # None
  PROVE  \/ Spoiled(sections, sec)
         \/ /\ Place(sec, key) \in DOMAIN assigned
            /\ assigned[Place(sec, key)] = cfg_find_val(sections, sec, key)
<1>1. /\ sections \in Seq(SectionRec) /\ Len(sections) \in Nat
      /\ Given(sections, assigned) /\ AllLooked(sections, assigned)
  BY DEF ConfigInv
<1> DEFINE s == cfg_find_section(sections, sec)
           keys == sections[s].keys
           k == cfg_find_entry(keys, key)
           at == Place(sec, key)
<1>2. s # 0 /\ k # 0
  BY DEF cfg_find_val
<1>3. s \in 1 .. Len(sections) /\ SameName(sections[s].name, sec)
  BY <1>1, <1>2, FindSectionIs DEF Section
<1>4. Len(keys) \in Nat
  <2>1. sections[s] \in SectionRec
    BY <1>1, <1>3
  <2>2. keys \in Seq(EntryRec)
    BY <2>1 DEF SectionRec
  <2> QED  BY <2>2
<1>5. k \in 1 .. Len(keys) /\ SameName(keys[k].key, key)
  <2> HIDE DEF keys
  <2> QED  BY <1>2, <1>4, FindEntryIs DEF Entry
<1>6. at \in DOMAIN assigned
  <2>1. Place(sections[s].name, keys[k].key) \in DOMAIN assigned
    BY <1>1, <1>3, <1>5 DEF Given
  <2>2. Place(sections[s].name, keys[k].key) = at
    BY <1>3, <1>5 DEF Place, SameName
  <2> QED  BY <2>1, <2>2
<1>7. Looked(sections, assigned, at)
  BY <1>1, <1>6 DEF AllLooked
<1>8. at[1] = Folded(sec) /\ at[2] = Folded(key)
  BY DEF Place
<1>9. \/ Spoiled(sections, Folded(sec))
      \/ cfg_find_val(sections, Folded(sec), Folded(key)) = assigned[at]
  BY <1>1, <1>7, <1>8, LookedIs
<1>10. cfg_find_section(sections, Folded(sec)) = s
  BY <1>1, FoldedFinds
<1>11. cfg_find_entry(keys, Folded(key)) = k
  <2> HIDE DEF keys
  <2> QED  BY <1>4, FoldedFindsEntry
<1>12. Spoiled(sections, Folded(sec)) <=> Spoiled(sections, sec)
  BY <1>10 DEF Spoiled
<1>13. cfg_find_val(sections, Folded(sec), Folded(key)) = cfg_find_val(sections, sec, key)
  BY <1>10, <1>11 DEF cfg_find_val
<1> QED  BY <1>6, <1>9, <1>12, <1>13

\* A key of the program has the code that the files give its own name or the
\* name that Settings gave it last, a symbol's column included, and needs no
\* Shift or Alt for it unless the sweep has left duplicates.
THEOREM TableKeysAsConfigured == KeyTableSpec => []KeysAsConfigured
<1>1. ConfigInv /\ TableInv => KeysAsConfigured
  <2> SUFFICES ASSUME ConfigInv, TableInv, step = "loaded"
               PROVE  KeysAsConfigured
    BY DEF KeysAsConfigured
  <2> DEFINE all == given
             Right(p, i) ==
               /\ all[i].code = keycode[p]
               /\ \/ p \in DOMAIN OwnName /\ Same(all[i], [name |-> OwnName[p]])
                  \/ Spoiled(sections, Settings)
                  \/ LET at == <<Folded(Settings), Folded(<<p>>)>>
                     IN  /\ at \in DOMAIN assigned /\ Same(all[i], [name |-> assigned[at]])
                         /\ all[i].type \in {KT_SHIFT, KT_ALT} => ~ SweptClean(all)
  <2>1. /\ db = "read" /\ TableIs(all, table) /\ all \in Seq(KeyEntry)
        /\ SweptClean(all) => NoneMarked(table)
        /\ \A p \in DOMAIN keycode : keycode[p] \in setKey(p)
    BY GivenType DEF TableInv
  <2> HIDE DEF all
  <2>3. DOMAIN all = 1 .. Len(all) /\ DOMAIN table = 1 .. Len(table)
    BY <2>1 DEF TableIs
  <2>4. ASSUME NEW p \in DOMAIN keycode, keycode[p] # 0 PROVE \E i \in DOMAIN all : Right(p, i)
    <3>0. keycode[p] \in setKey(p)
      BY <2>1
    <3>1. ASSUME NEW j \in DOMAIN table
          PROVE  \E i \in DOMAIN all :
                   /\ table[j].name = all[i].name /\ table[j].code = all[i].code
                   /\ table[j].type = Dup \/ table[j].type = all[i].type
      BY <2>1, <2>3 DEF TableIs, FromGiven
    <3>2. CASE p \in DOMAIN OwnName /\ lookup_key(OwnName[p]) # {}
      <4>1. keycode[p] \in {table[i].code : i \in lookup_key(OwnName[p])}
        BY <3>0, <3>2 DEF setKey
      <4>2. PICK j \in lookup_key(OwnName[p]) : keycode[p] = table[j].code
        BY <4>1
      <4>3. j \in DOMAIN table /\ Rank[table[j].name] = Rank[OwnName[p]]
        BY DEF lookup_key
      <4>4. PICK i \in DOMAIN all : table[j].name = all[i].name /\ table[j].code = all[i].code
        BY <3>1, <4>3
      <4>5. Same(all[i], [name |-> OwnName[p]])
        BY <4>3, <4>4 DEF Same
      <4> QED  BY <3>2, <4>2, <4>4, <4>5
    <3>3. CASE ~ (p \in DOMAIN OwnName /\ lookup_key(OwnName[p]) # {})
      <4> DEFINE name == cfg_find_val(sections, Settings, <<p>>)
      <4>1. keycode[p] \in setVal(p)
        BY <2>4, <3>0, <3>3 DEF setKey
      <4>2. /\ name # None
            /\ \E j \in lookup_key(name) :
                 keycode[p] = IF table[j].type \in {KT_ALT, KT_SHIFT} THEN 0 ELSE table[j].code
        BY <2>4, <4>1 DEF setVal
      <4>3. PICK j \in lookup_key(name) :
              keycode[p] = table[j].code /\ table[j].type \notin {KT_ALT, KT_SHIFT}
        BY <2>4, <4>2
      <4>4. j \in DOMAIN table /\ Rank[table[j].name] = Rank[name]
        BY DEF lookup_key
      <4>5. PICK i \in DOMAIN all :
              /\ table[j].name = all[i].name /\ table[j].code = all[i].code
              /\ table[j].type = Dup \/ table[j].type = all[i].type
        BY <3>1, <4>4
      <4>6. \/ Spoiled(sections, Settings)
            \/ Place(Settings, <<p>>) \in DOMAIN assigned /\ assigned[Place(Settings, <<p>>)] = name
        BY <2>1, <4>2, FoundGiven
      <4>7. all[i].type \in {KT_SHIFT, KT_ALT} => ~ SweptClean(all)
        <5> SUFFICES ASSUME all[i].type \in {KT_SHIFT, KT_ALT}, SweptClean(all) PROVE FALSE
          OBVIOUS
        <5>1. table[j].type # Dup
          BY <2>1, <2>3, <4>4 DEF NoneMarked
        <5> QED  BY <4>3, <4>5, <5>1
      <4>8. Rank[all[i].name] = Rank[name] /\ all[i].code = keycode[p]
        BY <4>3, <4>4, <4>5
      <4>9. Place(Settings, <<p>>) = <<Folded(Settings), Folded(<<p>>)>>
        BY DEF Place
      <4> HIDE DEF name
      <4>10. Right(p, i)
        BY <4>6, <4>7, <4>8, <4>9 DEF Same
      <4> QED  BY <4>10
    <3> QED  BY <3>2, <3>3
  <2> QED  BY <2>4, Zenon DEF KeysAsConfigured, all
<1> QED  BY <1>1, TableAlways, PTL
=============================================================================
