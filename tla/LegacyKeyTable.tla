---------------------------- MODULE LegacyKeyTable ---------------------------
(* The table of keys that launchpad_init() makes from the configuration:    *)
(* build_seq() reads all the entries of two sections, shadowed ones too;    *)
(* sorting, marking and sweeping remove names given twice; lookup_key(),    *)
(* by_code[] and the keys named in Settings are made from what is left.     *)
EXTENDS LegacyConfig, FiniteSets

CONSTANTS
  Settings,    \* the section without which launchpad_init() fails
  KeySections, \* the sections of keys, in order: on a Kindle 3 and elsewhere
  Code,        \* a function: type and number that the key of an entry says
  Rank,        \* a function: a name's place in the order of ecmp()
  Param,       \* keys that Settings may name: TermEnd, TermHome, ...
  OwnName      \* a function: those that have a name of their own, Home, Sym, ...

VARIABLES
  table,   \* lps->e, as far as lps->nentries
  pos,     \* where the sweep is
  step,    \* "none", "opened", "sweep", "ready", "loaded" or "none made"
  kindle3, \* is_kindle3(), when the devices were opened
  keycode  \* term_end, term_home, ... of lps

tableVars == <<table, pos, step, kindle3, keycode>>
keyVars   == <<configVars, tableVars>>

KT_SEND  == 0
KT_FW    == 1
KT_VOL   == 2
KT_SHIFT == 3
KT_ALT   == 4
KT_SYM   == 5   \* a symbol: its column for a code; its row decides nothing here
Dup      == 255

-----------------------------------------------------------------------------
(* build_seq().                                                            *)

\* The names of a value: what stands between spaces, without a backslash in
\* front.
NamesOf(value) ==
  LET from == {i \in DOMAIN value : value[i] # "space" /\ (i = 1 \/ value[i - 1] = "space")}
      to(i) == Max({j \in i .. Len(value) : \A k \in i .. j : value[k] # "space"})
      name(i) == IF value[i] = "backslash" THEN SubSeq(value, i + 1, to(i))
                 ELSE SubSeq(value, i, to(i))
  IN  [n \in 1 .. Cardinality(from) |-> name(SetToSortSeq(from, <)[n])]

\* Code and Rank cover the keys and the names that the lines give.
ASSUME TableAssumption ==
  /\ Code \in [DOMAIN Code -> [type : KT_SEND .. KT_SYM, code : 0 .. 255]]
  /\ Rank \in [DOMAIN Rank -> Nat]
  /\ KeySections \in [BOOLEAN -> Seq(Seq(Word))]
  /\ \A line \in Line : IsEntry(line) /\ ~ IsInclude(line) /\ HasValue(line) =>
       /\ KeyOf[line] \in DOMAIN Code
       /\ \A i \in DOMAIN NamesOf(ValueOf[line]) : NamesOf(ValueOf[line])[i] \in DOMAIN Rank

\* One key_entry per name; the codes, bytes, go up from that of the entry.
Names(entry) ==
  LET first == Code[entry.key]
  IN  [i \in DOMAIN NamesOf(entry.value) |->
         [name |-> NamesOf(entry.value)[i],
          type |-> first.type, code |-> (first.code + i - 1) % 256]]

build_seq(sec) ==
  LET s == cfg_find_section(sections, sec)
  IN  IF s = 0 THEN <<>>
      ELSE FlattenSeq([k \in DOMAIN sections[s].keys |-> Names(sections[s].keys[k])])

\* The codes of shadowed entries are read like the others.
given == FlattenSeq([i \in DOMAIN KeySections[kindle3] |-> build_seq(KeySections[kindle3][i])])

\* The comparison of two entries, without and with the type, and what qsort()
\* can make of a sequence: nothing is said of the order of equals.
ecmp(a, b)      == Rank[a.name] < Rank[b.name]
ecmp1Rank(a, b) == ecmp(a, b)
ecmp1(a, b)     ==
  \/ ecmp(a, b)
  \/ Rank[a.name] = Rank[b.name] /\ a.type < b.type

\* The m-th of a sequence put in at the k-th place.
Insert(seq, m, k) ==
  [i \in DOMAIN seq |-> seq[IF i = k THEN m ELSE IF i \in k + 1 .. m THEN i - 1 ELSE i]]

Sortings(seq, Before(_, _)) ==
  LET sorted[m \in 0 .. Len(seq)] ==
        IF m = 0 THEN {seq}
        ELSE {s \in {Insert(r, m, k) : r \in sorted[m - 1], k \in 1 .. m} :
                \A i, j \in 1 .. m : i < j => ~ Before(s[j], s[i])}
  IN  sorted[Len(seq)]

Same(a, b) == Rank[a.name] = Rank[b.name]

\* First pass: of equal names all but the first are marked.
Mark(seq) ==
  [i \in DOMAIN seq |->
     IF i > 1 /\ Same(seq[i], seq[i - 1]) THEN [seq[i] EXCEPT !.type = Dup] ELSE seq[i]]

\* Second pass, at one place: the last entry comes in for one that is marked.
\* The code does not look at it again, though it may be marked as well.
Sweep(seq, i) ==
  IF seq[i].type = Dup THEN Front([seq EXCEPT ![i] = Last(seq)]) ELSE seq

-----------------------------------------------------------------------------
(* What is made from the table.                                            *)

\* bsearch() may find any of the entries of a name.
lookup_key(name) == {i \in DOMAIN table : Rank[table[i].name] = Rank[name]}

\* by_code[]: the last entry of a code that is sent, or none.
by_code(code) ==
  SelectLastInSeq(table, LAMBDA e : e.code = code /\ e.type \in {KT_SEND, KT_FW})

setValAny(param) ==
  LET name == cfg_find_val(sections, Settings, <<param>>)
      found == IF name = None THEN {} ELSE lookup_key(name)
  IN  IF found = {} THEN {0} ELSE {table[i].code : i \in found}

\* What setVal() can make of a key that Settings names, and setKey() of one
\* with a name of its own, which goes over it: 0 is what memset() left.
setVal(param) ==
  LET name == cfg_find_val(sections, Settings, <<param>>)
      found == IF name = None THEN {} ELSE lookup_key(name)
  IN  IF found = {} THEN {0}
      ELSE {IF table[i].type \in {KT_ALT, KT_SHIFT} THEN 0 ELSE table[i].code : i \in found}

setKey(param) ==
  IF param \in DOMAIN OwnName /\ lookup_key(OwnName[param]) # {}
    THEN {table[i].code : i \in lookup_key(OwnName[param])}
    ELSE IF param \in Param THEN setVal(param) ELSE {0}

-----------------------------------------------------------------------------
(* launchpad_init(), from the return of cfg_read() to the loading of fonts. *)

\* No configuration, or no section Settings in it.
GivesUp ==
  /\ step = "none"
  /\ db = "failed" \/ (db = "read" /\ cfg_find_section(sections, Settings) = 0)
  /\ step' = "none made" /\ UNCHANGED <<table, pos, kindle3, keycode>>

is_kindle3(opened) == opened = {"kpad", "fw", "vol"}

\* Some of the input devices open.  The volume keys alone are not enough: the
\* code asks whether their descriptor is anything but 0.
OpenDevices ==
  /\ step = "none" /\ db = "read" /\ cfg_find_section(sections, Settings) # 0
  /\ \E opened \in SUBSET {"kpad", "fw", "vol"} :
       /\ step' = IF opened \subseteq {"vol"} THEN "none made" ELSE "opened"
       /\ kindle3' = is_kindle3(opened)
  /\ UNCHANGED <<table, pos, keycode>>

ReadKeys ==
  /\ step = "opened"
  /\ \E sorted \in Sortings(given, ecmp1) : table' = Mark(sorted)
  /\ step' = "sweep" /\ pos' = 1 /\ UNCHANGED <<kindle3, keycode>>

SweepOne ==
  /\ step = "sweep" /\ pos <= Len(table)
  /\ table' = Sweep(table, pos) /\ pos' = pos + 1
  /\ UNCHANGED <<step, kindle3, keycode>>

SortAgain ==
  /\ step = "sweep" /\ pos > Len(table)
  /\ \E sorted \in Sortings(table, ecmp) : table' = sorted
  /\ step' = "ready" /\ UNCHANGED <<pos, kindle3, keycode>>

LoadKeys ==
  /\ step = "ready"
  /\ LET codes == UNION {setKey(p) : p \in DOMAIN keycode}
     IN  keycode' \in {f \in [DOMAIN keycode -> codes] :
                         \A p \in DOMAIN keycode : f[p] \in setKey(p)}
  /\ step' = "loaded" /\ UNCHANGED <<table, pos, kindle3>>

KeyTableInit ==
  /\ ConfigInit
  /\ table = <<>> /\ pos = 0 /\ step = "none" /\ kindle3 = FALSE
  /\ keycode = [p \in Param \cup DOMAIN OwnName |-> 0]

KeyTableNext ==
  \/ ConfigNext /\ UNCHANGED tableVars
  \/ /\ GivesUp \/ OpenDevices \/ ReadKeys \/ SweepOne \/ SortAgain \/ LoadKeys
     /\ UNCHANGED configVars

KeyTableSpec == KeyTableInit /\ [][KeyTableNext]_keyVars

-----------------------------------------------------------------------------
(* Properties.                                                             *)

Duplicates(all) == Len(all) - Cardinality({Rank[all[i].name] : i \in DOMAIN all})

Shortest(all, e) == \A i \in DOMAIN all : Same(all[i], e) => e.type <= all[i].type

\* What the sweep puts in is never marked: it drops one entry at most, or as
\* many as it drops are behind each name that was given twice.
SweptClean(all) ==
  \/ Duplicates(all) <= 1
  \/ \A i, j \in DOMAIN all : i # j /\ Same(all[i], all[j]) =>
       Duplicates(all) <= Cardinality({k \in DOMAIN all : ecmp(all[i], all[k])})

\* No name that the configuration gives is lost, and it is there with the
\* shortest of its sequences.  Unless a name given twice is too near the end
\* of the order, every lookup finds that one, and the key of a code is the key
\* of its name; else the sweep may leave duplicates.
TableKeepsNames ==
  step \in {"ready", "loaded"} =>
    LET all == given
    IN  /\ \A i \in DOMAIN all : \E j \in lookup_key(all[i].name) : Shortest(all, table[j])
        /\ SweptClean(all) =>
             \A i \in DOMAIN table :
               /\ \A j \in lookup_key(table[i].name) : Shortest(all, table[j])
               /\ LET k == by_code(table[i].code)
                  IN  k # 0 => lookup_key(table[k].name) = {k}

\* A key that the program treats in its own way has the code that the files
\* give the name which Settings gave last for it, or its own name (of a symbol
\* the column).  It is not one that needs Shift or Alt, unless the sweep has
\* left duplicates or the name is its own.  A line with an empty key in
\* Settings may leave an older name in force.
KeysAsConfigured ==
  step = "loaded" =>
    LET all == given
    IN  \A p \in DOMAIN keycode :
          keycode[p] = 0 \/
          \E i \in DOMAIN all :
            /\ all[i].code = keycode[p]
            /\ \/ p \in DOMAIN OwnName /\ Same(all[i], [name |-> OwnName[p]])
               \/ Spoiled(sections, Settings)
               \/ LET at == <<Folded(Settings), Folded(<<p>>)>>
                  IN  /\ at \in DOMAIN assigned /\ Same(all[i], [name |-> assigned[at]])
                      /\ all[i].type \in {KT_SHIFT, KT_ALT} => ~ SweptClean(all)
=============================================================================
