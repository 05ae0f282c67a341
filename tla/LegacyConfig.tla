----------------------------- MODULE LegacyConfig ----------------------------
(* How myts reads its configuration (config.c): the lines of a file and of  *)
(* the files it includes, cut into names and values, put in front of lists  *)
(* of sections and entries, and looked up without regard to case.           *)
(*                                                                          *)
(* A line is a sequence of the characters that mean something and of words, *)
(* which stand for the letters between them.  Every file ends in a newline: *)
(* a last line without one would be trimmed up to an end that strsep() has  *)
(* made NULL - 1.  No line begins with a word and a closing bracket.        *)
EXTENDS Integers, Sequences, FiniteSets, SequencesExt

CONSTANTS
  Line,      \* lines that stand in files
  Word,      \* their words
  Fold,      \* a function: what strcasecmp() sees of a word
  None,
  MaxLines,  \* bound: lines read, of all the files
  MaxDepth   \* bound: files open in one another

VARIABLES
  db,        \* "reading", then "read" or "failed": what cfg_read() returned;
             \* "crashed" if it did not return
  sections,  \* the list of sections, each with its list of entries
  open,      \* section each open file is in, the innermost file last
  lines,     \* lines read
  assigned   \* history: the last value given to a key of a section

configVars == <<db, sections, open, lines, assigned>>

Quotes  == {"quote", "apostrophe"}
Special == Quotes \cup {"space", "=", ";", "#", "[", "]", "backslash"}

ASSUME ConfigAssumption ==
  /\ Word \cap Special = {} /\ Fold \in [Word -> Word]
  /\ \A w \in Word : Fold[Fold[w]] = Fold[w]
  /\ Line \subseteq Seq(Word \cup Special)
  /\ MaxLines \in Nat /\ MaxDepth \in Nat \ {0}

-----------------------------------------------------------------------------
(* Lines.                                                                  *)

skipws(s) ==
  LET text == {i \in DOMAIN s : s[i] # "space"}
  IN  IF text = {} THEN <<>> ELSE SubSeq(s, Min(text), Len(s))

\* trimws(): up to a comment, without the white space at the end.  A
\* backslash protects the next character, quotes what they enclose; either
\* quote ends what the other began.
trimws(s) ==
  LET scan[i \in 0 .. Len(s)] ==
        IF i = 0 THEN [in_quote |-> FALSE, escaped |-> FALSE, last_ws |-> 0, end |-> 0]
        ELSE LET t == scan[i - 1]
                 first_ws == IF t.last_ws # 0 THEN t.last_ws ELSE i
             IN  CASE t.end # 0 -> t
                   [] t.end = 0 /\ t.escaped -> [t EXCEPT !.escaped = FALSE]
                   [] OTHER ->
                        CASE s[i] = "backslash" ->
                               [t EXCEPT !.escaped = TRUE, !.last_ws = 0]
                          [] s[i] # "backslash" /\ t.in_quote ->
                               [t EXCEPT !.in_quote = s[i] \notin Quotes]
                          [] s[i] \in Quotes /\ ~ t.in_quote ->
                               [t EXCEPT !.in_quote = TRUE, !.last_ws = 0]
                          [] (s[i] = ";" \/ (i = 1 /\ s[i] = "#")) /\ ~ t.in_quote ->
                               [t EXCEPT !.end = first_ws]
                          [] s[i] = "space" /\ ~ t.in_quote -> [t EXCEPT !.last_ws = first_ws]
                          [] OTHER -> [t EXCEPT !.last_ws = 0]
      t == scan[Len(s)]
      end == IF t.end # 0 THEN t.end ELSE IF t.last_ws # 0 THEN t.last_ws ELSE Len(s) + 1
  IN  SubSeq(s, 1, end - 1)

\* Where parse_name() stops: at the first = that no backslash stands before.
Equals(s) ==
  LET escaped[i \in 1 .. Len(s)] ==
        i > 1 /\ s[i - 1] = "backslash" /\ ~ escaped[i - 1]
      at == {i \in 1 .. Len(s) : s[i] = "=" /\ ~ escaped[i]}
  IN  IF at = {} THEN 0 ELSE Min(at)

\* Of each line: what is left when it is trimmed, the key and what follows the
\* =, and the value.
Trimmed == [line \in Line |-> trimws(skipws(line))]
KeyOf   == [line \in Line |->
              trimws(SubSeq(Trimmed[line], 1, Equals(Trimmed[line]) - 1))]
RestOf  == [line \in Line |->
              SubSeq(Trimmed[line], Equals(Trimmed[line]) + 1, Len(Trimmed[line]))]
ValueOf == [line \in Line |-> trimws(skipws(RestOf[line]))]

IsSection(line) == Trimmed[line] # <<>> /\ Trimmed[line][1] = "["
IsEntry(line)   == Trimmed[line] # <<>> /\ ~ IsSection(line) /\ Equals(Trimmed[line]) # 0
IsInclude(line) == IsEntry(line) /\ KeyOf[line] = <<"include">>
HasValue(line)  == RestOf[line] # <<>>

\* The name of a section is looked for in the line as it was read, over the
\* end that trimws() gave it: index() finds a NUL in any string.  What stops
\* it should be a bracket; nothing may stop it in this line.
NameStops == [line \in Line |->
  LET s == skipws(line)
  IN  {i \in 2 .. Len(s) : s[i] \notin Word /\ i # Len(Trimmed[line]) + 1}]

NameOf(line) ==
  SubSeq(Trimmed[line], 2, Min({Min(NameStops[line]) - 1, Len(Trimmed[line])}))

IsClosed(line) == NameStops[line] # {} /\ skipws(line)[Min(NameStops[line])] = "]"

-----------------------------------------------------------------------------
(* Lists of sections and of entries: 0 is NULL.                            *)

Folded(name) == [i \in DOMAIN name |-> IF name[i] \in Word THEN Fold[name[i]] ELSE name[i]]

SameName(a, b) == Folded(a) = Folded(b)

cfg_find_section(list, name) == SelectInSeq(list, LAMBDA s : SameName(s.name, name))

cfg_find_entry(keys, name) == SelectInSeq(keys, LAMBDA k : SameName(k.key, name))

cfg_find_val(list, sec, name) ==
  LET s == cfg_find_section(list, sec)
      k == IF s = 0 THEN 0 ELSE cfg_find_entry(list[s].keys, name)
  IN  IF k = 0 THEN None ELSE list[s].keys[k].value

AssignLast(keys, key, value) ==
  LET old == cfg_find_entry(keys, <<>>)
  IN  IF old # 0 THEN [keys EXCEPT ![old].value = value]
      ELSE Append(keys, [key |-> key, value |-> value])

\* A new entry goes in front of the older ones.  The list is searched for
\* what is left of the line, which is nothing: only an entry with an empty
\* key is found, and gets the value of every later line.
Assign(keys, key, value) ==
  LET old == cfg_find_entry(keys, <<>>)
  IN  IF old # 0 THEN [keys EXCEPT ![old].value = value]
      ELSE <<[key |-> key, value |-> value]>> \o keys

-----------------------------------------------------------------------------
(* What a line means by the comments in config.c and config.h, for the      *)
(* history: a backslash protects the next character, and so do strings in   *)
(* quotes; a ; anywhere or a # in the left hand side starts a comment.      *)

Escaped(s, i) ==
  \E n \in 1 .. i - 1 : n % 2 = 1 /\ (\A j \in i - n .. i - 1 : s[j] = "backslash")
                        /\ (i - n = 1 \/ s[i - n - 1] # "backslash")
IsQuote(s, i) == s[i] \in Quotes /\ ~ Escaped(s, i)

\* In a string, if no string has the other quote in it.
Quoted(s, i) == Cardinality({j \in 1 .. i - 1 : IsQuote(s, j)}) % 2 = 1
Plain(s, i)  == ~ Escaped(s, i) /\ ~ Quoted(s, i)

FirstPlain(s, c) == SelectInSeq([i \in DOMAIN s |-> s[i] = c /\ Plain(s, i)], LAMBDA b : b)

IsLeft(s, i) == \A j \in 1 .. i - 1 : s[j] = "=" => ~ Plain(s, j)

\* s without the comment, then without white space around it.
Comments(s) ==
  {i \in DOMAIN s : Plain(s, i) /\ (s[i] = ";" \/ (s[i] = "#" /\ IsLeft(s, i)))}
Uncommented(s) ==
  IF Comments(s) = {} THEN s ELSE SubSeq(s, 1, Min(Comments(s)) - 1)
Stripped(s) ==
  LET text == {i \in DOMAIN s : s[i] # "space" \/ ~ Plain(s, i)}
  IN  IF text = {} THEN <<>> ELSE SubSeq(s, Min(text), Max(text))

MeantKey   == [line \in Line |->
  LET s == Uncommented(line) IN Stripped(SubSeq(s, 1, FirstPlain(s, "=") - 1))]
MeantValue == [line \in Line |->
  LET s == Uncommented(line) IN Stripped(SubSeq(s, FirstPlain(s, "=") + 1, Len(s)))]

\* The other quote stands in a string, which the program ends there.
Mixed(s) ==
  \E i, j \in DOMAIN s :
    /\ i < j /\ IsQuote(s, i) /\ IsQuote(s, j) /\ s[i] # s[j]
    /\ ~ Quoted(s, i) /\ \A k \in i + 1 .. j - 1 : ~ IsQuote(s, k)

\* A line of which the program takes what it means.  It does not know a # as a
\* comment but at the start of the line, or at the start of the value, where
\* it is none; it ends a string at either quote; and it ends the key at an =
\* in quotes.
Understood(line) ==
  /\ ~ Mixed(line)
  /\ \A i \in DOMAIN line : line[i] = "#" /\ Plain(line, i) => ~ IsLeft(line, i)
  /\ \A i \in DOMAIN line : line[i] = "=" /\ Quoted(line, i) /\ ~ Escaped(line, i) =>
       \E j \in 1 .. i - 1 : line[j] = "=" /\ Plain(line, j)
  /\ MeantValue[line] = <<>> \/ MeantValue[line][1] # "#"

\* What a line gives to what: the meaning of the others is not the program's.
GivenKey   == [line \in Line |-> IF Understood(line) THEN MeantKey[line] ELSE KeyOf[line]]
GivenValue == [line \in Line |-> IF Understood(line) THEN MeantValue[line] ELSE ValueOf[line]]

-----------------------------------------------------------------------------
(* cfg_parse(): one action per kind of line.  A frame of open is its local *)
(* variable cur.                                                           *)

Reading  == db = "reading"
ReadLine == Reading /\ lines < MaxLines /\ lines' = lines + 1
cur      == Last(open)

\* A comment, an empty line, a section name that is not one, no = in a line,
\* an include that does not open: the section stays what it was.
SkippedLine(line) ==
  /\ ReadLine
  /\ \/ ~ IsEntry(line) /\ ~ IsSection(line)
     \/ IsSection(line) /\ NameStops[line] # {} /\ ~ IsClosed(line)
     \/ IsInclude(line) /\ HasValue(line)
  /\ UNCHANGED <<db, sections, open, assigned>>

SectionLine(line) ==
  /\ ReadLine /\ IsSection(line) /\ IsClosed(line)
  /\ sections' = IF cfg_find_section(sections, NameOf(line)) # 0 THEN sections
                 ELSE <<[name |-> NameOf(line), keys |-> <<>>]>> \o sections
  /\ open' = [open EXCEPT ![Len(open)] = NameOf(line)]
  /\ UNCHANGED <<db, assigned>>

EntryLine(line) ==
  /\ ReadLine /\ IsEntry(line) /\ ~ IsInclude(line) /\ HasValue(line)
  /\ IF cur = None THEN UNCHANGED <<sections, assigned>>
     ELSE /\ sections' = [sections EXCEPT ![cfg_find_section(sections, cur)].keys =
                            Assign(@, KeyOf[line], ValueOf[line])]
          /\ assigned' =
               LET at == <<Folded(cur), Folded(GivenKey[line])>>
               IN  [x \in DOMAIN assigned \cup {at} |->
                      IF x = at THEN GivenValue[line] ELSE assigned[x]]
  /\ UNCHANGED <<db, open>>

\* An include whose file opens: cfg_read() of it, with the same lists.
IncludeLine(line) ==
  /\ ReadLine /\ Len(open) < MaxDepth
  /\ IsInclude(line) /\ HasValue(line)
  /\ open' = Append(open, None)
  /\ UNCHANGED <<db, sections, assigned>>

\* cfg_parse() gives up, at a key without a value: the rest of an included
\* file is forgotten, but everything is if the file is the first.
Abort(line) ==
  /\ ReadLine /\ IsEntry(line) /\ ~ HasValue(line)
  /\ open' = Front(open)
  /\ IF Len(open) > 1 THEN UNCHANGED <<db, sections>>
     ELSE db' = "failed" /\ sections' = <<>>
  /\ UNCHANGED assigned

Closes ==
  /\ open' = Front(open)
  /\ db' = IF Len(open) > 1 THEN db ELSE "read"
  /\ UNCHANGED <<sections, assigned>>

\* A name that nothing stops goes on into the next line, and the end that it
\* gets there is the end of the file.  If that leaves a word of the line, which
\* is no entry, strsep() makes p NULL and trimws() looks for a ; from there to
\* the end of memory; behind the last line it is the name that goes on past
\* the buffer.  Both write what they find over with 0, and may crash.
OpenSection(line) ==
  /\ ReadLine /\ IsSection(line) /\ NameStops[line] = {}
  /\ \/ Closes
     \/ db' = "crashed" /\ UNCHANGED <<sections, open, assigned>>

EndOfFile == Reading /\ Closes /\ UNCHANGED lines

ConfigInit ==
  /\ db = "reading" /\ sections = <<>> /\ open = <<None>> /\ lines = 0
  /\ assigned = <<>>

ConfigNext ==
  \/ \E line \in Line : \/ SkippedLine(line) \/ SectionLine(line) \/ EntryLine(line)
                        \/ IncludeLine(line) \/ Abort(line) \/ OpenSection(line)
  \/ EndOfFile

-----------------------------------------------------------------------------
(* Properties.                                                             *)

\* An entry with an empty key takes the value of every later line.
Spoiled(list, sec) ==
  LET s == cfg_find_section(list, sec)
  IN  s # 0 /\ cfg_find_entry(list[s].keys, <<>>) # 0

\* Whatever files a section was spread over, however it and its keys were
\* spelt, and whatever was protected or commented, a lookup finds the value
\* that was given last: what the last line for the key means, or, if the
\* program does not take it so (Understood), what it takes of it.  A line with
\* an empty key spoils its section.
LookupIsLast ==
  db # "failed" =>
    \A at \in DOMAIN assigned :
      Spoiled(sections, at[1]) \/ cfg_find_val(sections, at[1], at[2]) = assigned[at]
=============================================================================
