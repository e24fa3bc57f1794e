------------------------------ MODULE IniFile ------------------------------
(***************************************************************************)
(* Configuration files (libmtd/IniFile.cpp) as text: lines written from a     *)
(* map of entries and read back into one.  A text is a sequence of signs,     *)
(* words where no part of the code looks into them; a blank or a tab is " ".  *)
(* An entry is a section and a key.                                           *)
(***************************************************************************)
EXTENDS Integers, Sequences, SequencesExt, FiniteSetsExt
LOCAL INSTANCE TLC

CONSTANTS
    Rank,           \* the order of the signs in the character set, as numbers
    Width(_),       \* how many characters a sign stands for
    MAX_CONFIG_LINE_LENGTH

MIDDLESTRING == "_____***_______"

NoEntries == [entry \in {} |-> <<>>]

Ink(text) == { i \in DOMAIN text : text[i] # " " }
FirstInk(text) == IF Ink(text) = {} THEN 0 ELSE Min(Ink(text))
LastInk(text) == IF Ink(text) = {} THEN 0 ELSE Max(Ink(text))
FirstOf(text, sign) == SelectInSeq(text, LAMBDA s : s = sign)
LastOf(text, sign) == SelectLastInSeq(text, LAMBDA s : s = sign)

trim_blank(text) == IF Ink(text) = {} THEN <<>> ELSE SubSeq(text, FirstInk(text), LastInk(text))

-----------------------------------------------------------------------------
(* parse_config: a line with "[" and "]" anywhere in it is a header. *)
IsHeader(line) ==
    LET first == FirstOf(line, "[") last == LastOf(line, "]")
    IN  first # 0 /\ last # 0 /\ first # last + 1
HeaderOf(line) ==
    LET first == FirstOf(line, "[") last == LastOf(line, "]")
    IN  SubSeq(line, first + 1, IF last < first THEN Len(line) ELSE last - 1)

(* Where a comment begins, at its blank; 0 if there is none. *)
Comment(text, from) ==
    LET marks(m) == { i \in from .. Len(text) - 1 : text[i] = " " /\ text[i + 1] = m }
    IN  IF from = 0 \/ marks("#") \cup marks("//") = {} THEN 0
        ELSE IF marks("#") # {} THEN Min(marks("#")) ELSE Min(marks("//"))

(* What is left of a value; nothing means that the line is passed over. *)
ValueOf(text) ==
    LET first == FirstInk(text)
        comment == Comment(text, first)
        cut == IF comment = 0 THEN text ELSE SubSeq(text, 1, comment - first)
    IN  IF first = 0 THEN <<>> ELSE SubSeq(cut, first, LastInk(cut))

(* The lines of a file, but for a last one without its end: getline has met the end of the
   file in it, and it is not looked at.  A line belongs to the last header above it; of lines
   for the same entry the last one stays. *)
parse_config(lines) ==
    LET trimmed == { <<i, trim_blank(lines[i])>> : i \in DOMAIN lines }
        headers == { l \in trimmed : IsHeader(l[2]) }
        SectOf(i) ==
            LET above == { h \in headers : h[1] < i }
            IN  IF above = {} THEN <<>>
                ELSE HeaderOf((CHOOSE h \in above : \A g \in above : g[1] <= h[1])[2])
        Setter(l) ==
            LET equals == FirstOf(l[2], "=")
            IN  [line |-> l[1],
                 entry |-> <<SectOf(l[1]), trim_blank(SubSeq(l[2], 1, equals - 1))>>,
                 value |-> ValueOf(SubSeq(l[2], equals + 1, Len(l[2])))]
        setters == { s \in { Setter(l) : l \in { k \in trimmed \ headers : FirstOf(k[2], "=") # 0 } } :
                        s.entry[1] # <<>> /\ s.entry[2] # <<>> /\ s.value # <<>> }
        LastOne(entry) ==
            CHOOSE s \in setters :
                s.entry = entry /\ \A r \in setters : r.entry = entry => r.line <= s.line
    IN  [entry \in { s.entry : s \in setters } |-> LastOne(entry).value]

-----------------------------------------------------------------------------
(* save_config: in the order of the keys of the map. *)
MapKeyOfKey(entry) == entry[2] \o <<MIDDLESTRING>> \o entry[1]
MapKey(entry) == entry[1] \o <<MIDDLESTRING>> \o entry[2]
Before(a, b) ==
    LET x == MapKey(a) y == MapKey(b)
    IN  \E n \in 0 .. Len(x) :
            /\ n < Len(y) /\ \A i \in 1 .. n : x[i] = y[i]
            /\ n = Len(x) \/ (n < Len(x) /\ Rank[x[n + 1]] < Rank[y[n + 1]])

Ordered(entries) ==
    LET Insert(entry, order) ==
            LET at == SelectInSeq(order, LAMBDA e : Before(entry, e))
            IN  IF at = 0 THEN Append(order, entry) ELSE InsertAt(order, at, entry)
    IN  FoldSet(Insert, <<>>, entries)

LinesOf(config, order, i) ==
    LET entry == order[i]
        seen == \E j \in 1 .. i - 1 : order[j][1] = entry[1]
        line == entry[2] \o <<"=">> \o config[entry]
        header == <<"[">> \o entry[1] \o <<"]">>
    IN  IF seen THEN <<line>> ELSE IF i = 1 THEN <<header, line>> ELSE << <<>>, header, line>>

save_config(config) ==
    LET order == Ordered(DOMAIN config)
    IN  FlattenSeq([i \in DOMAIN order |-> LinesOf(config, order, i)])

(* getline takes one character less than its buffer has.  At a longer line it fails and takes
   nothing any more, so that the end of the file is never met: load_config does not return. *)
Length(text) ==
    LET upTo[i \in 0 .. Len(text)] == IF i = 0 THEN 0 ELSE upTo[i - 1] + Width(text[i])
    IN  upTo[Len(text)]
Loads(lines) == \A i \in DOMAIN lines : Length(lines[i]) < MAX_CONFIG_LINE_LENGTH

(* load_config, read, write, flush: an object holds a map of its own, loaded when it is
   made, and writes the whole file when it ends, also if it has only been read; then it loads
   the file once more. *)
load_config(lines) == parse_config(lines)
read(config, sect, key) ==
    IF <<sect, key>> \in DOMAIN config THEN config[<<sect, key>>] ELSE <<>>
write(config, sect, key, value) == (<<sect, key>> :> value) @@ config
flush(lines, config) == IF config = NoEntries THEN lines ELSE save_config(config)

-----------------------------------------------------------------------------
(* An entry the format can hold: a section with a name, a key without blanks around it and
   without an equals sign, a value without blanks around it and without a comment, no
   brackets that make the line a header, and no line that is too long. *)
Fits(entry, value) ==
    LET key == entry[2]
    IN  /\ entry[1] # <<>> /\ key # <<>> /\ trim_blank(key) = key /\ FirstOf(key, "=") = 0
        /\ trim_blank(value) = value /\ Comment(value, FirstInk(value)) = 0
        /\ ~IsHeader(key \o <<"=">> \o value)
        /\ Length(key \o <<"=">> \o value) < MAX_CONFIG_LINE_LENGTH
        /\ Length(<<"[">> \o entry[1] \o <<"]">>) < MAX_CONFIG_LINE_LENGTH

(* A file of entries the format can hold can be loaded; the entries come back from it, but for
   those without a value, and no other entries do, whichever sections they are in and however
   the map orders them; a file cut off after one of its lines gives some of them. *)
ConfigReadsBack(config) ==
    (\A entry \in DOMAIN config : Fits(entry, config[entry])) =>
        LET lines == save_config(config)
            kept == { entry \in DOMAIN config : config[entry] # <<>> }
        IN  /\ Loads(lines)
            /\ load_config(lines) = [entry \in kept |-> config[entry]]
            /\ \A n \in 0 .. Len(lines) :
                   LET part == load_config(SubSeq(lines, 1, n))
                   IN  \A entry \in DOMAIN part : entry \in kept /\ part[entry] = config[entry]
=============================================================================
