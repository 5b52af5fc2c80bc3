------------------------------- MODULE Texts --------------------------------
(***************************************************************************)
(* The extension's functions on texts, one call at a time.                 *)
(*                                                                         *)
(*   canonicalize  src/src/nautilus-dropbox.c: canonicalize_path, on which *)
(*                 the file tables rely to find an object by its name      *)
(*   decode        GhettoURLDecode, in place                               *)
(*   transmit      a command's argument list as send_command_to_db writes  *)
(*                 it and command_parse_arg reads such a line              *)
(*   menu          the menu options of an answer, parsed into the items of *)
(*                 a context menu                                          *)
(*                                                                         *)
(* The first two are loops over an array with a read and a write index,    *)
(* and take a step for each turn; the others are taken as a whole.  A text *)
(* is a sequence of characters, a path is what g_strsplit makes of it; C's *)
(* indices start at 0.                                                     *)
(***************************************************************************)
EXTENDS Integers, Sequences, FiniteSets, SequencesExt

CONSTANTS
    Paths,      \* split absolute paths: sequences of components, the first of them ""
    CodedTexts, \* texts to be decoded
    Arguments,  \* entries of a command's argument table: [key, values]
    Menus,      \* the menus a daemon offers: sequences of items
    Null,
    Rejected    \* what a function returns for an input it refuses: NULL, -1, FALSE

\* A menu the daemon offers: an item has a label and either items of its own, all
\* leaves, or a tooltip, a verb and whether it is grayed.  The names that identify an
\* item to Nautilus are left out.
LeafItems == [label : Seq(STRING), grayed : BOOLEAN, tooltip : Seq(STRING), verb : Seq(STRING)]
SubmenuItems == [label : Seq(STRING), items : Seq(LeafItems)]

Empty == ""     \* the component before a slash that starts a path or follows another

ASSUME PathsAreAbsolute == \A p \in Paths : p \in Seq(STRING) /\ Len(p) > 0 /\ p[1] = Empty
ASSUME TextsAreCStrings ==
    \A s \in CodedTexts : s \in Seq(STRING) /\ \A k \in DOMAIN s : s[k] # "NUL"
ASSUME ArgumentsAreTexts == Arguments \subseteq [key : Seq(STRING), values : Seq(Seq(STRING))]
ASSUME MenusAreOfItems == Menus \subseteq Seq(LeafItems \cup SubmenuItems)
ASSUME NullIsNoText == Null \notin STRING
ASSUME RejectedIsAResult == Rejected # Null
\* A fact of TLA+, for the provers, which know no element of STRING.
ASSUME CharactersAreStrings ==
    {"~", "|", "%", "?", "!", "\\", "n", "t", "7", "E", "C", "2", "5", "NL", "TAB"}
        \subseteq STRING

VARIABLES
    function,   \* the function called
    input,      \* what it is called with
    i,          \* the read index: i of canonicalize_path, in of GhettoURLDecode
    j,          \* the write index: j, out
    buffer,     \* the array written: cpy, the text itself
    result      \* what it has returned, Null before that

textVars == <<function, input, i, j, buffer, result>>

Called(f, x) == function = f /\ input = x /\ i = 0 /\ result = Null
Running(f) == function = f /\ result = Null
Return(x) == result' = x /\ UNCHANGED <<function, input, i, j>>

-----------------------------------------------------------------------------
(* canonicalize_path.  cpy has g_strv_length + 1 entries. *)

IsName(element) == element \notin {"..", ".", Empty}

CallCanonicalize(path) ==
    /\ Called("canonicalize", path)
    /\ buffer = [k \in 0..Len(path) |-> IF k = 0 THEN "/" ELSE Null]
    /\ j = 1

\* Wrong: keeps the empty components, of which an absolute path has one.
CanonicalizeNextKeepingAll ==
    /\ Running("canonicalize") /\ i < Len(input)
    /\ LET element == input[i + 1] IN
       \/ /\ element = ".." /\ j > 0
          /\ j' = j - 1
          /\ UNCHANGED <<buffer, result>>
       \/ /\ element = ".." /\ j = 0
          /\ result' = Rejected
          /\ UNCHANGED <<buffer, j>>
       \/ /\ element # ".."
          /\ buffer' = [buffer EXCEPT ![j] = element]
          /\ j' = j + 1
          /\ UNCHANGED result
    /\ i' = i + 1
    /\ UNCHANGED <<function, input>>

\* Wrong: a parent reference at the root is passed over.
CanonicalizeNextAtRoot ==
    /\ Running("canonicalize") /\ i < Len(input)
    /\ LET element == input[i + 1] IN
       \/ element = ".." /\ j > 0 /\ j' = j - 1 /\ UNCHANGED buffer
       \/ /\ IsName(element)
          /\ buffer' = [buffer EXCEPT ![j] = element]
          /\ j' = j + 1
       \/ /\ element \in {".", Empty} \/ (element = ".." /\ j = 0)
          /\ UNCHANGED <<j, buffer>>
    /\ i' = i + 1
    /\ UNCHANGED <<function, input, result>>

\* One turn of the loop.  The root is an entry like any other.
CanonicalizeNext ==
    /\ Running("canonicalize") /\ i < Len(input)
    /\ LET element == input[i + 1] IN
       \/ /\ element = ".." /\ j > 0
          /\ j' = j - 1
          /\ UNCHANGED <<buffer, result>>
       \/ /\ element = ".." /\ j = 0
          /\ result' = Rejected
          /\ UNCHANGED <<j, buffer>>
       \/ /\ IsName(element)
          /\ buffer' = [buffer EXCEPT ![j] = element]
          /\ j' = j + 1
          /\ UNCHANGED result
       \/ element \in {".", Empty} /\ UNCHANGED <<j, buffer, result>>
    /\ i' = i + 1
    /\ UNCHANGED <<function, input>>

\* The entries up to the terminating NULL, joined by g_build_filenamev.
CanonicalizeReturn ==
    /\ Running("canonicalize") /\ i = Len(input)
    /\ buffer' = [buffer EXCEPT ![j] = Null]
    /\ Return([k \in 1..j |-> buffer[k - 1]])

-----------------------------------------------------------------------------
(* GhettoURLDecode(s, s, strlen(s)): in place, and no more than strlen(s). *)

End == "NUL"
Unhex(high, low) ==
    CASE high = "7" /\ low = "E" -> "~"
      [] high = "7" /\ low = "C" -> "|"
      [] high = "2" /\ low = "5" -> "%"
      [] OTHER -> "?"           \* some other character

CallDecode(text) ==
    /\ Called("decode", text)
    /\ buffer = [k \in 0..Len(text) |-> IF k < Len(text) THEN text[k + 1] ELSE End]
    /\ j = 0

Decoding == Running("decode") /\ j < Len(input) /\ buffer[i] # End
Complete == buffer[i + 1] # End /\ buffer[i + 2] # End     \* the escape at i
Put(c) == buffer' = [buffer EXCEPT ![j] = c] /\ j' = j + 1

DecodePlain ==
    /\ Decoding /\ buffer[i] # "%"
    /\ Put(buffer[i])
    /\ i' = i + 1
    /\ UNCHANGED <<function, input, result>>

\* Wrong: the two digits are decoded again as text.
DecodeEscapeSteppingShort ==
    /\ Decoding /\ buffer[i] = "%"
    /\ Complete
    /\ Put(Unhex(buffer[i + 1], buffer[i + 2]))
    /\ i' = i + 1
    /\ UNCHANGED <<function, input, result>>

DecodeEscape ==
    /\ Decoding /\ buffer[i] = "%"
    /\ Complete
    /\ Put(Unhex(buffer[i + 1], buffer[i + 2]))
    /\ i' = i + 3
    /\ UNCHANGED <<function, input, result>>

\* An escape that is cut off.  What has been decoded so far stays in the buffer.
DecodeFail ==
    /\ Decoding /\ buffer[i] = "%"
    /\ ~Complete
    /\ Return(Rejected)
    /\ UNCHANGED buffer

\* The terminator is written if there is room, that is, if there was an escape.
DecodeReturn ==
    /\ Running("decode") /\ ~Decoding
    /\ \/ /\ j < Len(input)
          /\ buffer' = [buffer EXCEPT ![j] = End]
          /\ Return(j)
       \/ /\ j = Len(input)
          /\ Return(Rejected)
          /\ UNCHANGED buffer

\* What the caller finds in the buffer.
CString ==
    LET end == CHOOSE e \in DOMAIN buffer :
                  buffer[e] = End /\ \A k \in 0..(e - 1) : buffer[k] # End
    IN [k \in 1..end |-> buffer[k - 1]]

-----------------------------------------------------------------------------
(* Helpers of glib and of the daemon. *)

\* g_strsplit: no more than max tokens unless max < 1, and none for the empty text.
Split(text, sep, max) ==
    IF text = <<>> THEN <<>>
    ELSE FoldLeft(LAMBDA tokens, c :
                      IF c = sep /\ (max < 1 \/ Len(tokens) < max)
                      THEN Append(tokens, <<>>)
                      ELSE [tokens EXCEPT ![Len(tokens)] = Append(@, c)],
                  <<<<>>>>, text)

Map(Op(_), s) == [k \in DOMAIN s |-> Op(s[k])]
Join(texts, sep) == Head(texts) \o FlattenSeq(Map(LAMBDA t : sep \o t, Tail(texts)))

\* What GhettoURLDecode makes of a text whose escapes are complete, from each place.
DecodedFrom(text) ==
    LET from[k \in 1..(Len(text) + 3)] ==
            IF k > Len(text) THEN <<>>
            ELSE IF text[k] = "%" THEN <<Unhex(text[k + 1], text[k + 2])>> \o from[k + 3]
            ELSE <<text[k]>> \o from[k + 1]
    IN from
Decoded(text) == DecodedFrom(text)[1]

\* Every escape from that place on is complete.
WellFormedFrom(text) ==
    LET from[k \in 1..(Len(text) + 3)] ==
            \/ k > Len(text)
            \/ text[k] # "%" /\ from[k + 1]
            \/ text[k] = "%" /\ k + 2 <= Len(text) /\ from[k + 3]
    IN from
WellFormed(text) == WellFormedFrom(text)[1]

\* The daemon's side of it: the characters with a meaning here are escaped.
Coded(c) ==
    CASE c = "~" -> <<"%", "7", "E">>
      [] c = "|" -> <<"%", "7", "C">>
      [] c = "%" -> <<"%", "2", "5">>
      [] OTHER -> <<c>>
Encoded(text) == FlattenSeq(Map(Coded, text))

-----------------------------------------------------------------------------
(* A line of arguments. *)

\* Wrong: a backslash goes out as it is.
EscapedButBackslash(c) ==
    CASE c = "NL" -> <<"\\", "n">>
      [] c = "TAB" -> <<"\\", "t">>
      [] OTHER -> <<c>>

\* g_strescape with all but these three among its exceptions.
Escaped(c) ==
    CASE c = "\\" -> <<"\\", "\\">>
      [] c = "NL" -> <<"\\", "n">>
      [] c = "TAB" -> <<"\\", "t">>
      [] OTHER -> <<c>>

sanitize(text) == FlattenSeq(Map(Escaped, text))

\* g_strcompress.
CompressedFrom(text) ==
    LET from[k \in 1..(Len(text) + 2)] ==
            IF k > Len(text) THEN <<>>
            ELSE IF text[k] = "\\" /\ k < Len(text)
            THEN <<CASE text[k + 1] = "n" -> "NL"
                     [] text[k + 1] = "t" -> "TAB"
                     [] OTHER -> text[k + 1]>> \o from[k + 2]
            ELSE <<text[k]>> \o from[k + 1]
    IN from
desanitize(text) == CompressedFrom(text)[1]

CallTransmit(argument) ==
    /\ Called("transmit", argument)
    /\ buffer = <<>> /\ j = 0

\* send_command_to_db: the key, and each value after a tab.
WriteArgument ==
    /\ Running("transmit") /\ i = 0
    /\ buffer' = sanitize(input.key)
          \o FlattenSeq(Map(LAMBDA v : <<"TAB">> \o sanitize(v), input.values))
    /\ i' = 1
    /\ UNCHANGED <<function, input, j, result>>

\* dropbox_client_util_command_parse_arg: a key and at least one value.
ParseArgument ==
    /\ Running("transmit") /\ i = 1
    /\ LET argval == Split(buffer, "TAB", 0) IN
       \/ /\ Len(argval) > 1
          /\ Return([key |-> desanitize(Head(argval)),
                     values |-> Map(desanitize, Tail(argval))])
       \/ Len(argval) <= 1 /\ Return(Rejected)
    /\ UNCHANGED buffer

-----------------------------------------------------------------------------
(* A menu. *)

IsSubmenu(item) == "items" \in DOMAIN item

\* The lines of the answer's "options"; without an item there is one empty line.
OptionLine(name, inner, verb) == Join(Map(Encoded, <<name, inner, verb>>), <<"~">>)
LeafLine(item) ==
    OptionLine((IF item.grayed THEN <<"!">> ELSE <<>>) \o item.label, item.tooltip, item.verb)
ItemLine(item) ==
    IF IsSubmenu(item)
    THEN OptionLine(item.label,
                    IF item.items = <<>> THEN <<>> ELSE Join(Map(LeafLine, item.items), <<"|">>),
                    <<>>)
    ELSE LeafLine(item)
Options(menu) == IF menu = <<>> THEN <<<<>>>> ELSE Map(ItemLine, menu)

\* What becomes of an option's decoded parts if they make no submenu.
Leaf(name, inner, verb) ==
    LET grayed == name # <<>> /\ name[1] = "!" IN
    [label |-> IF grayed THEN Tail(name) ELSE name, grayed |-> grayed,
     tooltip |-> inner, verb |-> verb]

\* Wrong: the parts are decoded before they are told apart.
PartsDecodingFirst(option) == Split(Decoded(option), "~", 3)

\* option_info.  Splitting for at most three tokens never yields a fourth, so
\* that a verb may have a "~" in it.
Parts(option) == Map(Decoded, Split(option, "~", 3))

\* nautilus_dropbox_parse_menu: an option without three parts is passed over.
parse_menu[options \in Seq(Seq(STRING))] ==
    LET Parsed(part) ==
            IF Contains(part[2], "~")
            THEN [label |-> part[1], items |-> parse_menu[Split(part[2], "|", 0)]]
            ELSE Leaf(part[1], part[2], part[3])
        Shown(part) == IF Len(part) = 3 THEN <<Parsed(part)>> ELSE <<>>
    IN FlattenSeq(Map(LAMBDA option : Shown(Parts(option)), options))

\* nautilus_dropbox_get_file_items: what it hands to Nautilus.
InDropboxMenu(items) ==
    IF Len(items) = 1 THEN items
    ELSE <<[label |-> <<"Dropbox">>, items |-> items]>>

CallMenu(menu) ==
    /\ Called("menu", menu)
    /\ buffer = Options(menu) /\ j = 0

GetFileItems ==
    /\ Running("menu")
    /\ Return(IF buffer[1] = <<>> THEN <<>> ELSE InDropboxMenu(parse_menu[buffer]))
    /\ UNCHANGED buffer

-----------------------------------------------------------------------------
TextInit ==
    \/ \E p \in Paths : CallCanonicalize(p)
    \/ \E s \in CodedTexts : CallDecode(s)
    \/ \E a \in Arguments : CallTransmit(a)
    \/ \E m \in Menus : CallMenu(m)

TextNext ==
    \/ CanonicalizeNext \/ CanonicalizeReturn
    \/ DecodePlain \/ DecodeEscape \/ DecodeFail \/ DecodeReturn
    \/ WriteArgument \/ ParseArgument
    \/ GetFileItems

TextSpec == TextInit /\ [][TextNext]_textVars

-----------------------------------------------------------------------------
(* Properties *)

\* The value of every variable is of the kind the code gives it.
TextTypeOK ==
    /\ function \in {"canonicalize", "decode", "transmit", "menu"}
    /\ i \in Nat /\ j \in Nat
    /\ function = "canonicalize" => input \in Paths
    /\ function = "decode" => input \in CodedTexts
    /\ function \in {"canonicalize", "decode"} =>
          /\ DOMAIN buffer = 0..Len(input)
          /\ i <= Len(input)

\* canonicalize_path allocates an entry more than there are components, though it
\* begins by writing one that is not among them, and GhettoURLDecode reads from
\* the array it writes: neither index leaves the array, and the text ahead of
\* the read index has not been overwritten.
BuffersSuffice ==
    /\ function = "canonicalize" => j \in DOMAIN buffer
    /\ function = "decode" =>
          /\ i \in DOMAIN buffer /\ j <= i
          /\ \A k \in i..(Len(input) - 1) : result = Null => buffer[k] = input[k + 1]

\* Names(p) less the parents, counted without an array.
Gain(path, from, to) ==
      Cardinality({k \in from..to : IsName(path[k])})
    - Cardinality({k \in from..to : path[k] = ".."})
Height(path, k) == Gain(path, 1, k)
\* The names that no parent reference after them takes away.
Survivors(path) ==
    LET stays(k) == /\ IsName(path[k])
                    /\ \A m \in k..Len(path) : Gain(path, k, m) > 0
        kept == {k \in DOMAIN path : stays(k)}
    IN [n \in 1..Cardinality(kept) |->
           path[CHOOSE k \in kept : Cardinality({m \in kept : m <= k}) = n]]

\* What canonicalize_path returns is "/" and the names a reader would be left
\* with, and it refuses a path that climbs above the root by two.  The path that
\* climbs by just one is neither: the root itself is taken away, against the
\* comment that such a path is invalid, and the result is relative.
CanonicalUnlessRootIsLost ==
    (function = "canonicalize" /\ result # Null) =>
        \/ /\ \A k \in DOMAIN input : Height(input, k) >= 0
           /\ result = <<"/">> \o Survivors(input)
        \/ /\ \E k \in DOMAIN input : Height(input, k) < -1
           /\ result = Rejected
        \/ /\ \E k \in DOMAIN input : Height(input, k) = -1
           /\ \A k \in DOMAIN input : Height(input, k) >= -1

\* A text whose escapes are complete is decoded to what they stand for, although
\* the loop writes over its own input, and leaves the terminator in place when
\* there was nothing to decode; then, too, -1 is returned, which no caller reads.
DecodesWellFormed ==
    (function = "decode" /\ result # Null /\ WellFormed(input)) =>
        /\ CString = Decoded(input)
        /\ result # Rejected => result = Len(CString)

\* Whatever is in an argument, the reader of its line finds the same key and the
\* same values, and the line has no other line in it.
ArgumentsComeThrough ==
    function = "transmit" =>
        /\ \A k \in DOMAIN buffer : buffer[k] # "NL"
        /\ result # Null =>
              result = IF input.values = <<>> THEN Rejected ELSE input

\* What cannot be said: a tooltip with "~" in it is taken for a submenu, a label
\* that begins with "!" for a grayed one, and a submenu without items for a leaf.
SayableLeaf(item) ==
    /\ ~Contains(item.tooltip, "~")
    /\ item.label # <<>> /\ item.label[1] = "!" => item.grayed
Sayable(item) ==
    IF IsSubmenu(item)
    THEN item.items # <<>> /\ \A k \in DOMAIN item.items : SayableLeaf(item.items[k])
    ELSE SayableLeaf(item)

\* The user is shown the menu the daemon offers, with every character it put in
\* labels, tooltips and verbs, though they are encoded once for each level and
\* told apart by the very characters the encoding removes.
MenuIsAsOffered ==
    (function = "menu" /\ result # Null /\ \A k \in DOMAIN input : Sayable(input[k])) =>
        result = IF input = <<>> THEN <<>> ELSE InDropboxMenu(input)

=============================================================================
