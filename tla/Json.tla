-------------------------------- MODULE Json --------------------------------
(***************************************************************************)
(* The JSON reader and writer of src/entc/tools/ecjson.c.  A text is a     *)
(* sequence of characters; null, true and false are one character each.  A *)
(* value is a pair of its type and what it contains; a node's contents   *)
(* are pairs of a key and a value in the order they were added, as ecudc.c *)
(* keeps them.                                                             *)
(***************************************************************************)
EXTENDS Strings, TLC

Of(type, contents) == <<type, contents>>
NoUdc == Of("none at all", 0)
JsonDigits == <<"0", "1", "2", "5">>
DigitValue == <<0, 1, 2, 5>>
Hex == ToSet(JsonDigits) \cup {"b", "f", "A"}

(* json_parse_type, of the trimmed text.                                   *)
Atoi(h) ==
  LET read[k \in 0 .. Len(h)] ==   \* the number so far, and whether it goes on
        IF k = 0 THEN <<0, TRUE>>
        ELSE IF read[k - 1][2] /\ h[k] \in ToSet(JsonDigits)
             THEN <<10 * read[k - 1][1] + DigitValue[Pos(JsonDigits, h[k])], TRUE>>
             ELSE <<read[k - 1][1], FALSE>>
  IN  read[Len(h)][1]
JsonType(text) ==
  LET h == Trim(text)
  IN  CASE h = <<"null">> -> Of("null", 0)
        [] h \in {<<"true">>, <<"false">>} -> Of("bool", h = <<"true">>)
        [] "." \in ToSet(h) -> Of("double", h)
        [] OTHER -> Of("int", Atoi(h))

(* ecudc_add: a node takes it under its key.                               *)
Added(udc, key, val) ==
  Of(udc[1], Append(udc[2], IF udc[1] = "node" THEN <<key, val>> ELSE val))

(* The parser's frames are the calls of json_parse that are not done: the  *)
(* state of the machine, the value, the key and "mark", the place of       *)
(* parser->pos.  "text" is json_parse_string: where the text starts, and   *)
(* how many characters behind an escape are still to be looked at.         *)
JsonFrame(state, type, c) == [state |-> state, udc |-> Of(type, <<>>), key |-> <<>>, mark |-> c]
JsonStart ==
  [frames |-> <<[state |-> "none", udc |-> NoUdc, key |-> <<>>, mark |-> 1]>>,
   text |-> [from |-> 0, escape |-> "none", hex |-> 0], end |-> "no"]
JsonTop(p) == p.frames[Len(p.frames)]
JsonSet(p, frame) == [p EXCEPT !.frames = Append(Front(p.frames), frame)]
JsonFails(p) == [p EXCEPT !.end = "failed"]

(* A part of an array or an object is there: it is taken, and what follows *)
(* is a comma or the end.                                                  *)
JsonTaken(p, val, c) ==
  LET f == JsonTop(p)
  IN  JsonSet(p, [f EXCEPT !.udc = Added(f.udc, f.key, val), !.mark = c,
                           !.state = IF f.udc[1] = "list" THEN "array_eoe" ELSE "object_eoe"])

(* json_parse returns its value to the call around it.                     *)
JsonDone(p, val, c) ==
  IF Len(p.frames) = 1 THEN [JsonSet(p, [JsonTop(p) EXCEPT !.udc = val]) EXCEPT !.end = "done"]
  ELSE JsonTaken([p EXCEPT !.frames = Front(p.frames)], val, c)

(* json_parse_string: up to the quote that is not escaped; what is escaped *)
(* stays as it was written.                                                *)
JsonInText(p, s, c) ==
  LET ch == s[c]
      f == JsonTop(p)
      text == SubSeq(s, p.text.from, c - 1)
      out == [p EXCEPT !.text.from = 0]
  IN  CASE p.text.escape = "none" /\ ch = "\"" ->
             (IF f.state # "key" THEN JsonTaken(out, Of("string", text), c)
              ELSE IF text = <<>> THEN JsonFails(p)
              ELSE JsonSet(out, [f EXCEPT !.key = text, !.mark = c, !.state = "key_eoe"]))
        [] p.text.escape = "none" /\ ch = "\\" -> [p EXCEPT !.text.escape = "back"]
        [] p.text.escape = "none" /\ ch \notin {"\"", "\\"} -> p
        [] p.text.escape = "back" /\ ch \in {"\"", "\\", "/", "b", "f", "r", "n", "t"} ->
             [p EXCEPT !.text.escape = "none"]
        [] p.text.escape = "back" /\ ch = "u" -> [p EXCEPT !.text.escape = "hex", !.text.hex = 4]
        [] p.text.escape = "hex" /\ ch \in Hex ->
             [p EXCEPT !.text.hex = @ - 1, !.text.escape = IF p.text.hex = 1 THEN "none" ELSE "hex"]
        [] OTHER -> JsonFails(p)

(* json_parse for the character at c.  A number or a word is taken from two*)
(* characters behind the mark, in an array it is passed over.              *)
JsonStep(p, s, c) ==
  LET ch == s[c]
      f == JsonTop(p)
      opens == ch \in {"[", "{"}
      inner == IF ch = "[" THEN JsonFrame("array", "list", c) ELSE JsonFrame("key", "node", c)
      child == [p EXCEPT !.frames = Append(@, inner)]
      text == [p EXCEPT !.text.from = c + 1, !.text.escape = "none"]
      typed == Added(f.udc, f.key, JsonType(SubSeq(s, f.mark + 2, c - 1)))
      ends == ch = (IF f.udc[1] = "list" THEN "]" ELSE "}")
  IN  CASE p.end # "no" -> p
        [] p.end = "no" /\ p.text.from > 0 -> JsonInText(p, s, c)
        [] OTHER ->
     CASE f.state = "none" -> IF opens THEN JsonSet(p, inner) ELSE p
       [] f.state \in {"array", "object"} /\ opens -> child
       [] f.state \in {"array", "object", "key"} /\ ch = "\"" -> text
       [] f.state \in {"array", "array_eoe", "object_eoe", "key"} /\ ends -> JsonDone(p, f.udc, c)
       [] f.state = "object" /\ ends -> JsonDone(p, typed, c)
       [] f.state \in {"array", "array_eoe"} /\ ch = "," ->
            JsonSet(p, [f EXCEPT !.state = "array", !.mark = c])
       [] f.state \in {"object", "object_eoe"} /\ ch = "," ->
            JsonSet(p, [f EXCEPT !.state = "key", !.mark = c,
                                 !.udc = IF f.state = "object" THEN typed ELSE f.udc])
       [] f.state = "key_eoe" /\ ch = ":" -> JsonSet(p, [f EXCEPT !.state = "object"])
       [] f.state \in {"array_eoe", "object_eoe", "key", "key_eoe"} /\ ch # Blank -> JsonFails(p)
       [] OTHER -> p

(* ecjson_read.                                                            *)
JsonRead(s) ==
  LET read == FoldLeftDomain(LAMBDA p, c : JsonStep(p, s, c), JsonStart, s)
  IN  IF read.end = "done" THEN JsonTop(read).udc ELSE NoUdc

(* Mutation: the escape character is not escaped.                          *)
JsonEscapeQuote(s) == FlattenSeq([k \in DOMAIN s |-> IF s[k] = "\"" THEN <<"\\", s[k]>> ELSE <<s[k]>>])

(* jsonwriter_escape; the DEL character is left out.                       *)
JsonEscape(s) ==
  LET One(c) == CASE c \in {"\"", "\\"} -> <<"\\", c>>
                  [] c = "\r" -> <<"\\", "r">> [] c = "\n" -> <<"\\", "n">>
                  [] c = "DEL" -> <<>>
                  [] OTHER -> <<c>>
  IN  FlattenSeq([k \in DOMAIN s |-> One(s[k])])

(* A text that has its JSON already: the comparison of ecstr_leading ends  *)
(* before the J, and what is behind the first three goes out.              *)
IsRaw(v) == v[1] = "string" /\ Leading(v[2], <<"#", "#", "J">>)
DigitsText(n) == [k \in DOMAIN DigitsOf(n, 1) |-> ToString(DigitsOf(n, 1)[k])]

RECURSIVE JsonWrite(_)

(* jsonwriter_fill and ecjson_write.                                       *)
JsonWrite(v) ==
  LET Listed(texts) == IF texts = <<>> THEN <<>>
                       ELSE FlattenSeq([k \in DOMAIN texts |->
                              IF k = 1 THEN texts[k] ELSE <<",">> \o texts[k]])
      Quoted(s) == <<"\"">> \o JsonEscape(s) \o <<"\"">>
  IN  CASE v[1] = "list" -> <<"[">> \o Listed([k \in DOMAIN v[2] |-> JsonWrite(v[2][k])]) \o <<"]">>
        [] v[1] = "node" ->
             <<"{">> \o Listed([k \in DOMAIN v[2] |->
                          Quoted(v[2][k][1]) \o <<":">> \o JsonWrite(v[2][k][2])]) \o <<"}">>
        [] IsRaw(v) -> SubSeq(v[2], 4, Len(v[2]))
        [] v[1] = "string" /\ ~IsRaw(v) -> Quoted(v[2])
        [] v[1] = "bool" -> IF v[2] THEN <<"true">> ELSE <<"false">>
        [] v[1] = "null" -> <<"null">>
        [] v[1] = "int" -> DigitsText(v[2])
        [] v[1] = "double" -> v[2]

-----------------------------------------------------------------------------
(* The values that are written: leaves, nodes and lists of them, and both  *)
(* once more around those.                                                 *)
JsonLeaves ==
  {Of("null", 0), Of("bool", TRUE), Of("int", 0), Of("int", 51), Of("double", <<"5", ".", "0">>),
   Of("string", <<>>), Of("string", <<"x", "\"">>), Of("string", <<"\\", ",", "\n">>), Of("string", <<"DEL", "\r">>),
   Of("string", <<"#", "#", "J", "[", "]">>)}
JsonContainers(S) ==
  {Of("list", s) : s \in {<<>>} \cup {<<a>> : a \in S} \cup {<<a, b>> : a, b \in S}}
  \cup {Of("node", s) : s \in {<<>>} \cup {<<<<<<"x">>, a>>>> : a \in S}
                              \cup {<<<<<<"x">>, a>>, <<<<"y", "\"">>, b>>>> : a, b \in S}}
JsonValues ==
  LET few == {Of("int", 51), Of("string", <<"\\", ",">>), Of("null", 0)}
      some == {Of("node", <<<<<<"x">>, a>>>>) : a \in few} \cup {Of("list", <<a>>) : a \in few}
  IN  JsonContainers(JsonLeaves) \cup JsonContainers(some \cup {Of("int", 5), Of("list", <<>>)})

(* What of a value the reader can give: in a list only what is in quotes or*)
(* brackets, and texts as they were escaped.                               *)
RECURSIVE JsonKnown(_)
JsonKnown(v) ==
  CASE v[1] = "list" ->
         LET kept == SelectSeq(v[2], LAMBDA a : a[1] \in {"list", "node", "string"})
         IN  Of("list", [k \in DOMAIN kept |-> JsonKnown(kept[k])])
    [] v[1] = "node" -> Of("node", [k \in DOMAIN v[2] |-> <<JsonEscape(v[2][k][1]), JsonKnown(v[2][k][2])>>])
    [] v[1] = "string" -> IF IsRaw(v) THEN Of("list", <<>>) ELSE Of("string", JsonEscape(v[2]))
    [] OTHER -> v

(* The places of a text that are between two of its parts and not between  *)
(* a key and its colon.                                                    *)
BlankPlaces(s) ==
  LET Mode(m, c) == CASE m = "back" -> "text"
                      [] m # "back" /\ c = "\"" -> IF m = "text" THEN "out" ELSE "text"
                      [] m = "text" /\ c = "\\" -> "back"
                      [] OTHER -> m
      modes == FoldLeft(LAMBDA seen, c : Append(seen, Mode(Last(seen), c)), <<"out">>, s)
  IN  {k \in 1 .. Len(s) - 1 :
         modes[k + 1] = "out" /\ s[k + 1] # ":" /\ ~{s[k], s[k + 1]} \subseteq ToSet(JsonDigits) \cup {"."}}

(* What is written is read again as far as the reader knows it, with every *)
(* brace, bracket and quote in its place however texts and keys look, and  *)
(* a blank where JSON allows it changes nothing, but before a colon.       *)
JsonReturns(value) ==
  LET text == JsonWrite(value)
  IN  /\ JsonRead(text) = JsonKnown(value)
      /\ \A k \in BlankPlaces(text) : JsonRead(InsertAt(text, k + 1, Blank)) = JsonKnown(value)

-----------------------------------------------------------------------------
(***************************************************************************)
(* The binary format of src/entc/tools/ecbins.c, which the parts of a      *)
(* distributed program exchange values in.  A number is its bytes; a count *)
(* has four of them, and a byte has BinsByte values, so that a list that is*)
(* longer than its first byte says is a short one.                         *)
(***************************************************************************)

BinsByte == 4
NotThere == [val |-> NoUdc, rest |-> <<>>]

(* The identifiers of the types and the bytes a number has.                *)
BinsType == [string |-> 0, list |-> 1, byte |-> 2, ubyte |-> 3, int16 |-> 4, uint16 |-> 5,
             int32 |-> 6, uint32 |-> 7, node |-> 17, int64 |-> 18, uint64 |-> 19]
BinsWidth == [byte |-> 1, ubyte |-> 1, int16 |-> 2, uint16 |-> 2,
              int32 |-> 4, uint32 |-> 4, int64 |-> 8, uint64 |-> 8]
CountBytes(n) == <<n % BinsByte, (n \div BinsByte) % BinsByte, 0, 0>>

(* ecbins_writeElement: a text goes without its termination, a node is its *)
(* names only: the second loop finds the cursor at the end, and nothing is *)
(* counted.  A type that is not one of these is not written.               *)
RECURSIVE BinsWrite(_)
BinsWrite(v) ==
  CASE v[1] = "list" ->
         FoldLeft(LAMBDA s, a : s \o BinsWrite(a), <<BinsType.list>> \o CountBytes(Len(v[2])), v[2])
    [] v[1] = "node" ->
         FoldLeft(LAMBDA s, a : s \o BinsWrite(Of("string", a[1])), <<BinsType.node>> \o CountBytes(0), v[2])
    [] v[1] = "string" -> <<BinsType.string>> \o v[2]
    [] v[1] \in DOMAIN BinsWidth -> <<BinsType[v[1]]>> \o v[2]
    [] OTHER -> <<>>

(* ecbins_readString: up to the next zero, which must be in the buffer.    *)
BinsString(s) ==
  LET n == Pos(s, 0)
  IN  IF n = 0 THEN NotThere ELSE [val |-> Of("string", Part(s, 0, n - 1)), rest |-> Part(s, n, Len(s) - n)]

(* ecbins_readByte to ecbins_readUInt64.                                   *)
BinsNumber(t, s) ==
  IF Len(s) < BinsWidth[t] THEN NotThere
  ELSE [val |-> Of(t, Part(s, 0, BinsWidth[t])), rest |-> Part(s, BinsWidth[t], Len(s) - BinsWidth[t])]

(* ecbins_readList: the first byte of the count, then four are passed over.*)
RECURSIVE BinsElement(_)
BinsList(s) ==
  IF Len(s) < 4 THEN NotThere
  ELSE FoldLeft(LAMBDA a, k : LET e == BinsElement(a.rest)
                              IN  [val |-> Of("list", Append(a.val[2], e.val)), rest |-> e.rest],
                [val |-> Of("list", <<>>), rest |-> Part(s, 4, Len(s) - 4)],
                [k \in 1 .. Head(s) |-> k])

(* ecbins_readBuffer.  ecbins_readNode reads its size as an element and    *)
(* looks for its type among the identifiers: it is none of them, and the   *)
(* node stays empty.                                                       *)
BinsElement(s) ==
  IF s = <<>> THEN NotThere
  ELSE LET rest == Tail(s)
           numbers == {t \in DOMAIN BinsWidth : BinsType[t] = Head(s)}
       IN  CASE Head(s) = BinsType.string -> BinsString(rest)
             [] Head(s) = BinsType.list -> BinsList(rest)
             [] Head(s) = BinsType.node ->
                  IF Len(rest) < 4 THEN NotThere
                  ELSE [val |-> Of("node", <<>>), rest |-> BinsElement(rest).rest]
             [] numbers # {} -> BinsNumber(CHOOSE t \in numbers : TRUE, rest)
             [] OTHER -> NotThere

(* ecbins_read: elements until one is not there.                           *)
BinsRead(s) ==
  FoldLeft(LAMBDA a, k : LET e == BinsElement(a.rest)
                         IN  IF e.val = NoUdc THEN [a EXCEPT !.rest = <<>>]
                             ELSE [vals |-> Append(a.vals, e.val), rest |-> e.rest],
           [vals |-> <<>>, rest |-> s], s).vals

-----------------------------------------------------------------------------
(* Numbers of every width with bytes that look like identifiers, lists of  *)
(* them and of lists, a text and a node.                                   *)
BinsNumbers ==
  {Of(t, [k \in 1 .. BinsWidth[t] |-> IF k = 1 THEN b ELSE c]) :
     t \in DOMAIN BinsWidth, b \in {0, 1, 17}, c \in {0, 1, 2}}
BinsLists(S) == {Of("list", s) : s \in {<<>>} \cup {<<a>> : a \in S} \cup {<<a, b>> : a, b \in S}}
BinsFew == {Of("byte", <<1>>), Of("int16", <<17, 0>>), Of("uint32", <<0, 1, 1, 1>>)}
BinsPlain ==
  BinsNumbers \cup BinsLists(BinsFew) \cup BinsLists(BinsLists(BinsFew)) \cup {Of("list", <<a>>) : a \in BinsNumbers}
BinsLong == Of("list", [k \in 1 .. BinsByte |-> Of("byte", <<k>>)])
BinsNodes == {Of("node", <<>>), Of("node", <<<<<<9>>, Of("byte", <<1>>)>>>>)}
BinsValues == BinsPlain \cup BinsNodes \cup {BinsLong, Of("string", <<9>>)}

(* Numbers and lists of them come back as they were written, and nothing   *)
(* behind them; a list with more entries than a byte counts is cut by its  *)
(* first byte and the rest reads as further values, a node comes back      *)
(* without its contents, and a text at the end of a buffer not at all.     *)
BinsReturn(value) ==
  LET read == BinsRead(BinsWrite(value))
  IN  CASE value \in BinsPlain -> read = <<value>>
        [] value = BinsLong -> read = <<Of("list", <<>>)>> \o value[2]
        [] value[1] = "node" -> Head(read) = Of("node", <<>>)
        [] OTHER -> read = <<>>
=============================================================================
