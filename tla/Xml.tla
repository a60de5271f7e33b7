-------------------------------- MODULE Xml ---------------------------------
(***************************************************************************)
(* The XML writer of src/entc/tools/ecxmldom.c and the pull parser of      *)
(* src/entc/tools/ecxmlstream.c, which reads what is written again.  A     *)
(* text is a sequence of characters; "?xml", "![CDATA[" and "xmlns" are one*)
(* each.  The open tags are on the stack of src/entc/types/ecstack.c.      *)
(***************************************************************************)
EXTENDS Strings

StackPush(stack, data) == Append(stack, data)
StackPop(stack) == IF stack = <<>> THEN stack ELSE Front(stack)
StackTop(stack, none) == IF stack = <<>> THEN none ELSE Last(stack)
Unscoped == [name |-> <<>>, ns |-> Absent]

-----------------------------------------------------------------------------
(* ecxmldom: a tag is its name, the namespace of its options, attributes,  *)
(* value and tags; without one of them the field is Absent.                *)
NewTag(name) == [name |-> name, ns |-> Absent, attrs |-> <<>>, value |-> Absent, tags |-> <<>>]
AddAttribute(tag, name, value) == [tag EXCEPT !.attrs = Append(@, <<name, value>>)]
SetNamespace(tag, name, definition) ==
  LET named == [tag EXCEPT !.ns = name]
  IN  IF definition = <<>> THEN named ELSE AddAttribute(named, <<"xmlns", ":">> \o name, definition)

(* ecxmldom_write: the tags keep the value from being written, and the     *)
(* namespace goes on to them.  Nothing is escaped.                         *)
RECURSIVE XmlWrite(_, _)
XmlWrite(tag, outer) ==
  LET ns == IF tag.ns = Absent THEN outer ELSE tag.ns
      named == CatC(IF ns = Absent THEN <<>> ELSE ns, IF ns = Absent THEN "" ELSE ":", tag.name)
      full == IF ns = Absent THEN tag.name ELSE named
      start == FoldLeft(LAMBDA s, a : s \o <<Blank>> \o a[1] \o <<"=", "\"">> \o a[2] \o <<"\"">>,
                        <<"<">> \o full, tag.attrs)
      close == <<"<", "/">> \o full \o <<">", Blank>>
  IN  IF tag.tags # <<>>
      THEN FoldLeft(LAMBDA s, t : s \o XmlWrite(t, ns), start \o <<">", Blank>>, tag.tags) \o close
      ELSE IF tag.value # Absent THEN start \o <<">">> \o tag.value \o close
      ELSE start \o <<"/", ">", Blank>>

(* ecxmldom_buffer.                                                        *)
XmlBuffer(tag) == <<"<", "?xml", Blank, "v", "=", "\"", "1", "\"", "?", ">", Blank>> \o XmlWrite(tag, Absent)

-----------------------------------------------------------------------------
(* The stream: "state" is the one of ecxmlstream_do1 (0 value, 1 tag,      *)
(* 2 CDATA, 3 declaration), "text" the stream_tag, "last" the type of the  *)
(* last event, "known" the namespaces, which no end of a tag removes.      *)
XmlStart ==
  [state |-> 0, text |-> <<>>, last |-> "none", tags |-> <<>>, known |-> {}, attrs |-> <<>>,
   events |-> <<>>, error |-> FALSE]

(* ecxmlstream_cleanLastNode.                                              *)
CleanLast(x) ==
  [x EXCEPT !.tags = IF x.last \in {"single", "end"} THEN StackPop(@) ELSE @, !.last = "none"]

XmlEvent(x, type, value) ==
  LET tag == StackTop(x.tags, Unscoped)
  IN  [x EXCEPT !.last = type, !.text = <<>>, !.state = IF type = "value" THEN 1 ELSE 0,
                !.events = Append(@, [type |-> type, name |-> tag.name, ns |-> tag.ns,
                                      attrs |-> IF type \in {"start", "single"} THEN x.attrs ELSE <<>>,
                                      value |-> value])]

(* ecxmlstream_find_namespace.                                             *)
CreateTag(x, tagname) ==
  IF Before(tagname, ":") \in x.known /\ Behind(tagname, ":") # Absent
  THEN [name |-> Behind(tagname, ":"), ns |-> Before(tagname, ":")]
  ELSE [name |-> tagname, ns |-> Absent]

(* ecxmlstream_parseNode: the name up to a blank or the slash, then keys   *)
(* and values in quotes.                                                   *)
ParseAttributes(text) ==
  LET Step(a, c) ==
        CASE a.mode = "key" /\ c = "=" ->
               [a EXCEPT !.mode = "keyed", !.key = Trim(a.part), !.part = <<>>]
          [] a.mode \in {"key", "value"} /\ c # (IF a.mode = "key" THEN "=" ELSE "\"") ->
               [a EXCEPT !.part = Append(@, c)]
          [] a.mode = "value" /\ c = "\"" ->
               (IF ~Leading(a.key, <<"xmlns", ":">>)
                THEN [a EXCEPT !.mode = "idle", !.attrs = Append(@, <<a.key, a.part>>)]
                ELSE [a EXCEPT !.mode = "idle",
                               !.known = IF Behind(a.key, ":") = Absent THEN @
                                         ELSE @ \cup {Behind(a.key, ":")}])
          [] a.mode = "keyed" /\ c = "\"" -> [a EXCEPT !.mode = "value", !.part = <<>>]
          [] a.mode = "idle" /\ c # Blank -> [a EXCEPT !.mode = "key", !.part = <<c>>]
          [] OTHER -> a
  IN  FoldLeft(Step, [mode |-> "idle", part |-> <<>>, key |-> <<>>, attrs |-> <<>>, known |-> {}], text)
ParseNode(x, text) ==
  LET ends == {k \in DOMAIN text : text[k] \in {Blank, "/"}} \cup {Len(text) + 1}
      read == ParseAttributes(SubSeq(text, Min(ends), Len(text)))
      y == [x EXCEPT !.known = @ \cup read.known, !.attrs = read.attrs]
  IN  [y EXCEPT !.tags = StackPush(@, CreateTag(y, SubSeq(text, 1, Min(ends) - 1)))]

(* Mutation: the end of a tag is compared without its namespace.           *)
CheckNodeBare(x) ==
  LET c == CleanLast(x)
      top == StackTop(c.tags, Unscoped)
  IN  IF Last(x.text) = "/" THEN XmlEvent(ParseNode(c, x.text), "single", <<>>)
      ELSE IF Head(x.text) # "/" THEN XmlEvent(ParseNode(c, x.text), "start", <<>>)
      ELSE IF c.tags # <<>> /\ top.name = Tail(x.text) THEN XmlEvent(c, "end", <<>>)
      ELSE [c EXCEPT !.error = TRUE]

(* ecxmlstream_checkNode: a single tag, the end of the tag that is open, or*)
(* a new one.                                                              *)
CheckNode(x) ==
  LET c == CleanLast(x)
      top == StackTop(c.tags, Unscoped)
      full == IF top.ns = Absent THEN top.name ELSE CatC(top.ns, ":", top.name)
  IN  IF Last(x.text) = "/" THEN XmlEvent(ParseNode(c, x.text), "single", <<>>)
      ELSE IF Head(x.text) # "/" THEN XmlEvent(ParseNode(c, x.text), "start", <<>>)
      ELSE IF c.tags # <<>> /\ full = Tail(x.text) THEN XmlEvent(c, "end", <<>>)
      ELSE [c EXCEPT !.error = TRUE]

(* ecxmlstream_do1 for the character at k: it looks ahead for what starts  *)
(* and ends a declaration and CDATA, and loses the character before the    *)
(* end of either.                                                          *)
XmlStep(x, s, k) ==
  LET c == s[k]
      Next(word) == SubSeq(s, k + 1, Min({k + Len(word), Len(s)})) = word
      value == Trim(x.text)
      kept == [x EXCEPT !.text = Append(@, c)]
  IN  CASE x.error -> x
        [] ~x.error /\ x.state = 0 /\ c = "<" ->
             (CASE Next(<<"?xml">>) -> [x EXCEPT !.state = 3]
                [] Next(<<"![CDATA[">>) -> [kept EXCEPT !.state = 2]
                [] OTHER -> IF value # <<>> THEN XmlEvent(CleanLast(x), "value", value)
                            ELSE [x EXCEPT !.state = 1, !.text = <<>>])
        [] ~x.error /\ x.state = 0 /\ c # "<" -> kept
        [] ~x.error /\ x.state = 1 ->
             (CASE c = "<" -> [x EXCEPT !.error = TRUE] [] c = ">" -> CheckNode(x) [] OTHER -> kept)
        [] ~x.error /\ x.state = 2 -> IF Next(<<"]", "]", ">">>) THEN [x EXCEPT !.state = 0] ELSE kept
        [] ~x.error /\ x.state = 3 -> IF Next(<<"?", ">">>) THEN [x EXCEPT !.state = 0] ELSE x
XmlRead(s) == CleanLast(FoldLeftDomain(LAMBDA x, k : XmlStep(x, s, k), XmlStart, s))

(* ecxmlstream_parseNodeValue behind event i: the last value before the end*)
(* of a tag of this name.                                                  *)
IsEnd(e, name) == e.type = "end" /\ e.name = name
ParseNodeValue(events, i, name) ==
  LET rest == SubSeq(events, i + 1, Len(events))
      n == SelectInSeq(rest, LAMBDA e : IsEnd(e, name))
      values == SelectSeq(SubSeq(rest, 1, n), LAMBDA e : e.type = "value")
  IN  IF events[i].type # "start" \/ values = <<>> THEN Absent ELSE Last(values).value

-----------------------------------------------------------------------------
(* The documents: up to two tags in the root, a value, a CDATA section or  *)
(* nothing in a tag, attributes with what has a meaning outside of them,   *)
(* and a namespace at the root or at a tag.                                *)
CData == <<"<", "![CDATA[", "x", "/", "]", "]", ">">>
XmlLeaves ==
  LET plain == {[NewTag(<<n>>) EXCEPT !.value = v] :
                  n \in {"a", "b"}, v \in {Absent, <<>>, <<Blank, "x", "/">>, CData}}
  IN  plain \cup {AddAttribute(t, <<"k">>, v) : t \in plain, v \in {<<>>, <<"/", Blank, "=", "k">>}}
XmlRoots ==
  LET bare == NewTag(<<"a">>)
  IN  {bare, AddAttribute(bare, <<"k">>, <<"x">>), SetNamespace(bare, <<"n">>, <<"u">>)}
Inside(kids, roots) == {[r EXCEPT !.tags = k] : k \in kids, r \in roots}
XmlDocuments ==
  LET few == {NewTag(<<"a">>), [NewTag(<<"b">>) EXCEPT !.value = <<"x">>],
              SetNamespace([NewTag(<<"b">>) EXCEPT !.value = <<"y">>], <<"m">>, <<"u">>)}
      pairs == {<<>>} \cup {<<t>> : t \in XmlLeaves} \cup {<<t, u>> : t \in few, u \in XmlLeaves}
      nested == Inside({<<t>> : t \in few}, {NewTag(<<"b">>), AddAttribute(NewTag(<<"a">>), <<"k">>, <<"/">>)})
  IN  Inside(pairs \cup {<<t, u>> : t \in nested, u \in nested \cup few}, XmlRoots)

(* What is to be read of a tag: its start, what is in it, its end; of a    *)
(* CDATA section its marks stay, and its last character goes.              *)
RECURSIVE Expected(_, _)
Expected(tag, outer) ==
  LET ns == IF tag.ns = Absent THEN outer ELSE tag.ns
      Of(type, value) ==
        [type |-> type, name |-> tag.name, ns |-> ns, value |-> value,
         attrs |-> IF type \in {"start", "single"}
                   THEN SelectSeq(tag.attrs, LAMBDA a : a[1][1] # "xmlns") ELSE <<>>]
      read == IF tag.value = CData THEN SubSeq(CData, 1, 3) \o SubSeq(CData, 5, 7) ELSE Trim(tag.value)
  IN  CASE tag.tags = <<>> /\ tag.value = Absent -> <<Of("single", <<>>)>>
        [] tag.tags = <<>> /\ tag.value # Absent ->
             <<Of("start", <<>>)>> \o (IF read = <<>> THEN <<>> ELSE <<Of("value", read)>>)
             \o <<Of("end", <<>>)>>
        [] OTHER -> FoldLeft(LAMBDA s, t : s \o Expected(t, ns), <<Of("start", <<>>)>>, tag.tags)
                    \o <<Of("end", <<>>)>>

(* The stream gives the tags of a written document in their order, each    *)
(* with its end, its namespace and its own attributes; every tag that was  *)
(* pushed is popped, and the value of a tag is found behind its start.  The*)
(* end of the declaration comes first, as a value that is in no tag.       *)
XmlEvents(x, wanted) ==
  /\ ~x.error /\ x.tags = <<>>
  /\ Len(x.events) = Len(wanted) + 1
  /\ x.events[1].type = "value" /\ x.events[1].value = <<"?", ">">>
  /\ Tail(x.events) = wanted
  /\ \A k \in 2 .. Len(x.events) - 1 :
       /\ x.events[k].type = "start" /\ x.events[k + 1].type = "value"
       => ParseNodeValue(x.events, k, x.events[k].name) = x.events[k + 1].value
XmlReturns(tag) == XmlEvents(XmlRead(XmlBuffer(tag)), Expected(tag, Absent))
=============================================================================
