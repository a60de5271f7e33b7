------------------------------ MODULE HttpText ------------------------------
(***************************************************************************)
(* What src/entc/tools/echttp.c makes of the text of a request: escaped    *)
(* characters, the first line, the url, the cookies and the parameters.    *)
(* A text is a sequence of characters, NULL is Absent (Strings).           *)
(***************************************************************************)
EXTENDS Strings

Digit == <<"0", "1", "2", "3", "4", "5", "6", "7">>
Escapable == <<" ", "!", "\"", "#", "$", "%", "&", "'">>   \* the codes 0x20 to 0x27
HttpCharacters == {" ", "\"", "%", "&", "=", "/", "?", "a", "2", "5"}

(* The codes of the characters; what x2c gives may be none of them.        *)
Unknown == "unknown"
Code(c) ==
  CASE c \in ToSet(Escapable) -> 31 + Pos(Escapable, c)
    [] c \in ToSet(Digit) -> 47 + Pos(Digit, c)
    [] c = "/" -> 47 [] c = "=" -> 61 [] c = "?" -> 63 [] c = "a" -> 97
    [] OTHER -> 0   \* the termination
CharOf(n) ==
  CASE n \in 32 .. 39 -> Escapable[n - 31]
    [] n \in 48 .. 55 -> Digit[n - 47]
    [] n = 47 -> "/" [] n = 61 -> "=" [] n = 63 -> "?" [] n = 97 -> "a"
    [] OTHER -> Unknown

(* x2c: two digits of the base 16, in a char.                              *)
X2C(a, b) ==
  LET value(n) == IF n >= 65 THEN (n % 32) + 9 ELSE n - 48
  IN  CharOf((16 * value(Code(a)) + value(Code(b))) % 256)

(* echttp_escape and echttp_escape_stream.                                 *)
Escape(s) ==
  FlattenSeq([k \in DOMAIN s |->
    IF s[k] \in ToSet(Escapable) THEN <<"%", "2", Digit[Pos(Escapable, s[k])]>> ELSE <<s[k]>>])

(* Mutation: only one of the digits is left out.                           *)
UnescapeAgain(s) ==
  LET replaced[x \in 0 .. Len(s)] ==
        IF x = 0 THEN Append(s, "NUL")
        ELSE LET t == replaced[x - 1]
             IN  IF t[x] = "%" /\ x + 2 <= Len(t) THEN [t EXCEPT ![x + 1] = X2C(t[x + 1], t[x + 2])] ELSE t
      t == replaced[Len(s)]
      moved[y \in 1 .. Len(s) + 3] ==
        IF y > Len(s) THEN <<>>
        ELSE IF t[y] = "%" THEN <<t[y + 1]>> \o moved[y + 2] ELSE <<t[y]>> \o moved[y + 1]
  IN  moved[1]

(* echttp_unescape: the character is put behind its % first, then the text *)
(* is moved together.  A % has its two digits, or the code reads behind the*)
(* text.                                                                   *)
Unescape(s) ==
  LET replaced[x \in 0 .. Len(s)] ==
        IF x = 0 THEN Append(s, "NUL")
        ELSE LET t == replaced[x - 1]
             IN  IF t[x] = "%" /\ x + 2 <= Len(t) THEN [t EXCEPT ![x + 1] = X2C(t[x + 1], t[x + 2])] ELSE t
      t == replaced[Len(s)]
      moved[y \in 1 .. Len(s) + 3] ==
        IF y > Len(s) THEN <<>>
        ELSE IF t[y] = "%" THEN <<t[y + 1]>> \o moved[y + 3] ELSE <<t[y]>> \o moved[y + 1]
  IN  moved[1]

(* echttp_parse_method: a line that has a method but no second blank leaves*)
(* the method and fails.                                                   *)
ParseMethod(line) ==
  LET rest == Behind(line, " ")
  IN  IF line = <<>> \/ rest = Absent THEN [ok |-> FALSE, method |-> Absent, url |-> Absent]
      ELSE IF Behind(rest, " ") = Absent THEN [ok |-> FALSE, method |-> Before(line, " "), url |-> Absent]
      ELSE [ok |-> TRUE, method |-> Before(line, " "), url |-> Before(rest, " ")]

(* echttp_header_trimurl: the host of a complete url goes with its slashes.*)
TrimUrl(s) ==
  LET rest == SubSeq(s, 3, Len(s))
      path == IF Len(s) >= 2 /\ s[1] = "/" /\ s[2] = "/" /\ Pos(rest, "/") # 0
              THEN SubSeq(rest, Pos(rest, "/"), Len(rest)) ELSE s
  IN  TrimC(Unescape(path), "/")

(* echttp_header_validate.                                                 *)
Index == <<"index.html">>
RequestUrl(url) == IF url \in {Absent, <<>>} THEN Index ELSE TrimUrl(Before(url, "?"))
RequestParams(url) == IF url \in {Absent, <<>>} THEN Absent ELSE Behind(url, "?")

(* echttp_header_title: the parts of the request url, that was unescaped   *)
(* already, unescaped once more.                                           *)
UrlTokens(request) == Tokens(Unescape(request), "/")

(* echttp_url_lastPart.                                                    *)
UrlLastPart(s) == SubSeq(s, LastPos(s, "/") + 1, Len(s))

(* echttp_parse_auth: the type and what is behind the blank.               *)
ParseAuth(s) == IF Pos(s, " ") = 0 THEN Absent ELSE <<Before(s, " "), Behind(s, " ")>>

(* echttpheader_parseParam (ecmime.c), without the upper case of the key.  *)
ParseParam(line) ==
  IF Pos(line, ":") = 0 THEN Absent ELSE <<Trim(Before(line, ":")), Trim(Behind(line, ":"))>>

(* echttpheader_parseLine (ecmime.c): the value of the first key that fits.*)
ParseLine(line, key) ==
  LET fits == SelectSeq(Tokens(line, ";"),
                        LAMBDA t : Pos(Trim(t), "=") # 0 /\ Before(Trim(t), "=") = key)
  IN  IF fits = <<>> THEN Absent ELSE TrimC(Behind(Trim(Head(fits)), "="), "\"")

(* echttp_parse_cookies: the last token that has the session's name sets   *)
(* the session and the language; it is the name, one character and the     *)
(* value, at its beginning here.                                           *)
Session == "session"
Cookies(line, old) ==
  FoldLeft(LAMBDA h, t :
             LET value == SubSeq(t, 3, Len(t))
             IN  IF t[1] = Session /\ Pos(value, "-") # 0
                 THEN [id |-> Before(value, "-"), lang |-> Behind(value, "-")] ELSE h,
           old, Tokens(line, ";"))

(* echttp_getParams: key and value of every part that has both; a value    *)
(* loses the quotes around it.                                             *)
Params(query) ==
  LET parts == SelectSeq(Tokens(query, "&"), LAMBDA t : Pos(t, "=") # 0)
  IN  [k \in DOMAIN parts |->
         <<Before(parts[k], "="), TrimC(Unescape(Behind(parts[k], "=")), "\"")>>]

-----------------------------------------------------------------------------
(* The text of a request arrives as it was sent (text is any text).        *)
(*   - What was escaped is read again, whatever is in it, and the query    *)
(*     that was built of escaped values gives the values.                  *)
(*   - A first line gives the url that is in it, of which every part is    *)
(*     either in the request url or in the parameters.                     *)
(*   - A cookie gives the session and the language that were put into it.   *)
(*   - The request url neither starts nor ends with a slash, and the parts *)
(*     of one without escapes are the runs between its slashes.            *)
HttpTextKept(text) ==
  LET request == <<"a", " ">> \o Escape(text) \o <<" ", "a">>
      url == ParseMethod(request).url
      query == <<"a", "=">> \o Escape(text) \o <<"&", "5", "=">> \o Escape(Reverse(text))
  IN  /\ Unescape(Escape(text)) = text
      /\ Params(query) = <<<<<<"a">>, TrimC(text, "\"")>>, <<<<"5">>, TrimC(Reverse(text), "\"")>>>>
      /\ ParseMethod(request).ok /\ url = Escape(text)
      /\ url # <<>> => LET r == RequestUrl(url)
                       IN  r # <<>> => r[1] # "/" /\ Last(r) # "/"
      /\ "?" \in ToSet(text) => RequestParams(url) = Behind(Escape(text), "?")
      /\ ToSet(text) \cap {"%", "?", " ", "\"", "&"} = {} /\ text # <<>> /\ Head(text) # "/" =>
           UrlTokens(RequestUrl(text)) = Tokens(text, "/")
      /\ Cookies(<<"a", "=", ";", Session, "=">> \o text \o <<"-", "5", ";", "a">>, Absent)
           = [id |-> text, lang |-> <<"5">>]
      /\ UrlLastPart(text) # <<>> => UrlLastPart(text) = Last(Tokens(text, "/"))
=============================================================================
