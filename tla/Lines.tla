-------------------------------- MODULE Lines -------------------------------
(***************************************************************************)
(* The stream buffer of src/entc/utils/ecstreambuffer.c as the HTTP reader *)
(* (tools/echttp.c) uses it: lines up to an empty one, then the body.  The *)
(* peer's text arrives in pieces of any length.  A text is a sequence of   *)
(* the tokens CR, LF and Char.  The line parser of tools/eclparser.c is at *)
(* the end.                                                                *)
(***************************************************************************)
EXTENDS Integers, Sequences, SequencesExt

CONSTANTS
  NBuffer,   \* what one refill may bring (1022 in the code)
  NMaxText   \* bound on the text the peer sends

ASSUME LineConstants == NBuffer \in Nat \ {0} /\ NMaxText \in Nat

VARIABLES
  nbuf, npos,   \* the bytes of the last refill and "pos"
  ntext,        \* what the peer sent so far
  nb1, nb2,     \* the line breaks that were learned, NUL before
  nbreak,       \* hasBreak1: the first of two breaks was read
  nline, nlines,\* the line that is being read and those before
  nbody, nstart \* the body, and where it starts; -1 in the head

lineVars == <<nbuf, npos, ntext, nb1, nb2, nbreak, nline, nlines, nbody, nstart>>

CR == "\r"
LF == "\n"
Char == "x"
NUL == "0"
Breaks == {CR, LF}
Pieces == UNION {[1 .. k -> {CR, LF, Char}] : k \in 1 .. NBuffer}

LineInit ==
  /\ nbuf = <<>> /\ npos = 1 /\ ntext = <<>>
  /\ nb1 = NUL /\ nb2 = NUL /\ nbreak = FALSE
  /\ nline = <<>> /\ nlines = <<>> /\ nbody = <<>> /\ nstart = -1

(* ecstreambuffer_next: one further, onto the termination behind the last  *)
(* byte too; from there the buffer is filled again.                        *)
AtEnd == npos > Len(nbuf)
Step(piece) ==
  IF AtEnd THEN [buf |-> piece, pos |-> 1] ELSE [buf |-> nbuf, pos |-> npos + 1]
CharAt(w) == IF w.pos > Len(w.buf) THEN NUL ELSE w.buf[w.pos]
Fills == IF AtEnd THEN {p \in Pieces : Len(ntext) + Len(p) <= NMaxText} ELSE {<<>>}

(* A line is used as a C string: it is empty when it starts with the NUL.  *)
LineEnds ==
  /\ nlines' = Append(nlines, nline)
  /\ nline' = <<>> /\ nbreak' = FALSE

(* One character in ecstreambuffer_readln_getbreaks, _1break, _2breaks.    *)
GetBreaks(c) ==
  IF nbreak
  THEN /\ LineEnds
       /\ IF c # nb1 /\ c \in Breaks THEN nb2' = c ELSE UNCHANGED nb2
       /\ UNCHANGED nb1
  ELSE /\ IF c \in Breaks THEN nb1' = c /\ nbreak' = TRUE /\ UNCHANGED nline
          ELSE nline' = Append(nline, c) /\ UNCHANGED <<nb1, nbreak>>
       /\ UNCHANGED <<nb2, nlines>>

OneBreak(c) ==
  /\ IF c \in Breaks THEN LineEnds ELSE nline' = Append(nline, c) /\ UNCHANGED <<nlines, nbreak>>
  /\ UNCHANGED <<nb1, nb2>>

TwoBreaks(c) ==
  /\ IF nbreak \/ (c \in Breaks /\ c # nb1) THEN LineEnds
     ELSE IF c = nb1 THEN nbreak' = TRUE /\ UNCHANGED <<nline, nlines>>
     ELSE nline' = Append(nline, c) /\ UNCHANGED <<nlines, nbreak>>
  /\ UNCHANGED <<nb1, nb2>>

(* Mutation: nothing is given back.                                        *)
GivesNothing(c) == c \notin {CR, LF, Char, NUL}

(* What was read behind the first break and is not the second one is given *)
(* back: "pos" steps back.                                                 *)
GivesBack(c) ==
  nbreak /\ IF nb1 # NUL /\ nb2 # NUL THEN c # nb2 ELSE c = nb1 \/ c \notin Breaks

HeadDone == nlines # <<>> /\ \A k \in DOMAIN Last(nlines) : k = 1 => Last(nlines)[k] = NUL

(* ecstreambuffer_readln, one character.                                   *)
ReadLine ==
  /\ nstart = -1 /\ ~HeadDone
  /\ \E piece \in Fills :
       LET w == Step(piece)
           c == CharAt(w)
       IN  /\ nbuf' = w.buf
           /\ npos' = IF GivesBack(c) THEN w.pos - 1 ELSE w.pos
           /\ ntext' = ntext \o (IF AtEnd THEN piece ELSE <<>>)
           \* while a first break is pending in getbreaks, nb1 is set and nb2 is not
           /\ IF nb1 # NUL /\ nb2 # NUL THEN TwoBreaks(c)
              ELSE IF nb1 # NUL /\ ~nbreak THEN OneBreak(c)
              ELSE GetBreaks(c)
  /\ UNCHANGED <<nbody, nstart>>

(* What was consumed of the text.                                          *)
Consumed == Len(ntext) - (IF AtEnd THEN 0 ELSE Len(nbuf) - npos)

(* echttp_parse_header behind the empty line: one step onto the body.      *)
BodyStarts ==
  /\ nstart = -1 /\ HeadDone
  /\ \E piece \in Fills :
       /\ nbuf' = Step(piece).buf /\ npos' = Step(piece).pos
       /\ ntext' = ntext \o (IF AtEnd THEN piece ELSE <<>>)
  /\ nstart' = Consumed
  /\ UNCHANGED <<nb1, nb2, nbreak, nline, nlines, nbody>>

(* ecstreambuffer_filled and getBunch, of at most "size" bytes.            *)
GetBunch(size) ==
  /\ nstart # -1
  /\ \E piece \in Fills :
       LET buf == IF AtEnd THEN piece ELSE nbuf
           pos == IF AtEnd THEN 1 ELSE npos
           upto == IF Len(buf) - pos + 1 < size THEN Len(buf) ELSE pos + size - 1
       IN  /\ nbuf' = buf /\ npos' = upto + 1
           /\ nbody' = nbody \o SubSeq(buf, pos, upto)
           /\ ntext' = ntext \o (IF AtEnd THEN piece ELSE <<>>)
  /\ UNCHANGED <<nb1, nb2, nbreak, nline, nlines, nstart>>

LineNext == ReadLine \/ BodyStarts \/ \E size \in 1 .. NBuffer : GetBunch(size)

-----------------------------------------------------------------------------
(* However the text is cut into pieces and whichever breaks it uses: the   *)
(* lines, without the NULs that the ends of the pieces leave in them, have *)
(* every character of the head once and in order, no line holds characters *)
(* of two lines of the text, and the body is the text behind the head.     *)
LinesKeepText ==
  LET Chars(s) == SelectSeq(s, LAMBDA c : c = Char)
      head == SubSeq(ntext, 1, IF nstart = -1 THEN Consumed ELSE nstart)
      read == FlattenSeq(nlines) \o nline
      Lengths(s) == SelectSeq([k \in DOMAIN s |-> Len(Chars(s[k]))], LAMBDA n : n > 0)
      split[k \in 0 .. Len(head)] ==
        IF k = 0 THEN <<<<>>>>
        ELSE IF head[k] \in Breaks THEN Append(split[k - 1], <<>>)
        ELSE Front(split[k - 1]) \o <<Append(Last(split[k - 1]), head[k])>>
  IN  /\ Chars(read) = Chars(head)
      /\ Lengths(Append(nlines, nline)) = Lengths(split[Len(head)])
      /\ nstart # -1 => nbody = SubSeq(ntext, nstart + 1, nstart + Len(nbody))

-----------------------------------------------------------------------------
(* EcLineParser (src/entc/tools/eclparser.c) takes a text apart that comes *)
(* in pieces: a line is recorded when the first character behind its break *)
(* comes, or at the end.  A line without characters is recorded as NULL,   *)
(* that is <<>> here.                                                      *)
CharR == "r"
CharN == "n"
LineCharacters == {CharR, CharN, "x", "y"}

(* eclineparser_create.                                                    *)
ParserNew == [state |-> "text", text |-> <<>>, lines |-> <<>>]

(* eclineparser_recordLineBreak.                                           *)
Record(p) == [p EXCEPT !.lines = Append(@, p.text), !.text = <<>>]

(* Mutation: a break of two characters is recorded twice.                  *)
ParseTwice(p, c) ==
  CASE c \in {CharR, CharN} -> [(IF p.state = "text" THEN p ELSE Record(p)) EXCEPT !.state = c]
    [] OTHER -> [(IF p.state = "text" THEN p ELSE Record(p)) EXCEPT !.state = "text", !.text = Append(@, c)]

(* eclineparser_parse, one character: a break of two is one.               *)
Parse(p, c) ==
  CASE c = CharN /\ p.state = CharR -> [p EXCEPT !.state = CharN]
    [] c \in {CharR, CharN} -> [(IF p.state = "text" THEN p ELSE Record(p)) EXCEPT !.state = c]
    [] OTHER -> [(IF p.state = "text" THEN p ELSE Record(p)) EXCEPT !.state = "text", !.text = Append(@, c)]

(* eclineparser_done: the line that is open, and the empty one behind a    *)
(* last break.                                                             *)
ParserDone(p) == IF p.state = "text" THEN Record(p) ELSE Record(Record(p))

ParsedLines(text) == ParserDone(FoldLeft(Parse, ParserNew, text)).lines

-----------------------------------------------------------------------------
(* The lines are what is between the breaks, each once and in order, where *)
(* CR LF is one break and every other CR or LF is one: nothing of the text *)
(* is lost, whatever the order of the breaks.                              *)
LinesAreBetweenBreaks(text) ==
  LET breaks == {k \in DOMAIN text :
                   text[k] = CharN \/ (text[k] = CharR /\ (k = Len(text) \/ text[k + 1] # CharN))}
      ends == SetToSortSeq(breaks \cup {Len(text) + 1}, <)
      line(i) == LET from == IF i = 1 THEN 1 ELSE ends[i - 1] + 1
                     part == SubSeq(text, from, ends[i] - 1)
                 IN  SelectSeq(part, LAMBDA c : c \notin {CharR, CharN})
  IN  ParsedLines(text) = [i \in DOMAIN ends |-> line(i)]
=============================================================================
