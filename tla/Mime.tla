-------------------------------- MODULE Mime --------------------------------
(***************************************************************************)
(* The multipart messages of src/entc/tools/ecmime.c: EcMultipart gives a  *)
(* message out in buffers, EcMultipartParser takes one apart that comes in *)
(* chunks of any size.  The two are put together by a byte stream.  The    *)
(* header lines of a part stand as one line "h:" and the kind of the part. *)
(***************************************************************************)
EXTENDS HttpText

CONSTANTS
  EBuffer,     \* size of the sender's buffer
  EChunk,      \* the most the receiver reads at once (100 in the code)
  ESections    \* the messages: sequences of sections <<kind, text>>

ASSUME MimeConstants == EBuffer \in Nat /\ EBuffer > 4 /\ EChunk \in Nat \ {0}

VARIABLES
  esections, eheader,   \* the message; whether it starts with a header
  esender, ewire,       \* the sender, the bytes on their way
  eparser               \* the receiver

mimeVars == <<esections, eheader, esender, ewire, eparser>>

CR == "\r"
LF == "\n"
Break == <<CR, LF>>
Smallest(a, b) == IF a < b THEN a ELSE b
Mapped(seq, Op(_)) == [k \in DOMAIN seq |-> Op(seq[k])]
Boundary == <<"-", "-", "B">>

-----------------------------------------------------------------------------
(* The sender.  ecmultipart_next fills a buffer for its state, gives it out*)
(* piece by piece, and goes to the next state when it is empty             *)
(* (ecmultipart_handleBuffer).  A file's section says how many bytes it    *)
(* has, or that it cannot be opened.                                       *)
Gone == -1
SenderNew == [state |-> "NEXTITEM", buffer |-> Absent, item |-> 0, left |-> Gone, out |-> <<>>]
HandleBuffer(s, text, next) ==
  LET rest == IF s.buffer = Absent THEN text ELSE s.buffer
      min == Smallest(EBuffer, Len(rest))
  IN  IF min = 0 THEN [s EXCEPT !.buffer = Absent, !.state = next]
      ELSE [s EXCEPT !.buffer = SubSeq(rest, min + 1, Len(rest)), !.out = SubSeq(rest, 1, min)]

PartHead(kind) == Boundary \o Break \o <<"h", ":", kind>> \o Break \o Break

(* The file's bytes, bunch by bunch; a bunch is encoded as long as the     *)
(* buffer allows, whatever was read of it: "F" stands for a character of   *)
(* three bytes of the file, "j" for one with junk.                         *)
EncodedBunch(read) ==
  LET groups == ((EBuffer - 1) \div 4)
  IN  FlattenSeq([g \in 1 .. groups |-> [k \in 1 .. 4 |-> IF 3 * g <= read THEN "F" ELSE "j"]])
NextFile(s) ==
  LET read == Smallest(((EBuffer - 1) \div 4) * 3, s.left)
      size == esections[s.item][2]
  IN  IF s.left = Gone
      THEN IF size = Gone THEN [s EXCEPT !.state = "NEXTITEM"]
           ELSE HandleBuffer([s EXCEPT !.left = size], PartHead("f"), "FILE")
      ELSE IF s.buffer # Absent THEN HandleBuffer(s, <<>>, "FILE")
      ELSE IF read = 0 THEN [s EXCEPT !.state = "FILE_EOF", !.left = Gone]
      ELSE [s EXCEPT !.out = EncodedBunch(read), !.left = @ - read]

SenderStep(s) ==
  LET section == esections[s.item]
      state == [TEXT |-> "TEXT", FILE |-> "FILE", NODE |-> "NODE", NAME |-> "NODE"]
  IN  CASE s.state = "BEGIN" -> HandleBuffer(s, <<"v">> \o Break \o <<"h", ":", "m">> \o Break \o Break, "NEXTITEM")
        [] s.state = "NEXTITEM" ->
             IF s.item = Len(esections) THEN [s EXCEPT !.state = "END"]
             ELSE [s EXCEPT !.item = @ + 1, !.state = state[esections[s.item + 1][1]]]
        [] s.state \in {"TEXT", "NODE"} ->
             HandleBuffer(s, PartHead(IF section[1] = "NAME" THEN "n" ELSE "t") \o section[2] \o Break, "NEXTITEM")
        [] s.state = "FILE" -> NextFile(s)
        [] s.state = "FILE_EOF" -> HandleBuffer(s, Break, "NEXTITEM")
        [] s.state = "END" -> HandleBuffer(s, Boundary \o <<"-", "-">>, "TERM")
        [] OTHER -> s

(* One call: as many states as it takes until there is something.          *)
MimeNext(s) ==
  FoldLeft(LAMBDA t, k : IF t.out # <<>> THEN t ELSE SenderStep(t),
           [s EXCEPT !.out = <<>>], [k \in 1 .. 2 * Len(esections) + 4 |-> k])

-----------------------------------------------------------------------------
(* The receiver.  ecmultipartparser_create.                                *)
ParserCreate ==
  [state |-> 0, kind |-> 0, line |-> <<>>, content |-> Absent, break |-> FALSE,
   params |-> <<>>, parts |-> <<>>]
LineBreak(kind) == CASE kind = 1 -> <<CR>> [] kind = 2 -> <<LF>> [] kind = 3 -> Break [] OTHER -> <<>>

(* Mutation: the break behind the last line stays marked.                  *)
IsBoundaryKeeps(p, add) ==
  IF Len(p.line) \in 3 .. 6 /\ Leading(p.line, Boundary)
  THEN [p EXCEPT !.parts = Append(@, <<p.content, p.params>>), !.content = Absent, !.params = <<>>]
  ELSE IF add
  THEN [p EXCEPT !.content = @ \o (IF p.break THEN LineBreak(p.kind) ELSE <<>>) \o p.line, !.break = TRUE]
  ELSE p

(* ecmultipartparser_isBoundary: a line about as long as the boundary that *)
(* starts like it ends the part (echttp_content_add).                      *)
IsBoundary(p, add) ==
  IF Len(p.line) \in 3 .. 6 /\ Leading(p.line, Boundary)
  THEN [p EXCEPT !.parts = Append(@, <<p.content, p.params>>), !.content = Absent,
                 !.params = <<>>, !.break = FALSE]
  ELSE IF add
  THEN [p EXCEPT !.content = @ \o (IF p.break THEN LineBreak(p.kind) ELSE <<>>) \o p.line, !.break = TRUE]
  ELSE p

(* ecmultipartparser_line.                                                 *)
ParserLine(p) ==
  LET param == ParseParam(p.line)
      read == IF p.content # Absent THEN IsBoundary(p, TRUE)
              ELSE IF p.line = <<>> THEN [p EXCEPT !.content = <<>>]
              ELSE IF param = Absent THEN p ELSE [p EXCEPT !.params = Append(@, param)]
  IN  [read EXCEPT !.line = <<>>]

(* ecmultipartparser_state0, 1 and 2 on one character; "pending" is what   *)
(* state 1 has passed and not yet put into the line, "off" that the rest of*)
(* the chunk is dropped.                                                   *)
State1(r, c) ==
  LET p == [r.p EXCEPT !.line = @ \o r.pending]
  IN  IF (r.p.kind = 2 /\ c = LF) \/ (r.p.kind = 1 /\ c = CR) THEN [p |-> ParserLine(p), pending |-> <<>>, off |-> FALSE]
      ELSE IF r.p.kind = 3 /\ c = CR THEN [p |-> [p EXCEPT !.state = 2], pending |-> <<>>, off |-> FALSE]
      ELSE IF r.p.content = Absent /\ c \in {CR, LF} THEN [r EXCEPT !.off = TRUE]
      ELSE [r EXCEPT !.pending = Append(@, c)]
State0(r, c) ==
  LET kind == r.p.kind
  IN  IF c \notin {CR, LF}
      THEN IF kind = 0 THEN r ELSE State1([r EXCEPT !.p.line = <<>>, !.p.state = 1], c)
      ELSE IF c = CR /\ kind = 0 THEN [r EXCEPT !.p.kind = 1]
      ELSE IF c = LF /\ kind \in {0, 1} THEN [r EXCEPT !.p.kind = kind + 2]
      ELSE [r EXCEPT !.off = TRUE]
State2(r, c) ==
  IF c = LF THEN [r EXCEPT !.p = ParserLine([r.p EXCEPT !.state = 1])]
  ELSE IF r.p.content = Absent THEN [r EXCEPT !.off = TRUE]
  ELSE State1([r EXCEPT !.p.line = Append(@, CR), !.p.state = 1], c)

(* ecmultipartparser_processBuffer; at the end of a chunk the line that is *)
(* not complete may be taken for a boundary already.                       *)
ProcessBuffer(p, chunk) ==
  LET Step(r, c) ==
        CASE r.off -> r [] r.p.state = 0 -> State0(r, c) [] r.p.state = 1 -> State1(r, c)
          [] OTHER -> State2(r, c)
      read == FoldLeft(Step, [p |-> p, pending |-> <<>>, off |-> FALSE], chunk)
      left == [read.p EXCEPT !.line = @ \o read.pending]
  IN  IF read.off \/ left.state # 1 THEN read.p
      ELSE IF left.content = Absent THEN left ELSE IsBoundary(left, FALSE)

-----------------------------------------------------------------------------
MimeInit ==
  /\ esections \in ESections /\ eheader \in BOOLEAN
  /\ esender = [SenderNew EXCEPT !.state = IF eheader THEN "BEGIN" ELSE "NEXTITEM"]
  /\ ewire = <<>> /\ eparser = ParserCreate

MimeSend ==
  /\ esender.state # "TERM"
  /\ esender' = MimeNext(esender)
  /\ ewire' = ewire \o esender'.out
  /\ UNCHANGED <<esections, eheader, eparser>>

(* ecmultipartparser_process.                                              *)
MimeRead ==
  /\ esender.state = "TERM" /\ ewire # <<>>
  /\ \E n \in 1 .. Smallest(EChunk, Len(ewire)) :
       /\ eparser' = ProcessBuffer(eparser, SubSeq(ewire, 1, n))
       /\ ewire' = SubSeq(ewire, n + 1, Len(ewire))
  /\ UNCHANGED <<esections, eheader, esender>>

MimeStepNext == MimeSend \/ MimeRead

-----------------------------------------------------------------------------
(* What a section becomes as a part.  A text with a line that starts like  *)
(* the boundary may end its part early.                                    *)
LookAlike(text) == \E k \in DOMAIN text : text[k] = "-" /\ (k = 1 \/ text[k - 1] = LF)
ExpectedFile(size) ==
  LET bunch == ((EBuffer - 1) \div 4) * 3
      full == size \div 3
      groups == ((size + bunch - 1) \div bunch) * (bunch \div 3)
  IN  [k \in 1 .. 4 * groups |-> IF k <= 4 * full THEN "F" ELSE "j"]
IsSent(section) == section[1] = "FILE" => section[2] # Gone
ExpectedPart(section) ==
  LET sent == CASE section[1] = "FILE" -> ExpectedFile(section[2]) [] OTHER -> section[2]
      kind == CASE section[1] = "FILE" -> "f" [] section[1] = "NAME" -> "n" [] OTHER -> "t"
  IN  <<sent, <<<<<<"h">>, <<kind>>>>>>>>
ExpectedParts ==
  LET sent == SelectSeq(esections, IsSent)
      head == IF eheader THEN <<<<<<>>, <<<<<<"h">>, <<"m">>>>>>>>>> ELSE <<>>
  IN  head \o Mapped(sent, ExpectedPart)

(* The parts come out of the receiver as they were put into the sender, in *)
(* their order, whatever the buffers and chunks are: all of them that are  *)
(* before the first text that looks like a boundary, and when there is no  *)
(* such text, nothing else.  A message with a header starts with an empty  *)
(* part; a file is followed by junk up to the end of its last bunch.       *)
MimeArrives ==
  LET good == SelectInSeq(SelectSeq(esections, IsSent),
                          LAMBDA s : s[1] # "FILE" /\ LookAlike(s[2]))
      sure == IF good = 0 THEN Len(ExpectedParts) ELSE good - 1 + (IF eheader THEN 1 ELSE 0)
      parts == eparser.parts
  IN  /\ \A k \in 1 .. Smallest(sure, Len(parts)) : parts[k] = ExpectedParts[k]
      /\ good = 0 => Len(parts) <= sure
      /\ esender.state = "TERM" /\ ewire = <<>> => Len(parts) >= sure
=============================================================================
