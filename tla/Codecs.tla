------------------------------- MODULE Codecs -------------------------------
(***************************************************************************)
(* The transcriptions of src/entc/types/ecbuffer.c: base64, hexadecimal,   *)
(* the blocks of SHA-1 and the lines of a buffer.  A program builds a      *)
(* message byte by byte; a byte has CBase^4 values (256 in the code, where *)
(* CBase is 4) and a base64 character CBase^3.                             *)
(***************************************************************************)
EXTENDS Strings

CONSTANTS
  CBase,      \* 4 in the code
  CBytes,     \* the bytes a message is made of
  CMaxBytes,  \* bound on the message
  CIndex,     \* the values of a uint8_t (256 in the code)
  CBlock, CLength  \* bytes of a SHA-1 block (64) and of the length in it (8)

ASSUME CodecConstants ==
  /\ CBase \in Nat \ {0, 1} /\ CBytes \subseteq 0 .. CBase * CBase * CBase * CBase - 1
  /\ CMaxBytes \in Nat /\ CIndex \in Nat \ {0}
  /\ CLength \in 1 .. CBlock - 1

VARIABLE cmsg

codecVars == <<cmsg>>

B2 == CBase * CBase
B3 == B2 * CBase
Padding == -1    \* '='

CodecInit == cmsg = <<>>
CodecNext == Len(cmsg) < CMaxBytes /\ \E b \in CBytes : cmsg' = Append(cmsg, b)

-----------------------------------------------------------------------------
(* ecbuf_encode_base64_len, with the termination.                          *)
EncodeLen(n) == ((n + 2) \div 3) * 4 + 1

(* ecbuf_encode_base64 and _d: three bytes become four characters, the rest*)
(* of one or two is padded.                                                *)
Encode64(s) ==
  LET l == Len(s)
      Two(i) == <<s[i] \div CBase, (s[i] % CBase) * B2>>
      from[i \in 1 .. l + 3] ==
        IF i <= l - 2
        THEN <<s[i] \div CBase,
               (s[i] % CBase) * B2 + s[i + 1] \div B2,
               (s[i + 1] % B2) * CBase + s[i + 2] \div B3,
               s[i + 2] % B3>> \o from[i + 3]
        ELSE IF i = l THEN Two(i) \o <<Padding, Padding>>
        ELSE IF i < l
        THEN <<s[i] \div CBase, (s[i] % CBase) * B2 + s[i + 1] \div B2,
               (s[i + 1] % B2) * CBase, Padding>>
        ELSE <<>>
  IN  from[1]

(* Mutation: a full last group is taken for a padded one.                  *)
Decode64Short(t) ==
  LET pad == SelectInSeq(t, LAMBDA c : c = Padding)
      n == IF pad = 0 THEN Len(t) ELSE pad - 1
      Of(i, k) == CASE k = 0 -> t[i] * CBase + t[i + 1] \div B2
                    [] k = 1 -> (t[i + 1] % B2) * B2 + t[i + 2] \div CBase
                    [] k = 2 -> (t[i + 2] % CBase) * B3 + t[i + 3]
      from[i \in 1 .. n + 4] ==
        IF n - i + 1 > 4 THEN <<Of(i, 0), Of(i, 1), Of(i, 2)>> \o from[i + 4]
        ELSE [k \in 1 .. IF n - i + 1 > 1 THEN ((n - i + 1) % 4) - 1 ELSE 0 |-> Of(i, k - 1)]
  IN  from[1]

(* ecbuf_decode_base64: up to the first character that is not of the       *)
(* alphabet; groups of four as long as more than four are left, then one   *)
(* byte less than characters.                                              *)
Decode64(t) ==
  LET pad == SelectInSeq(t, LAMBDA c : c = Padding)
      n == IF pad = 0 THEN Len(t) ELSE pad - 1
      Of(i, k) == CASE k = 0 -> t[i] * CBase + t[i + 1] \div B2
                    [] k = 1 -> (t[i + 1] % B2) * B2 + t[i + 2] \div CBase
                    [] k = 2 -> (t[i + 2] % CBase) * B3 + t[i + 3]
      from[i \in 1 .. n + 4] ==
        IF n - i + 1 > 4 THEN <<Of(i, 0), Of(i, 1), Of(i, 2)>> \o from[i + 4]
        ELSE [k \in 1 .. IF n - i + 1 > 1 THEN n - i ELSE 0 |-> Of(i, k - 1)]
  IN  from[1]

(* The size it gives the result.                                           *)
DecodedSize(n) == ((n + 3) \div 4) * 3 - ((4 - (IF n = 0 THEN 0 ELSE ((n - 1) % 4) + 1)) % 4)

(* ecbuf_encode_base64_calculateSize: how many bytes to encode at a time so*)
(* that they fit into "max".                                               *)
BunchSize(max) == ((max - 1) \div 4) * 3

(* A message that is encoded bunch by bunch, every bunch but the last full.*)
EncodeBunches(s, max) ==
  LET n == BunchSize(max)
      of[k \in 0 .. Len(s)] ==
        IF k * n >= Len(s) THEN <<>>
        ELSE Encode64(SubSeq(s, k * n + 1, IF (k + 1) * n < Len(s) THEN (k + 1) * n ELSE Len(s)))
             \o of[k + 1]
  IN  of[0]

-----------------------------------------------------------------------------
(* ecbuf_bin2hex; the buffer has one byte more, 0.                         *)
Bin2Hex(s) ==
  [i \in 1 .. 2 * Len(s) |-> LET b == s[(i + 1) \div 2] IN IF i % 2 = 1 THEN b \div B2 ELSE b % B2]
  \o <<0>>

(* ecbuf_hex2bin: the indexes are bytes that wrap; a result of CIndex bytes*)
(* would never be full.                                                    *)
Hex2Bin(h) ==
  LET n == Len(h) \div 2
  IN  [i \in 1 .. n |-> h[((2 * (i - 1)) % CIndex) + 1] * B2 + h[((2 * (i - 1) + 1) % CIndex) + 1]]

-----------------------------------------------------------------------------
(* ecbuf_sha1_set and _final: the blocks that ecbuf_sha1_trans is given.   *)
One80 == -2
Zeros(n) == [i \in 1 .. n |-> 0]
LengthOf(n) == [i \in 1 .. CLength |-> <<n>>]   \* the bytes of the length n

ShaBlocks(s) ==
  LET full == Len(s) \div CBlock
      rest == SubSeq(s, full * CBlock + 1, Len(s))
      before == [k \in 1 .. full |-> SubSeq(s, (k - 1) * CBlock + 1, k * CBlock)]
      bits == full * CBlock + Len(rest)
  IN  before \o
      (IF Len(rest) < CBlock - CLength
       THEN <<rest \o <<One80>> \o Zeros(CBlock - CLength - Len(rest) - 1) \o LengthOf(bits)>>
       ELSE <<rest \o <<One80>> \o Zeros(CBlock - Len(rest) - 1),
              Zeros(CBlock - CLength) \o LengthOf(bits)>>)

-----------------------------------------------------------------------------
(* ecbufit_readln over a text that ends with the termination, all lines    *)
(* that end with a break; a text is made of the low bits of the message.   *)
Cr == 1
Lf == 2
BreakAt(c) == c \in {Cr, Lf}
TextOf(s) == [i \in DOMAIN s |-> s[i] % 4]

BufferLines(t) ==
  LET read[k \in 0 .. Len(t)] ==
        IF k = 0 THEN [b1 |-> 0, b2 |-> 0, first |-> FALSE, line |-> <<>>, lines |-> <<>>]
        ELSE LET p == read[k - 1]
                 c == t[k]
                 done == [p EXCEPT !.first = FALSE, !.line = <<>>, !.lines = Append(@, p.line)]
                 more == [p EXCEPT !.line = Append(@, c)]
                 learning == p.b1 = 0 \/ (p.first /\ p.b2 = 0)
             IN  IF p.first
                 THEN IF learning /\ BreakAt(c) /\ c # p.b1 THEN [done EXCEPT !.b2 = c] ELSE done
                 ELSE IF ~BreakAt(c) THEN more
                 ELSE IF learning THEN [p EXCEPT !.b1 = c, !.first = TRUE]
                 ELSE IF p.b2 # 0 /\ c = p.b1 THEN [p EXCEPT !.first = TRUE]
                 ELSE done
  IN  read[Len(t)].lines

-----------------------------------------------------------------------------
(* What was encoded is decoded to the same bytes, in a buffer of the size  *)
(* that was allocated for it, also when it was encoded in bunches of any   *)
(* size; hexadecimal text of a message that a uint8_t can index, too.      *)
CodesReturn ==
  /\ Len(Encode64(cmsg)) < EncodeLen(Len(cmsg))
  /\ Decode64(Encode64(cmsg)) = cmsg
  /\ LET t == SelectSeq(Encode64(cmsg), LAMBDA c : c # Padding)
     IN  DecodedSize(Len(t)) = Len(cmsg) /\ Len(cmsg) < Len(t) + 1
  /\ \A max \in 5 .. 12 :
       /\ EncodeLen(BunchSize(max)) <= max
       /\ EncodeBunches(cmsg, max) = Encode64(cmsg)
  /\ 2 * Len(cmsg) <= CIndex => Hex2Bin(Bin2Hex(cmsg)) = cmsg

(* The blocks are full, and together they are the message, one 0x80, as few*)
(* zeros as possible and the length.                                       *)
BlocksArePadded ==
  LET all == FlattenSeq(ShaBlocks(cmsg))
      zeros == CHOOSE n \in 0 .. CBlock - 1 : (Len(cmsg) + 1 + n + CLength) % CBlock = 0
  IN  /\ \A k \in DOMAIN ShaBlocks(cmsg) : Len(ShaBlocks(cmsg)[k]) = CBlock
      /\ all = cmsg \o <<One80>> \o Zeros(zeros) \o LengthOf(Len(cmsg))

(* A text whose breaks are all CR LF is read line by line, without loss.   *)
TextIsRead ==
  LET t == TextOf(cmsg)
      crlf == \A k \in DOMAIN t : /\ t[k] = Cr => k < Len(t) /\ t[k + 1] = Lf
                                  /\ t[k] = Lf => k > 1 /\ t[k - 1] = Cr
      split[k \in 0 .. Len(t)] ==
        IF k = 0 THEN <<<<>>>>
        ELSE IF t[k] = Cr THEN split[k - 1]
        ELSE IF t[k] = Lf THEN Append(split[k - 1], <<>>)
        ELSE Front(split[k - 1]) \o <<Append(Last(split[k - 1]), t[k])>>
  IN  crlf => BufferLines(t) = Front(split[Len(t)])

-----------------------------------------------------------------------------
(***************************************************************************)
(* A program builds two strings character by character; what the string    *)
(* functions make of them is compared with what they are for.              *)
(***************************************************************************)

CONSTANTS
  XMaxText,  \* bound on the first string
  XMaxOther, \* bound on the second
  XLong      \* the digits ecstr_long has room for (11 in the code)

ASSUME StringConstants == XMaxText \in Nat /\ XMaxOther \in Nat /\ XLong \in Nat \ {0}

VARIABLES xtext, xother

stringVars == <<xtext, xother>>

Characters == {Letter, Delimiter, Blank}

StringInit == xtext = <<>> /\ xother = <<>>
StringNext ==
  \/ \E c \in Characters : Len(xtext) < XMaxText /\ xtext' = Append(xtext, c) /\ UNCHANGED xother
  \/ \E c \in Characters : Len(xother) < XMaxOther /\ xother' = Append(xother, c) /\ UNCHANGED xtext

(* The runs of a string between delimiters, as places.                     *)
Runs(s, d) ==
  {r \in (1 .. Len(s)) \X (1 .. Len(s)) :
     /\ r[1] <= r[2]
     /\ \A k \in r[1] .. r[2] : s[k] # d
     /\ r[1] = 1 \/ s[r[1] - 1] = d
     /\ r[2] = Len(s) \/ s[r[2] + 1] = d}

(* The tokens are the runs between delimiters, each once and in order.     *)
TokensAreRuns ==
  \A d \in {Delimiter, Blank} :
    Tokens(xtext, d) =
      LET runs == SetToSortSeq(Runs(xtext, d), LAMBDA a, b : a[1] < b[1])
      IN  [k \in DOMAIN runs |-> SubSeq(xtext, runs[k][1], runs[k][2])]

(* What was taken apart can be put together: a trimmed string is the longest*)
(* part that neither starts nor ends with what goes, a split one has the   *)
(* first c between its parts, leading and ending parts their rest.         *)
PartsMakeWhole ==
  /\ LET t == Trim(xtext)
         firm == {k \in DOMAIN xtext : Printable(xtext[k])}
     IN  t = IF firm = {} THEN <<>> ELSE SubSeq(xtext, Min(firm), Max(firm))
  /\ Pos(xtext, Delimiter) # 0 =>
       CatC(Before(xtext, Delimiter), Delimiter, Behind(xtext, Delimiter)) = xtext
  /\ LeadingPart(xtext, xother) # Absent =>
       Cat2(xother, LeadingPart(xtext, xother)) = xtext /\ (xother # <<>> => Leading(xtext, xother))
  /\ Len(xother) <= Len(xtext) /\ EndingPart(xtext, xother) # Absent =>
       Cat2(EndingPart(xtext, xother), xother) = xtext
  /\ LET w == Wrapped(xtext, Delimiter)
     IN  w # Absent => \E t, u \in {SubSeq(xtext, 1, n) : n \in DOMAIN xtext} :
           IsPrefix(t \o w \o <<Delimiter>>, xtext) /\ Last(t) = Delimiter /\ Delimiter \notin ToSet(w)
  /\ Shrinks(xtext, Delimiter, Blank) =>
       Len(Shrunk(xtext, Delimiter, Blank)) + Pos(xtext, Delimiter) + 1 <= Len(xtext)
  /\ TrimC(Lpad(xother, Delimiter, XMaxOther), Delimiter) = TrimC(xother, Delimiter)

(* A number that has room is spelled whole, and a version's digits are the *)
(* number's, in groups of two from the right.                              *)
NumbersAreSpelled ==
  LET n == FoldLeft(LAMBDA a, c : 10 * a + (IF c = Letter THEN 9 ELSE IF c = Blank THEN 0 ELSE 1), 0, xtext)
      v == VersionText(n)
  IN  /\ Len(DigitsOf(n, 1)) <= XLong => NumberOf(LongText(n, XLong)) = n
      /\ NumberOf(SelectSeq(v, LAMBDA d : d # Dot)) = n
      /\ v[Len(v) - 2] = Dot /\ v[Len(v) - 5] = Dot
=============================================================================
