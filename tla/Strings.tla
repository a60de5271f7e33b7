------------------------------- MODULE Strings ------------------------------
(***************************************************************************)
(* The string functions of src/entc/types/ecstring.c that the protocols,   *)
(* the configuration and the database code take their input apart with.    *)
(* A string is a sequence of characters without the termination; NULL is   *)
(* Absent.                                                                 *)
(***************************************************************************)
EXTENDS Integers, FiniteSets, Sequences, SequencesExt, FiniteSetsExt

Letter == "a"
Delimiter == ","
Blank == " "        \* a character that is not printable
Absent == <<"NULL">>
Printable(c) == c # Blank

-----------------------------------------------------------------------------
(* strchr and strrchr, 0 if c is not there.                                *)
Pos(s, c) == SelectInSeq(s, LAMBDA d : d = c)
LastPos(s, c) == SelectLastInSeq(s, LAMBDA d : d = c)

(* ecstr_part behind place a.                                              *)
Part(s, a, n) == SubSeq(s, a + 1, a + n)

(* ecstr_cat2, and ecstr_cat3 and _cat4 with it; ecstr_catc.               *)
Cat2(s, t) == IF s = Absent THEN t ELSE IF t = Absent THEN s ELSE s \o t
CatC(s, c, t) == IF Absent \in {s, t} THEN Absent ELSE s \o <<c>> \o t

(* ecstr_leading compares all but the last character of the leading one,   *)
(* ecstr_leadingPart all of it.                                            *)
Leading(s, t) ==
  /\ t # <<>>
  /\ \A k \in 1 .. Len(t) - 1 : k \in DOMAIN s /\ s[k] = t[k]
LeadingPart(s, t) == IF IsPrefix(t, s) THEN Part(s, Len(t), Len(s) - Len(t)) ELSE Absent

(* ecstr_endingPart; the source is not shorter than the ending, or the code*)
(* reads before it.                                                        *)
EndingPart(s, t) ==
  IF \A k \in DOMAIN t : s[Len(s) - Len(t) + k] = t[k] THEN Part(s, 0, Len(s) - Len(t)) ELSE Absent

(* ecstr_trim and ecstr_trimlr, whose only difference is what may go on the*)
(* left and on the right: from the first that stays the rest is moved to   *)
(* the front, then the end is cut.                                         *)
Trimmed(s, left, right) ==
  LET from[k \in 1 .. Len(s) + 1] ==
        IF k > Len(s) THEN k ELSE IF s[k] \in left THEN from[k + 1] ELSE k
      moved == SubSeq(s, from[1], Len(s))
      upto[k \in 0 .. Len(moved)] ==
        IF k = 0 THEN 0 ELSE IF moved[k] \in right THEN upto[k - 1] ELSE k
  IN  SubSeq(moved, 1, upto[Len(moved)])

Trim(s) == Trimmed(s, {Blank}, {Blank})
TrimC(s, c) == Trimmed(s, {c}, {c})

(* ecstr_wrappedl: what is between the first c and the next.               *)
Wrapped(s, c) ==
  LET a == Pos(s, c)
      n == Pos(SubSeq(s, a + 1, Len(s)), c)
  IN  IF a = 0 \/ n = 0 THEN Absent ELSE Part(s, a, n - 1)

(* ecstr_shrink: from behind the first "from" to the last "to", that must  *)
(* be there and behind it: the code asks for pos1 again instead of pos2.   *)
Shrinks(s, from, to) == LastPos(s, to) # 0 /\ LastPos(s, to) > Pos(s, from)
Shrunk(s, from, to) == Part(s, Pos(s, from), LastPos(s, to) - 1 - Pos(s, from))

(* ecstr_spos, ecstr_extractf and ecstr_split at the first c.              *)
Before(s, c) == IF Pos(s, c) = 0 THEN s ELSE Part(s, 0, Pos(s, c) - 1)
Behind(s, c) == IF Pos(s, c) = 0 THEN Absent ELSE SubSeq(s, Pos(s, c) + 1, Len(s))

(* ecstr_lpad; the length it is padded to is not shorter.                  *)
Lpad(s, c, n) == [k \in 1 .. n - Len(s) |-> c] \o s

(* Mutation: the segment behind the last delimiter is forgotten.           *)
TokensForget(s, d) ==
  LET scan[k \in 0 .. Len(s)] ==
        IF k = 0 THEN [left |-> 0, out |-> <<>>]
        ELSE LET p == scan[k - 1]
                 n == k - 1 - p.left
             IN  IF s[k] # d THEN p
                 ELSE [left |-> k, out |-> IF n > 0 THEN Append(p.out, Part(s, p.left, n)) ELSE p.out]
  IN  scan[Len(s)].out

(* ecstr_tokenizer: one pass, a segment is closed by every delimiter and by*)
(* the end, and an empty one is left out.                                  *)
Tokens(s, d) ==
  LET scan[k \in 0 .. Len(s)] ==
        IF k = 0 THEN [left |-> 0, out |-> <<>>]
        ELSE LET p == scan[k - 1]
                 n == k - 1 - p.left
             IN  IF s[k] # d THEN p
                 ELSE [left |-> k, out |-> IF n > 0 THEN Append(p.out, Part(s, p.left, n)) ELSE p.out]
      end == scan[Len(s)]
  IN  IF end.left = Len(s) THEN end.out
      ELSE Append(end.out, Part(s, end.left, Len(s) - end.left))

(* ecstr_long, ecstr_toVersion: the digits of a number, the first ones only*)
(* where the buffer has no room; a version has at least five.             *)
DigitsOf(n, least) ==
  LET digits[k \in 0 .. 19] ==   \* of k places, and more where it has them
        IF k = 0 THEN <<n>>
        ELSE LET d == digits[k - 1]
             IN  IF Head(d) >= 10 \/ Len(d) < least
                 THEN <<Head(d) \div 10, Head(d) % 10>> \o Tail(d) ELSE d
  IN  digits[19]
LongText(n, room) == LET d == DigitsOf(n, 1) IN SubSeq(d, 1, Min({Len(d), room}))

(* ecstr_toVersion: a dot before the last four and before the last two.    *)
Dot == -1
VersionText(n) ==
  LET d == DigitsOf(n, 5)
      size == Len(d)
      text[k \in 0 .. size] ==
        IF k = 0 THEN <<>>
        ELSE text[k - 1] \o <<d[k]>> \o (IF k \in {size - 2, size - 4} THEN <<Dot>> ELSE <<>>)
  IN  text[size]
NumberOf(d) == FoldLeft(LAMBDA a, b : 10 * a + b, 0, d)
=============================================================================
