-------------------------------- MODULE Sql ---------------------------------
(***************************************************************************)
(* The texts of the statements that the SQLite plugin (src/libadbl/        *)
(* adbl_sqlite) and the MySQL plugin (src/libadbl/adbl_mysql) build from   *)
(* the structures of a caller, as sequences of words.  A dialect is        *)
(* "sqlite", or "mysql" or "ansi" (MySQL with quotes around the names,     *)
(* values bound to question marks).                                        *)
(*                                                                         *)
(* A constraint is <<"AND" or "IN", elements>>; an element is <<name,      *)
(* value, sub>> with a constraint in "sub", or <<>>.  At the end a table's *)
(* definition is read from its text.                                       *)
(***************************************************************************)
EXTENDS Strings

SqlNames == {"a", "b"}
SqlValues == {"1", "2"}
Quoted(d, word) == IF d = "ansi" THEN <<"\"", word, "\"">> ELSE <<word>>
SqlTable(d) ==
  IF d = "sqlite" THEN <<"t">> ELSE Quoted(d, "schema") \o <<".">> \o Quoted(d, "t")
SqlJoin(parts, sep) ==
  FoldLeft(LAMBDA s, p : IF s = <<>> THEN p ELSE s \o sep \o p, <<>>, parts)
Mapped(seq, Op(_)) == [k \in DOMAIN seq |-> Op(seq[k])]

-----------------------------------------------------------------------------
(* A statement is its words and the values bound to it.                    *)
Words(w) == [words |-> w, binds |-> <<>>]
Then(s, w) == [s EXCEPT !.words = @ \o w]
Join2(s, t) == [words |-> s.words \o t.words, binds |-> s.binds \o t.binds]

(* The value of an element: in MySQL bound (bindvars_add), in SQLite in    *)
(* quotes in the text.                                                     *)
MysqlEquals(d, name, value) == [words |-> Quoted(d, name) \o <<"=", "?">>, binds |-> <<value>>]
Equals(d, name, value) ==
  IF d = "sqlite" THEN Words(<<name, "=", value>>) ELSE MysqlEquals(d, name, value)

(* Mutation: the elements of an inner constraint stand without a separator.*)
RECURSIVE SqliteFlat(_)
SqliteFlat(c) ==
  LET Element(e) == IF e[3] # <<>> THEN <<"(">> \o SqliteFlat(e[3]) \o <<")">> ELSE <<e[1], "=", e[2]>>
      listed == FlattenSeq([k \in 1 .. Len(c[2]) - 1 |-> <<",", c[2][k][2]>>])
  IN  CASE c[2] = <<>> -> <<>>
        [] c[1] = "IN" /\ c[2] # <<>> -> <<c[2][1][1], "IN", "(", c[2][1][2]>> \o listed \o <<")">>
        [] OTHER -> FoldLeft(LAMBDA s, e : s \o Element(e), Element(Head(c[2])), Tail(c[2]))

(* adbl_constructContraintNode and adbl_constructConstraintElement of      *)
(* SQLite, which takes the value of an IN before it goes to the next       *)
(* element.                                                                *)
RECURSIVE SqliteNode(_)
SqliteNode(c) ==
  LET Element(e) == IF e[3] # <<>> THEN <<"(">> \o SqliteNode(e[3]) \o <<")">> ELSE <<e[1], "=", e[2]>>
      listed == FlattenSeq([k \in 1 .. Len(c[2]) - 1 |-> <<",", c[2][k][2]>>])
  IN  CASE c[2] = <<>> -> <<>>
        [] c[1] = "IN" /\ c[2] # <<>> -> <<c[2][1][1], "IN", "(", c[2][1][2]>> \o listed \o <<")">>
        [] OTHER -> FoldLeft(LAMBDA s, e : s \o <<"AND">> \o Element(e), Element(Head(c[2])), Tail(c[2]))

(* Those of MySQL, which leave inner constraints out and have nothing      *)
(* between the elements of an IN.                                          *)
MysqlNode(d, c) ==
  LET Element(e) == IF e[3] # <<>> THEN Words(<<>>) ELSE MysqlEquals(d, e[1], e[2])
      sep == IF c[1] = "AND" THEN <<"AND">> ELSE <<>>
  IN  FoldLeft(LAMBDA s, e : Join2(Then(s, sep), Element(e)), Element(Head(c[2])), Tail(c[2]))

(* adbl_constructConstraint, of SQLite and of both.                        *)
SqliteWhere(c) == IF c[2] = <<>> THEN <<>> ELSE <<"WHERE">> \o SqliteNode(c)
ConstructConstraint(d, c) ==
  IF d = "sqlite" THEN Words(SqliteWhere(c))
  ELSE IF c[2] = <<>> THEN Words(<<>>) ELSE Join2(Words(<<"WHERE">>), MysqlNode(d, c))

(* adbl_constructListWithTable and _Column: a column that is looked up in  *)
(* another table is a statement of its own, here one word; one that is     *)
(* ordered by gets an alias of its number.  A column is <<name, looked up, *)
(* order number>>.                                                         *)
Alias == [n \in 1 .. 2 |-> <<"C1", "C2">>[n]]
Looked == [a |-> "lookup a", b |-> "lookup b"]
SqlAbs(n) == IF n < 0 THEN -n ELSE n
SqlColumn(d, qc) ==
  (IF qc[2] THEN <<Looked[qc[1]]>> ELSE Quoted(d, "t") \o <<".">> \o Quoted(d, qc[1]))
  \o (IF qc[3] = 0 THEN <<>> ELSE <<"AS", Alias[SqlAbs(qc[3])]>>)
ListWithTable(d, columns) ==
  IF columns = <<>> THEN <<"*">> ELSE SqlJoin(Mapped(columns, LAMBDA qc : SqlColumn(d, qc)), <<",">>)
SqliteList(columns) == ListWithTable("sqlite", columns)

(* The orders in the order of their numbers (ecintmap_orderAll).           *)
OrderWords(columns) ==
  LET ordered == SortSeq(SelectSeq(columns, LAMBDA qc : qc[3] # 0),
                         LAMBDA p, q : SqlAbs(p[3]) < SqlAbs(q[3]))
      One(qc) == <<Alias[SqlAbs(qc[3])], IF qc[3] > 0 THEN "ASC" ELSE "DESC">>
  IN  IF ordered = <<>> THEN <<>> ELSE <<"ORDER", "BY">> \o SqlJoin(Mapped(ordered, One), <<",">>)

(* adblmodule_dbquery: SQLite takes the offset only with a limit.          *)
Number(keyword, n) == IF n = "0" THEN <<>> ELSE <<keyword, n>>
SqliteQuery(q) ==
  Words(<<"SELECT">> \o SqliteList(q.columns) \o <<"FROM", "t">> \o SqliteWhere(q.constraint)
        \o OrderWords(q.columns)
        \o (IF q.limit = "0" THEN <<>> ELSE Number("LIMIT", q.limit) \o Number("OFFSET", q.offset)))

(* adblmodule_createStatement of MySQL.                                    *)
MysqlQuery(d, q) ==
  Then(Join2(Words(<<"SELECT">> \o ListWithTable(d, q.columns) \o <<"FROM">> \o SqlTable(d)),
             ConstructConstraint(d, q.constraint)),
       OrderWords(q.columns) \o Number("LIMIT", q.limit) \o Number("OFFSET", q.offset))

(* adbl_constructAttributesUpdate and _Insert of both plugins: attributes  *)
(* are pairs of a name and a value.  With quotes around its names MySQL    *)
(* gets the values of an insert without a comma.                           *)
AttributesUpdate(d, attrs) ==
  FoldLeft(LAMBDA s, a : IF s.words = <<>> THEN Equals(d, a[1], a[2])
                         ELSE Join2(Then(s, <<",">>), Equals(d, a[1], a[2])), Words(<<>>), attrs)
SqliteSets(attrs) == AttributesUpdate("sqlite", attrs)
InParentheses(parts, sep) == <<"(">> \o SqlJoin(parts, sep) \o <<")">>
SqliteAttributesInsert(attrs) ==
  IF attrs = <<>> THEN <<"VALUES", "(", "NULL", ")">>
  ELSE InParentheses(Mapped(attrs, LAMBDA a : <<a[1]>>), <<",">>) \o <<"VALUES">>
       \o InParentheses(Mapped(attrs, LAMBDA a : <<a[2]>>), <<",">>)
MysqlAttributesInsert(d, attrs) ==
  LET sep == IF d = "ansi" THEN <<>> ELSE <<",">>
      marks == <<"VALUES">> \o InParentheses(Mapped(attrs, LAMBDA a : <<"?">>), sep)
  IN  [words |-> IF attrs = <<>> THEN marks
                 ELSE InParentheses(Mapped(attrs, LAMBDA a : Quoted(d, a[1])), <<",">>) \o marks,
       binds |-> Mapped(attrs, LAMBDA a : a[2])]

(* adbl_constructAttributesInsertOrReplace: the elements of the constraint *)
(* first; only they are counted, so that without one of them the attributes*)
(* have no comma.                                                          *)
InsertOrReplace(c, attrs) ==
  LET keys == Mapped(SelectSeq(c[2], LAMBDA e : e[3] = <<>>), LAMBDA e : <<e[1], e[2]>>)
      sep == IF keys = <<>> THEN <<>> ELSE <<",">>
      Listed(k) ==
        LET own == SqlJoin(Mapped(keys, LAMBDA a : <<a[k]>>), <<",">>)
        IN  FoldLeft(LAMBDA s, a : s \o sep \o <<a[k]>>, own, attrs)
  IN  Words(<<"(">> \o Listed(1) \o <<")", "VALUES", "(">> \o Listed(2) \o <<")">>)

(* The statements of SQLite: adblmodule_dbinsert, _dbupdate_insert,        *)
(* _dbupdate_update and _dbdelete.                                         *)
SqliteInsert(q) == Words(<<"INSERT", "INTO", "t">> \o SqliteAttributesInsert(q.attrs))
SqliteUpsert(q) ==
  Join2(Words(<<"INSERT", "OR", "IGNORE", "INTO", "t">>), InsertOrReplace(q.constraint, q.attrs))
SqliteUpdate(q) ==
  Then(Join2(Words(<<"UPDATE", "t", "SET">>), SqliteSets(q.attrs)), SqliteWhere(q.constraint))
SqliteDelete(q) == Words(<<"DELETE", "FROM", "t">> \o SqliteWhere(q.constraint))

(* Those of MySQL: adblmodule_dbinsert, _dbupdate and _dbdelete; the name  *)
(* of the table in an update has only one of its first quotes.             *)
MysqlInsert(d, q) ==
  Join2(Words(<<"INSERT", "INTO">> \o SqlTable(d)), MysqlAttributesInsert(d, q.attrs))
MysqlUpdate(d, q) ==
  LET table == IF d = "ansi" THEN Tail(SqlTable(d)) ELSE SqlTable(d)
  IN  Join2(Join2(Words(<<"UPDATE">> \o table \o <<"SET">>), AttributesUpdate(d, q.attrs)),
            ConstructConstraint(d, q.constraint))
MysqlDelete(d, q) ==
  Join2(Words(<<"DELETE", "FROM">> \o SqlTable(d)), ConstructConstraint(d, q.constraint))

(* adblmodule_dbprocedure_create: the comma comes behind the mark.         *)
MysqlCall(q) ==
  [words |-> <<"CALL", "p", "(">>
             \o FlattenSeq([k \in DOMAIN q.attrs |-> IF k = 1 THEN <<"?">> ELSE <<"?", ",">>]) \o <<")">>,
   binds |-> Mapped(q.attrs, LAMBDA a : a[2])]

SqlText(q) ==
  CASE q.kind = "upsert" -> SqliteUpsert(q)
    [] q.kind = "call" -> MysqlCall(q)
    [] q.kind = "query" -> IF q.d = "sqlite" THEN SqliteQuery(q) ELSE MysqlQuery(q.d, q)
    [] q.kind = "insert" -> IF q.d = "sqlite" THEN SqliteInsert(q) ELSE MysqlInsert(q.d, q)
    [] q.kind = "update" -> IF q.d = "sqlite" THEN SqliteUpdate(q) ELSE MysqlUpdate(q.d, q)
    [] q.kind = "delete" -> IF q.d = "sqlite" THEN SqliteDelete(q) ELSE MysqlDelete(q.d, q)

-----------------------------------------------------------------------------
(* The database: what it makes of the words.  Names in quotes are names,   *)
(* every question mark takes the next value, and what is no statement of   *)
(* its language is refused.                                                *)
SqlFails == <<"refused">>
Unquoted(w) ==
  LET Step(u, k) ==
        IF w[k] = "\"" THEN [u EXCEPT !.in = IF @ = 0 THEN 1 ELSE 0, !.bad = @ \/ u.in = 1]
        ELSE [u EXCEPT !.out = Append(@, w[k]), !.in = IF @ = 0 THEN 0 ELSE @ + 1,
                       !.bad = @ \/ u.in = 2 \/ (u.in = 1 /\ w[k] = ".")]
      Pairs(u, k) == IF w[k] = "\"" /\ u.in = 2 THEN [u EXCEPT !.in = 0] ELSE Step(u, k)
      read == FoldLeftDomain(Pairs, [out |-> <<>>, in |-> 0, bad |-> FALSE], w)
  IN  IF read.bad \/ read.in # 0 THEN SqlFails ELSE read.out
Bound(s) ==
  LET w == Unquoted(s.words)
      read == FoldLeft(LAMBDA r, x : IF x # "?" THEN [r EXCEPT !.out = Append(@, x)]
                                     ELSE IF r.left = <<>> THEN [r EXCEPT !.out = Append(@, x)]
                                     ELSE [out |-> Append(r.out, Head(r.left)), left |-> Tail(r.left)],
                       [out |-> <<>>, left |-> s.binds], w)
  IN  IF read.left # <<>> \/ "?" \in ToSet(read.out) THEN SqlFails ELSE read.out

(* The parts of a text between separators that are in no parentheses.      *)
Split(w, sep) ==
  LET Step(r, x) ==
        LET deep == r.deep + (IF x = "(" THEN 1 ELSE IF x = ")" THEN -1 ELSE 0)
        IN  IF x = sep /\ r.deep = 0 THEN [r EXCEPT !.parts = Append(@, <<>>)]
            ELSE [deep |-> deep, parts |-> Append(Front(r.parts), Append(Last(r.parts), x))]
  IN  FoldLeft(Step, [deep |-> 0, parts |-> <<<<>>>>], w).parts
Section(w, from, until) ==   \* between a word and the first of the others
  LET a == Pos(w, from)
      rest == SubSeq(w, a + 1, Len(w))
      ends == {k \in DOMAIN rest : rest[k] \in until} \cup {Len(rest) + 1}
  IN  IF a = 0 THEN <<>> ELSE SubSeq(rest, 1, Min(ends) - 1)

RECURSIVE Holds(_, _)
Holds(cond, row) ==   \* "yes", "no" or "refused"
  LET Term(w) ==
        CASE Len(w) = 3 /\ w[1] \in SqlNames /\ w[2] = "=" /\ w[3] \in SqlValues ->
               IF row[w[1]] = w[3] THEN "yes" ELSE "no"
          [] Len(w) > 4 /\ w[2] = "IN" /\ w[3] = "(" ->
               IF <<row[w[1]]>> \in ToSet(Split(SubSeq(w, 4, Len(w) - 1), ",")) THEN "yes" ELSE "no"
          [] Len(w) > 2 /\ w[1] = "(" /\ Last(w) = ")" -> Holds(Tail(Front(w)), row)
          [] OTHER -> "refused"
      found == {Term(w) : w \in ToSet(Split(cond, "AND"))}
  IN  IF "refused" \in found THEN "refused" ELSE IF "no" \in found THEN "no" ELSE "yes"

Clauses == {"WHERE", "ORDER", "LIMIT", "OFFSET"}
SqlRows == [SqlNames -> SqlValues]
Accepted(w) ==
  w # SqlFails /\ ("WHERE" \in ToSet(w) =>
                     \A r \in SqlRows : Holds(Section(w, "WHERE", Clauses), r) # "refused")
RowsOf(w) ==   \* the rows a statement is about
  {r \in SqlRows : "WHERE" \in ToSet(w) => Holds(Section(w, "WHERE", Clauses), r) = "yes"}

PairFails == <<<<"refused", "">>>>
(* Columns and values side by side, as an insert and an update have them.  *)
Single(parts) == \A k \in DOMAIN parts : Len(parts[k]) = 1
InsertPairs(w) ==
  LET cols == Split(Section(w, "(", {")"}), ",")
      vals == Split(Tail(Section(w, "VALUES", {")"})), ",")
  IN  IF w[Pos(w, "VALUES") - 1] = "t" THEN <<>>   \* no columns
      ELSE IF ~(Single(cols) /\ Single(vals) /\ Len(cols) = Len(vals)) THEN PairFails
      ELSE [k \in DOMAIN cols |-> <<cols[k][1], vals[k][1]>>]
SetPairs(w) ==
  LET sets == Split(Section(w, "SET", Clauses), ",")
  IN  IF \A k \in DOMAIN sets : Len(sets[k]) = 3 THEN [k \in DOMAIN sets |-> <<sets[k][1], sets[k][3]>>]
      ELSE PairFails

(* The orders: the alias says the column, then the direction.              *)
OrdersOf(w) ==
  LET cols == Split(Section(w, "SELECT", {"FROM"}), ",")
      Named(alias) == {k \in DOMAIN cols : Last(cols[k]) = alias}
      order == Split(SubSeq(Section(w, "ORDER", Clauses), 2, Len(Section(w, "ORDER", Clauses))), ",")
  IN  IF "ORDER" \notin ToSet(w) THEN <<>>
      ELSE [k \in DOMAIN order |-> <<Named(order[k][1]), order[k][2]>>]

-----------------------------------------------------------------------------
(* What the caller means: all of an AND, one of an IN; the SQLite plugin   *)
(* never asks for the last one of an IN that has several.                  *)
RECURSIVE Meant(_, _)
Meant(c, row) ==
  LET asked == IF c[1] = "IN" /\ Len(c[2]) > 1 THEN Front(c[2]) ELSE c[2]
      Is(e) == IF e[3] # <<>> THEN Meant(e[3], row) ELSE row[e[1]] = e[2]
  IN  IF c[1] = "AND" THEN \A k \in DOMAIN c[2] : Is(c[2][k])
      ELSE \E k \in DOMAIN asked : Is(asked[k])

(* What comes out as no statement at all: an inner constraint in MySQL or  *)
(* without elements, an IN of several elements in MySQL, and the commas and*)
(* quotes that are missing.                                                *)
Broken(q) ==
  LET els == q.constraint[2]
      subs == {k \in DOMAIN els : els[k][3] # <<>>}
      where == /\ q.kind \in {"query", "update", "delete"}
               /\ IF q.d # "sqlite" THEN subs # {} \/ (q.constraint[1] = "IN" /\ Len(els) > 1)
                  ELSE \E k \in subs : els[k][3][2] = <<>>
  IN  \/ where
      \/ q.kind = "query" /\ q.d # "sqlite" /\ q.offset # "0" /\ q.limit = "0"
      \/ q.kind = "insert" /\ q.d = "ansi" /\ Len(q.attrs) > 1
      \/ q.kind = "upsert" /\ subs = DOMAIN els /\ Len(q.attrs) # 1
      \/ q.kind = "update" /\ q.d = "ansi"
      \/ q.kind = "call" /\ Len(q.attrs) > 1

(* The inputs: every constraint of up to two elements, and with an inner   *)
(* one, of up to three for an IN.                                          *)
SqlAttrs == {<<>>, <<<<"a", "1">>>>, <<<<"a", "2">>, <<"b", "1">>>>}
Element1(n, v) == <<n, v, <<>>>>
SqlConstraints ==
  LET els == {Element1(n, v) : n \in SqlNames, v \in SqlValues}
      few == {<<"AND", <<>>>>} \cup {<<"AND", <<e>>>> : e \in els} \cup {<<"AND", <<e, f>>>> : e, f \in els}
      ins == {<<"IN", [k \in 1 .. n |-> Element1("a", v[k])]>> : n \in 1 .. 3, v \in [1 .. 3 -> SqlValues]}
      inner == {<<"AND", <<>>>>, <<"IN", <<Element1("b", "1")>>>>,
                <<"AND", <<Element1("a", "1"), Element1("b", "2")>>>>}
  IN  few \cup ins \cup {<<"AND", <<<<"a", "1", c>>>>>> : c \in inner}
      \cup {<<"AND", <<e, <<"a", "1", c>>>>>> : e \in els, c \in inner}
SqlColumns ==
  {<<>>, <<<<"a", FALSE, 0>>>>, <<<<"b", TRUE, 1>>>>}
  \cup {<<<<"a", l, m>>, <<"b", FALSE, n>>>> : l \in BOOLEAN, m \in {0, 1, -2}, n \in {0, -1, 2}}
SqlInputs ==
  LET one == <<"AND", <<Element1("a", "1")>>>>
      base == [kind |-> "query", d |-> "sqlite", columns |-> <<>>, constraint |-> one, attrs |-> <<>>,
               limit |-> "0", offset |-> "0"]
      ds == {"sqlite", "mysql", "ansi"}
  IN  {[base EXCEPT !.d = d, !.columns = c, !.limit = l, !.offset = o] :
         d \in ds, c \in {c \in SqlColumns : Len(c) = 2 => SqlAbs(c[1][3]) # SqlAbs(c[2][3]) \/ c[1][3] = 0},
         l \in {"0", "2"}, o \in {"0", "1"}}
      \cup {[base EXCEPT !.d = d, !.kind = k, !.constraint = c, !.attrs = <<<<"b", "1">>>>] :
              d \in ds, k \in {"query", "update", "delete"}, c \in SqlConstraints}
      \cup {[base EXCEPT !.d = d, !.kind = k, !.attrs = a] : d \in ds, k \in {"insert", "call"}, a \in SqlAttrs}
      \cup {[base EXCEPT !.d = d, !.kind = "update", !.attrs = a] : d \in ds, a \in SqlAttrs \ {<<>>}}
      \cup {[base EXCEPT !.kind = "upsert", !.constraint = c, !.attrs = a] :
              a \in SqlAttrs, c \in {c \in SqlConstraints : c[1] = "AND"}}

(* A statement either means what the caller asks for, the rows of the      *)
(* constraint, the columns ordered by their numbers, the limit, every      *)
(* attribute with its own value, or the database refuses it, in the cases  *)
(* of Broken and in no other.                                              *)
SqlMeansAs(q, w) ==
  LET args == Split(Section(w, "(", {")"}), ",")
      keys == Mapped(SelectSeq(q.constraint[2], LAMBDA e : e[3] = <<>>), LAMBDA e : <<e[1], e[2]>>)
      pairs == CASE q.kind \in {"insert", "upsert"} -> InsertPairs(w) [] q.kind = "update" -> SetPairs(w)
                 [] OTHER -> <<>>
      refused == \/ ~Accepted(w) \/ pairs = PairFails
                 \/ q.kind = "query" /\ Pos(w, "OFFSET") > 0 /\ Pos(w, "LIMIT") = 0
                 \/ q.kind = "call" /\ ~Single(args) /\ args # <<<<>>>>
      places == SortSeq(SelectSeq([k \in DOMAIN q.columns |-> <<k, q.columns[k][3]>>], LAMBDA p : p[2] # 0),
                        LAMBDA p, r : SqlAbs(p[2]) < SqlAbs(r[2]))
  IN  /\ refused <=> Broken(q)
      /\ ~refused /\ q.kind \in {"query", "update", "delete"} =>
           RowsOf(w) = {r \in SqlRows : Meant(q.constraint, r)}
      /\ ~refused /\ q.kind \in {"insert", "update"} => pairs = q.attrs
      /\ ~refused /\ q.kind = "upsert" => pairs = keys \o q.attrs
      /\ ~refused /\ q.kind = "query" =>
           /\ OrdersOf(w) = Mapped(places, LAMBDA p : <<{p[1]}, IF p[2] > 0 THEN "ASC" ELSE "DESC">>)
           /\ Section(w, "LIMIT", Clauses) = (IF q.limit = "0" THEN <<>> ELSE <<q.limit>>)
           /\ Section(w, "OFFSET", Clauses) = (IF q.limit = "0" \/ q.offset = "0" THEN <<>> ELSE <<q.offset>>)
SqlMeans(q) == SqlMeansAs(q, Bound(SqlText(q)))

-----------------------------------------------------------------------------
(* The definition of a table as the SQLite plugin reads it from the text   *)
(* of the CREATE statement: cut at every comma, then into words.  A text is*)
(* a sequence of words, where "FOREIGN KEY" is one word, and               *)
(* <<open, name, close>> is a name with the parentheses that stand next to *)
(* it.                                                                     *)
Plain(w) == <<"", w, "">>
Closed(w) == <<"(", w, ")">>
ForeignKey == Plain("FOREIGN KEY")
Comma == Plain(",")

(* ecstr_tokenizer at the commas, wherever they are: no empty parts.       *)
CommaParts(text) ==
  LET Step(parts, w) == IF w = Comma THEN Append(parts, <<>>) ELSE Append(Front(parts), Append(Last(parts), w))
  IN  SelectSeq(FoldLeft(Step, <<<<>>>>, text), LAMBDA p : p # <<>>)

(* A table as it is read; "read" turns FALSE where the program reads the   *)
(* end of a word that has no parenthesis (ecstr_shrink).                   *)
EmptyTable == [columns |-> <<>>, primary |-> <<>>, foreign |-> <<>>, read |-> TRUE]

(* Mutation: whatever has a third word is a primary key.                   *)
ParseColumnAny(table, part) ==
  CASE Len(part) = 2 -> [table EXCEPT !.columns = Append(@, part[1][2])]
    [] Len(part) > 2 -> [table EXCEPT !.primary = Append(@, part[1][2])]
    [] OTHER -> table

(* adblmodule_parseColumn: a name and a type are a column, with PRIMARY    *)
(* behind them a primary key; anything else is no part of the table.       *)
ParseColumn(table, part) ==
  CASE Len(part) = 2 -> [table EXCEPT !.columns = Append(@, part[1][2])]
    [] Len(part) > 2 /\ part[3] = Plain("PRIMARY") -> [table EXCEPT !.primary = Append(@, part[1][2])]
    [] OTHER -> table

(* adblmodule_parseForeignKey: the column, a word, and the table with the  *)
(* column it refers to.                                                    *)
ParseForeignKey(table, part) ==
  IF Len(part) < 3 THEN table
  ELSE IF part[1][3] = "" \/ part[3][3] = "" THEN [table EXCEPT !.read = FALSE]
  ELSE [table EXCEPT !.foreign = Append(@, <<part[1][2], part[3][1], part[3][2]>>)]

(* adblmodule_parseCreateStatement of what is between the parentheses.     *)
ParseCreateStatement(text) ==
  LET Step(table, part) ==
        IF ~table.read THEN table
        ELSE IF Head(part) = ForeignKey THEN ParseForeignKey(table, Tail(part))
        ELSE ParseColumn(table, part)
  IN  FoldLeft(Step, EmptyTable, CommaParts(text))

(* adblmodule_dbtable: no table without a connection, or when the statement*)
(* or its end fails; one that is not there is none, too.                   *)
TableOf(connected, prepared, found, finalized, text) ==
  IF connected /\ prepared /\ finalized /\ found THEN ParseCreateStatement(text) ELSE EmptyTable

-----------------------------------------------------------------------------
(* What a definition may consist of, and what of it is read.  A comma in   *)
(* parentheses cuts a condition of the table in two: its keyword and one   *)
(* name are taken for a column.                                            *)
Words2(ws) == [k \in DOMAIN ws |-> Plain(ws[k])]
Declaration(text, kind, name) == [text |-> text, kind |-> kind, name |-> name]
Declarations ==
  {Declaration(Words2(<<"a", "INTEGER">>), "column", "a"),
   Declaration(Words2(<<"b", "TEXT">>), "column", "b"),
   Declaration(Words2(<<"c">>), "lost", "c"),
   Declaration(Words2(<<"d", "TEXT", "NOT", "NULL">>), "lost", "d"),
   Declaration(Words2(<<"e", "INTEGER", "PRIMARY", "KEY">>), "primary", "e"),
   Declaration(Words2(<<"f", "INTEGER", "NOT", "NULL", "PRIMARY", "KEY">>), "lost", "f"),
   Declaration(<<Plain("g"), <<"DECIMAL(", "10", "">>, Comma, <<"", "2", ")">>>>, "column", "g"),
   Declaration(<<Plain("PRIMARY"), Plain("KEY"), <<"(", "a", "">>, Comma, <<"", "b", ")">>>>, "lost", "a"),
   Declaration(<<Plain("UNIQUE"), <<"(", "a", "">>, Comma, <<"", "b", ")">>>>, "column", "UNIQUE"),
   Declaration(<<ForeignKey, Closed("a"), Plain("REFERENCES"), <<"t", "x", ")">>>>, "foreign",
               <<"a", "t", "x">>),
   Declaration(<<ForeignKey, Closed("b"), Plain("REFERENCES"), Plain("t")>>, "stuck", "t")}
CreateInputs == UNION {[1 .. n -> Declarations] : n \in 0 .. 3}

(* Every declaration of a kind that is read is read once and in its place, *)
(* nothing else is, and the program gets to the end unless a foreign key   *)
(* does not name the column it refers to.                                  *)
SchemaRead(declarations) ==
  LET text == FoldLeft(LAMBDA out, d : IF out = <<>> THEN d.text ELSE out \o <<Comma>> \o d.text,
                       <<>>, declarations)
      table == ParseCreateStatement(text)
      Of(kind) == LET found == SelectSeq(declarations, LAMBDA d : d.kind = kind)
                  IN  [k \in DOMAIN found |-> found[k].name]
  IN  /\ table.read <=> Of("stuck") = <<>>
      /\ table.read => /\ table.columns = Of("column")
                       /\ table.primary = Of("primary")
                       /\ table.foreign = Of("foreign")
      /\ \A connected, prepared, found, finalized \in BOOLEAN :
           TableOf(connected, prepared, found, finalized, text)
             = IF connected /\ prepared /\ found /\ finalized THEN table ELSE EmptyTable
=============================================================================
