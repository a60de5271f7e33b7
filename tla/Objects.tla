------------------------------ MODULE Objects ------------------------------
(***************************************************************************)
(* The objects of libadbo (src/libadbo/core: adbo.c, adbo_node.c,          *)
(* adbo_item.c, adbo_value.c): a table described by an XML file, its rows  *)
(* read into the node, changed and deleted as a filter says.  A call is one*)
(* step, as adbo_db_fetch and adbo_db_update hold the mutex of the objects *)
(* while they work; how statements of several threads meet is the matter of*)
(* DbTransaction.  SQLite executes the statements and is external.         *)
(***************************************************************************)
EXTENDS Integers, Sequences, FiniteSets, SequencesExt, FiniteSetsExt

CONSTANTS
  OSettings,  \* what the file says: [sections, source, exists]
  OFilters,   \* what may be asked for: functions from columns to values
  OItems,     \* the rows to be written, likewise
  OMaxItems,  \* bound on the items of an update
  OMaxRows,   \* bound on the rows of the table
  OMaxSteps   \* bound on the calls

ASSUME ObjectConstants == OMaxItems \in Nat /\ OMaxRows \in Nat /\ OMaxSteps \in Nat

VARIABLES
  osetting,
  onode,      \* the key and value columns of the node: [ids, refs, cols]
  otable,     \* the rows in the database
  orows,      \* the rows in the node, or NoRows
  osize,      \* the size in the node
  ofilter,    \* the filter of the last update: the caller may use it again
  osessions,  \* sessions that are open, between two calls
  oleaks,     \* calls that end without closing theirs
  olast,      \* the last call: [op, filter, items, before, answer]
  ocrash,     \* a pointer that is NULL was followed
  osteps

objectVars == <<osetting, onode, otable, orows, osize, ofilter, osessions, oleaks, olast,
                ocrash, osteps>>

Columns == {"id", "ref", "name"}
NoColumn == "none"          \* a value of the file without dbcolumn
NoKeys == <<NoColumn>>      \* the file has no such section
NoRows == {<<>>}
NullCell == -1
ListCell == 99              \* a list, written as a text
NoFilter == <<>>

-----------------------------------------------------------------------------
(* The structure, from the sections of the file.  Sections of foreign keys *)
(* are put together, of the others the first is found.  A key without a    *)
(* column is added all the same, and its name is asked of NULL.            *)
FirstOf(sections, kind) ==
  LET at == SelectInSeq(sections, LAMBDA s : s[1] = kind)
  IN  IF at = 0 THEN NoKeys ELSE sections[at][2]
Together(sections, kind) ==
  IF \A i \in DOMAIN sections : sections[i][1] # kind THEN NoKeys
  ELSE FlattenSeq([i \in DOMAIN sections |-> IF sections[i][1] = kind THEN sections[i][2] ELSE <<>>])
NodeRead(sections) ==
  [ids  |-> FirstOf(sections, "primary_keys"),
   refs |-> Together(sections, "foreign_keys"),
   cols |-> IF \A i \in DOMAIN sections : sections[i][1] # "objects" THEN NoKeys
            ELSE SelectSeq(FirstOf(sections, "objects"), LAMBDA c : c # NoColumn)]
ColumnsOf(keys) == IF keys = NoKeys THEN {} ELSE ToSet(keys)

(* A file that describes the table: its primary key is "id", and no column *)
(* is of two kinds.                                                        *)
Describes(node) ==
  /\ {node.ids, node.refs} \subseteq Seq(Columns \cup {NoColumn})
  /\ node.cols \in Seq(Columns) \cup {NoKeys}
  /\ ColumnsOf(node.ids) \subseteq {"id", NoColumn}
  /\ ColumnsOf(node.refs) \cap ColumnsOf(node.cols) = {}
  /\ node.ids # NoKeys => "id" \notin ColumnsOf(node.refs) \cup ColumnsOf(node.cols)
Values == {"text", "number", "other"} \X Int
IsData(data) ==
  /\ DOMAIN data \subseteq Columns
  /\ \A c \in DOMAIN data : data[c] \in Values \cup ({"list"} \X Seq(Values))

ASSUME ObjectSettings ==
  /\ \A s \in OSettings : /\ s.sections \in Seq(STRING \X Seq(STRING))
                          /\ s.source \in BOOLEAN /\ s.exists \in BOOLEAN
                          /\ Describes(NodeRead(s.sections))
  /\ \A data \in OFilters \cup OItems : IsData(data)

ObjectInit ==
  /\ osetting \in OSettings
  /\ onode = NodeRead(osetting.sections)
  /\ ocrash = \E i \in DOMAIN osetting.sections :
                LET section == osetting.sections[i]
                IN  section[1] # "objects" /\ NoColumn \in ToSet(section[2])
  /\ otable = {} /\ orows = NoRows /\ osize = 0 /\ ofilter = NoFilter
  /\ osessions = 0 /\ oleaks = 0 /\ osteps = 0
  /\ olast = [op |-> "created", filter |-> NoFilter, items |-> <<>>, before |-> {}, answer |-> 1]

-----------------------------------------------------------------------------
(* Keys.  A value is <<"text", n>> (0 is the empty text), <<"number", n>>, *)
(* <<"list", values>> or of another type.                                  *)
Usable(v) == v[1] = "number" \/ (v[1] = "text" /\ v[2] # 0)
KeyElements(column, v) ==
  IF v[1] = "list"
  THEN IF \A i \in DOMAIN v[2] : Usable(v[2][i]) THEN <<<<"inner", column>>>> ELSE <<>>
  ELSE IF Usable(v) THEN <<<<column, v[2]>>>> ELSE <<>>

(* What the data gives for the keys; keys without a value add nothing.     *)
KeyGiven(key, data) ==
  IF key \in DOMAIN data THEN KeyElements(key, data[key]) ELSE <<>>
KeysGiven(keys, data) == FlattenSeq([i \in DOMAIN keys |-> KeyGiven(keys[i], data)])
AllGiven(keys, data) == \A i \in DOMAIN keys : KeyGiven(keys[i], data) # <<>>

(* Mutation: the foreign keys narrow a primary key down.                   *)
ReadConstraintsAll(data) ==
  KeysGiven(onode.ids, data) \o KeysGiven(onode.refs, data) \o KeysGiven(onode.cols, data)

(* What is read: by the primary keys, or if none is given by the others.   *)
ReadConstraints(data) ==
  LET primary == KeysGiven(onode.ids, data)
  IN  IF primary # <<>> THEN primary
      ELSE KeysGiven(onode.refs, data) \o KeysGiven(onode.cols, data)

ReadColumns(data) ==
  ColumnsOf(onode.ids) \cup ColumnsOf(onode.cols)
  \cup (IF KeysGiven(onode.ids, data) = <<>> THEN ColumnsOf(onode.refs) ELSE {})

Nested(elements) == \E i \in DOMAIN elements : elements[i][1] = "inner"
Fits(row, elements) == \A i \in DOMAIN elements : row[elements[i][1]] = elements[i][2]
Selected(elements) == {row \in otable : Fits(row, elements)}
Seen(row, columns) == [c \in columns |-> row[c]]

(* The rows a fetch leaves in the node.  A query that fails is not noticed.*)
Fetched(data) ==
  IF ~osetting.source THEN NoRows
  ELSE IF ~osetting.exists THEN {}
  ELSE {Seen(row, ReadColumns(data)) : row \in Selected(ReadConstraints(data))}

(* SQLite, one statement: the answer and the table.  -1 is an error.       *)
NextId(table) == Max({row["id"] : row \in table} \cup {0}) + 1
Written1(table, attrs) ==
  [c \in Columns |-> IF c \in DOMAIN attrs THEN attrs[c]
                     ELSE IF c = "id" THEN NextId(table) ELSE NullCell]
InsertRow(table, attrs) ==
  LET row == Written1(table, attrs)
  IN  IF ~osetting.exists \/ \E r \in table : r["id"] = row["id"]
      THEN [answer |-> -1, table |-> table]
      ELSE [answer |-> 1, table |-> table \cup {row}]

-----------------------------------------------------------------------------
(* A call has a session of its own, unless the source cannot be opened.    *)
Called(op, filter, items, answer) ==
  /\ osteps' = osteps + 1
  /\ olast' = [op |-> op, filter |-> filter, items |-> items, before |-> otable,
               answer |-> answer]
  /\ UNCHANGED <<osetting, onode>>
Leaves(sessions) == osessions' = osessions + sessions /\ oleaks' = oleaks + sessions
Closes == UNCHANGED <<osessions, oleaks>>

(* A list of values becomes a constraint of its own, and the data of its   *)
(* element is NULL when the constraint is cleared: the process ends, and   *)
(* what was not committed is lost.                                         *)
Dies(op, filter, items) ==
  /\ Called(op, filter, items, 0)
  /\ ocrash' = TRUE
  /\ UNCHANGED <<otable, orows, osize, ofilter, osessions, oleaks>>

(* adbo_db_fetch, adbo_node_fetch: the rows of before are freed first.     *)
Fetch(filter) ==
  IF osetting.source /\ Nested(ReadConstraints(filter)) THEN Dies("fetch", filter, <<>>)
  ELSE /\ Called("fetch", filter, <<>>, IF osetting.source THEN 1 ELSE 0)
       /\ orows' = Fetched(filter)
       /\ Closes /\ UNCHANGED <<otable, osize, ofilter, ocrash>>

(* adbo_node_cursor: the session goes to the cursor, whose destroy closes  *)
(* it; when the query fails nobody closes it.                              *)
OpenCursor(filter) ==
  IF osetting.source /\ Nested(ReadConstraints(filter)) THEN Dies("cursor", filter, <<>>)
  ELSE /\ Called("cursor", filter, <<>>, IF osetting.source /\ osetting.exists THEN 1 ELSE 0)
       /\ IF ~osetting.source THEN Closes
          ELSE IF osetting.exists THEN osessions' = osessions + 1 /\ UNCHANGED oleaks
          ELSE Leaves(1)
       /\ UNCHANGED <<otable, orows, osize, ofilter, ocrash>>
CloseCursor ==
  /\ osessions > oleaks
  /\ Called("closed", NoFilter, <<>>, 1)
  /\ osessions' = osessions - 1
  /\ UNCHANGED <<otable, orows, osize, ofilter, oleaks, ocrash>>

(* adbo_node_updateSize never closes its session.                          *)
UpdateSize ==
  /\ Called("size", NoFilter, <<>>, 1)
  /\ IF osetting.source
     THEN osize' = (IF osetting.exists THEN Cardinality(otable) ELSE 0) /\ Leaves(1)
     ELSE Closes /\ UNCHANGED osize
  /\ UNCHANGED <<otable, orows, ofilter, ocrash>>

-----------------------------------------------------------------------------
(* adbo_node_appendColumn: the value of a column of an item, if it has one.*)
Cell(v) == IF v[1] = "list" THEN ListCell ELSE v[2]
ItemCells(item) ==
  [c \in {d \in ColumnsOf(onode.cols) \cap DOMAIN item : item[d][1] # "other"} |-> Cell(item[c])]

(* The cells of f, and those of g that f has not.                          *)
Filled(f, g) == [c \in DOMAIN f \cup DOMAIN g |-> IF c \in DOMAIN f THEN f[c] ELSE g[c]]

(* Of two elements for a column the last one counts.                       *)
ElementCells(elements) ==
  [c \in {e[1] : e \in ToSet(elements)} |->
     elements[SelectLastInSeq(elements, LAMBDA e : e[1] = c)][2]]

(* Mutation: every item gets the number of the first one.                  *)
InsertItemSame(elements, state, item) ==
  LET ids == [c \in ColumnsOf(onode.ids) |-> NextId(otable)]
      cells == Filled(ItemCells(item), ids)
      done == InsertRow(state.table, Filled(cells, ElementCells(elements)))
  IN  [table |-> done.table, answer |-> done.answer, rows |-> state.rows \cup {cells},
       filter |-> Filled(state.filter, [c \in DOMAIN ids |-> <<"number", ids[c]>>])]

(* adbo_node_insert, an item: the constraint's columns, a number of the    *)
(* sequence for the primary keys, the item's columns.  The number is added *)
(* to the filter, where a value that is there already is found first.  The *)
(* answer is the last item's.                                              *)
InsertItem(elements, state, item) ==
  LET number == IF osetting.exists THEN NextId(state.table) ELSE 1
      cells == Filled(ItemCells(item), [c \in ColumnsOf(onode.ids) |-> number])
      done == InsertRow(state.table, Filled(cells, ElementCells(elements)))
  IN  [table |-> done.table, answer |-> done.answer, rows |-> state.rows \cup {cells},
       filter |-> Filled(state.filter, [c \in ColumnsOf(onode.ids) |-> <<"number", number>>])]

InsertItems(filter, items, elements) ==
  LET after[k \in 0 .. Len(items)] ==
        IF k = 0 THEN [table |-> otable, answer |-> 1, rows |-> {}, filter |-> filter]
        ELSE InsertItem(elements, after[k - 1], items[k])
  IN  after[Len(items)]

(* An item that names its own primary key is looked up with a constraint   *)
(* that is NULL.                                                           *)
NamesItself(items) == \E i \in DOMAIN items : KeysGiven(onode.ids, items[i]) # <<>>

(* The constraint is cleared behind the insert, used or not.               *)
Insert(filter, items, constraint, elements) ==
  IF NamesItself(items) \/ (items # <<>> /\ Nested(constraint)) THEN Dies("insert", filter, items)
  ELSE LET done == InsertItems(filter, items, elements)
       IN  /\ Called("insert", filter, items, done.answer)
           /\ otable' = done.table /\ orows' = done.rows /\ ofilter' = done.filter
           /\ ocrash' = Nested(constraint)
           /\ Closes /\ UNCHANGED osize

(* adbo_node_update_single: only the first item, as INSERT OR IGNORE and   *)
(* then UPDATE.  Nothing to write is TRUE.  Several columns without a key  *)
(* are not separated, and refused.                                         *)
Upsert(elements, cells) ==
  LET row == Written1(otable, Filled(ElementCells(elements), cells))
      hit == Selected(elements)
  IN  IF ~osetting.exists \/ (elements = <<>> /\ Cardinality(DOMAIN cells) > 1)
      THEN [answer |-> -1, table |-> otable]
      ELSE IF \A r \in otable : r["id"] # row["id"]
      THEN [answer |-> 1, table |-> otable \cup {row}]
      ELSE [answer |-> Cardinality(hit),
            table |-> (otable \ hit) \cup {Filled(cells, r) : r \in hit}]

UpdateFirst(filter, items, elements) ==
  LET cells == ItemCells(items[1])
      done == IF onode.cols = NoKeys \/ items = <<>> THEN [answer |-> 0, table |-> otable]
              ELSE IF cells = <<>> THEN [answer |-> 1, table |-> otable]
              ELSE Upsert(elements, cells)
  IN  IF Nested(elements) THEN Dies("update", filter, items)
      ELSE /\ Called("update", filter, items, done.answer)
           /\ otable' = (IF done.answer = 0 THEN otable ELSE done.table)
           /\ orows' = (IF orows = NoRows THEN Fetched(NoFilter) ELSE orows)
           /\ ofilter' = filter
           /\ Closes /\ UNCHANGED <<osize, ocrash>>

(* adbo_node_update without the items of this table: no, and the session   *)
(* stays.                                                                  *)
UpdateNothing(filter) ==
  /\ Called("update", filter, <<>>, 0)
  /\ IF osetting.source THEN Leaves(1) ELSE Closes
  /\ UNCHANGED <<otable, orows, osize, ofilter, ocrash>>

(* adbo_db_update, adbo_node_update, adbo_node_update_state: a row that the*)
(* filter names is updated, else the items are inserted.                   *)
Update(filter, items) ==
  LET primary == KeysGiven(onode.ids, filter)
      foreign == KeysGiven(onode.refs, filter)
  IN  IF ~osetting.source
      THEN UpdateNothing(filter)
      ELSE IF onode.ids # NoKeys /\ AllGiven(onode.ids, filter)
      THEN UpdateFirst(filter, items, primary \o foreign)
      ELSE /\ Cardinality(otable) + Len(items) <= OMaxRows
           /\ Insert(filter, items, primary \o foreign,
                IF onode.refs # NoKeys /\ AllGiven(onode.refs, filter)
                THEN primary \o foreign ELSE <<>>)

(* Mutation: what is given of the keys is enough.                          *)
DeletePart(filter) ==
  LET elements == KeysGiven(onode.ids, filter) \o KeysGiven(onode.refs, filter)
      hit == IF osetting.source /\ osetting.exists THEN Selected(elements) ELSE {}
  IN  /\ Called("delete", filter, <<>>, Cardinality(hit))
      /\ otable' = otable \ hit
      /\ Closes /\ UNCHANGED <<orows, osize, ofilter, ocrash>>

(* adbo_delete, adbo_node_delete: by all the primary keys, or else by what *)
(* is given of them and all the foreign keys; a transaction that changed   *)
(* nothing is rolled back.                                                 *)
Delete(filter) ==
  LET primary == KeysGiven(onode.ids, filter)
      byPrimary == onode.ids # NoKeys /\ AllGiven(onode.ids, filter)
      byForeign == onode.refs # NoKeys /\ AllGiven(onode.refs, filter)
      elements == IF byPrimary THEN primary ELSE primary \o KeysGiven(onode.refs, filter)
      runs == osetting.source /\ (byPrimary \/ byForeign)
      hit == IF runs /\ osetting.exists THEN Selected(elements) ELSE {}
  IN  IF osetting.source /\ Nested(elements) THEN Dies("delete", filter, <<>>)
      ELSE /\ Called("delete", filter, <<>>,
                     IF runs /\ ~osetting.exists THEN -1 ELSE Cardinality(hit))
           /\ otable' = otable \ hit
           /\ Closes /\ UNCHANGED <<orows, osize, ofilter, ocrash>>

ItemLists == UNION {[1 .. n -> OItems] : n \in 0 .. OMaxItems}
ObjectNext ==
  /\ ~ocrash /\ osteps < OMaxSteps
  /\ \/ CloseCursor \/ UpdateSize
     \/ \E filter \in OFilters \cup {ofilter} :
          \/ Fetch(filter) \/ OpenCursor(filter) \/ Delete(filter) \/ UpdateNothing(filter)
          \/ \E items \in ItemLists : Update(filter, items)

-----------------------------------------------------------------------------
(* What a filter names: a row that has all the values of all the keys.     *)
NamedRow(row, keys, filter) ==
  \A c \in ToSet(keys) : c \in DOMAIN filter /\ Usable(filter[c]) /\ row[c] = filter[c][2]

(* An update or a delete leaves the rows alone that the filter does not    *)
(* name by its primary or its foreign keys, an insert leaves all of them.  *)
Touched(filter) ==
  {row \in olast.before : NamedRow(row, onode.ids, filter) \/ NamedRow(row, onode.refs, filter)}
OthersStay ==
  /\ olast.op \in {"insert", "fetch", "cursor", "closed", "size"} => olast.before \subseteq otable
  /\ olast.op \in {"update", "delete"} => olast.before \ Touched(olast.filter) \subseteq otable

(* Every item of an insert makes a row of its own, under the key the filter*)
(* gives; with one item the filter names that row afterwards, so that it   *)
(* can be used for an update.                                              *)
New == otable \ olast.before
InsertsMakeRows ==
  (olast.op = "insert" /\ ~ocrash /\ osetting.exists /\ onode.ids # NoKeys) =>
    /\ Cardinality(New) = Len(olast.items)
    /\ AllGiven(onode.refs, olast.filter) => \A row \in New : NamedRow(row, onode.refs, olast.filter)
    /\ (Len(olast.items) = 1 /\ "id" \notin DOMAIN olast.filter) =>
         \A row \in New : NamedRow(row, onode.ids, ofilter)

(* The rows read are the rows the filter selects, and no others.           *)
Sought(row, keys, filter) ==
  \A c \in ColumnsOf(keys) \cap DOMAIN filter : Usable(filter[c]) => row[c] = filter[c][2]
ReadsWhatIsAsked ==
  (olast.op = "fetch" /\ ~ocrash /\ osetting.source /\ osetting.exists) =>
    LET byPrimary == \E c \in ColumnsOf(onode.ids) : c \in DOMAIN olast.filter /\ Usable(olast.filter[c])
        asked == {row \in otable :
                    IF byPrimary THEN Sought(row, onode.ids, olast.filter)
                    ELSE Sought(row, onode.refs, olast.filter) /\ Sought(row, onode.cols, olast.filter)}
    IN  /\ \A seen \in orows : \E row \in asked : \A c \in DOMAIN seen : seen[c] = row[c]
        /\ \A row \in asked : \E seen \in orows : \A c \in DOMAIN seen : seen[c] = row[c]

(* FALSE is answered only when nothing was changed, and the process ends   *)
(* only when a value is a list or an item names its own key.               *)
HasList(data) == \E c \in DOMAIN data : data[c][1] = "list"
EndsForAReason ==
  /\ olast.answer = 0 => otable = olast.before
  /\ (ocrash /\ osteps > 0) =>
       \/ HasList(olast.filter)
       \/ \E i \in DOMAIN olast.items : "id" \in DOMAIN olast.items[i]

ObjectsKeep == OthersStay /\ InsertsMakeRows /\ ReadsWhatIsAsked /\ EndsForAReason
=============================================================================
