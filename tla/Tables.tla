------------------------------- MODULE Tables -------------------------------
(***************************************************************************)
(* src/entc/types/ectable.c, a table in segments of rows that are          *)
(* allocated when they are touched, and src/entc/types/eccursor.c, which   *)
(* reads a table that a callback fills again and again; the callback is    *)
(* that of src/libadbo/core/adbo_node.c, over the rows of a database       *)
(* cursor.  Row 0 is the header.                                           *)
(***************************************************************************)
EXTENDS Integers, FiniteSets, Sequences, SequencesExt

CONSTANTS
  TCols, TRows, \* of the table; rows in a segment
  TMaxRow,      \* bound on the rows that are set
  TPrefetch,    \* PREFETCHED_CACHE
  TResults      \* how many rows the database may have

ASSUME TableConstants ==
  /\ TCols \in Nat \ {0} /\ TRows \in Nat \ {0} /\ TMaxRow \in Nat
  /\ TPrefetch \in Nat \ {0} /\ TResults \subseteq Nat

VARIABLES
  ttable, tset,                       \* a table, and what was set in it
  cpos, cmax, cdata, cdone, ctable,   \* EcCursor_s and AdboCursorData
  cresult, ctaken, cgiven, cstate,    \* the database's rows; what was read
  cdeletes                            \* how often ectable_delete got the table

tableVars  == <<ttable, tset>>
cursorVars == <<cpos, cmax, cdata, cdone, ctable, cresult, ctaken, cgiven, cstate, cdeletes>>

NoSegment == <<>>
NoValue == 0
Columns == 0 .. TCols - 1

(* ectable_new.                                                            *)
NewTable(cols, rows) ==
  [cols |-> cols, rows |-> rows, fill |-> 0, index |-> <<NoSegment>>]

(* ectable_resizeSegmentIndex and ectable_getSegment: the index grows, and *)
(* a segment is allocated with nothing in it.                              *)
Touched(t, row) ==
  LET segno == row \div t.rows
      size == IF segno < Len(t.index) THEN Len(t.index) ELSE segno + 1
      segment(i) == IF i <= Len(t.index) THEN t.index[i] ELSE NoSegment
  IN  [t EXCEPT !.index = [i \in 1 .. size |->
         IF i = segno + 1 /\ segment(i) = NoSegment
         THEN [p \in 0 .. t.cols * t.rows - 1 |-> NoValue] ELSE segment(i)]]

(* ectable_getPosition: the segment, and the place in it.                  *)
SegmentOf(t, row) == 1 + row \div t.rows
OffsetOf(t, row, col) == (row - (row \div t.rows) * t.rows) * t.cols + col

(* Mutation: the columns are not counted in.                               *)
SetFlat(t, row, col, v) ==
  LET u == Touched(t, row)
  IN  [u EXCEPT !.index[SegmentOf(u, row)][(OffsetOf(u, row, 0) \div t.cols) + col] = v,
                !.fill = IF row > u.fill THEN row ELSE u.fill]

(* ectable_set and ectable_get, of a column of the table.                  *)
SetCell(t, row, col, v) ==
  LET u == Touched(t, row)
  IN  [u EXCEPT !.index[SegmentOf(u, row)][OffsetOf(u, row, col)] = v,
                !.fill = IF row > u.fill THEN row ELSE u.fill]

Cell(t, row, col) == Touched(t, row).index[SegmentOf(t, row)][OffsetOf(t, row, col)]

(* ectable_first, ectable_next, ectable_end: rows up to the last that was  *)
(* set, those of segments never touched left out; a table with nothing     *)
(* behind row 0 is taken to be empty.                                      *)
RowEnd(t) == IF t.fill = 0 THEN 0 ELSE t.fill + 1
RowAfter(t, node) ==
  LET from[i \in 0 .. t.fill + 1] ==
        IF i > t.fill THEN t.fill + 1
        ELSE IF t.index[SegmentOf(t, i)] # NoSegment THEN i ELSE from[i + 1]
  IN  from[node + 1]
RowsMet(t) ==
  LET met[i \in 0 .. t.fill + 1] == IF i = RowEnd(t) THEN {} ELSE {i} \cup met[RowAfter(t, i)]
  IN  met[0]

-----------------------------------------------------------------------------
(* The table on its own.                                                   *)
TableInit ==
  /\ ttable = NewTable(TCols, TRows)
  /\ tset = [r \in 0 .. TMaxRow |-> [c \in Columns |-> NoValue]]

TableSet(row, col) ==
  LET v == 1 + (tset[row][col] % 2)
  IN  /\ ttable' = SetCell(ttable, row, col, v)
      /\ tset' = [tset EXCEPT ![row][col] = v]

TableGet(row) ==
  /\ ttable' = Touched(ttable, row)
  /\ UNCHANGED tset

(* ectable_clear: the segments are freed; fill stays.                      *)
TableClear ==
  /\ \E i \in DOMAIN ttable.index : ttable.index[i] # NoSegment
  /\ ttable' = [ttable EXCEPT !.index = [i \in DOMAIN @ |-> NoSegment]]
  /\ tset' = [r \in 0 .. TMaxRow |-> [c \in Columns |-> NoValue]]

TableNext ==
  \/ \E row \in 0 .. TMaxRow : TableGet(row) \/ \E col \in Columns : TableSet(row, col)
  \/ TableClear

(* Every cell has what was set in it last, however the segments were       *)
(* touched, and a walk over the rows meets all that have something, unless *)
(* only the header was set.                                                *)
TableKeeps ==
  /\ \A r \in 0 .. TMaxRow : \A c \in Columns : Cell(ttable, r, c) = tset[r][c]
  /\ ttable.fill > 0 =>
       {r \in 1 .. TMaxRow : \E c \in Columns : tset[r][c] # NoValue} \subseteq RowsMet(ttable)

-----------------------------------------------------------------------------
(* The cursor over a database result.                                      *)
Field(row, col) == row * TCols + col + 1
ResultRow(row) == [c \in Columns |-> Field(row, c)]

(* adbo_cursordata_create; eccursor_create and eccursor_callbacks.         *)
CursorInit ==
  /\ cresult \in TResults
  /\ cpos = 0 /\ cmax = 0 /\ cdata = FALSE /\ cdone = FALSE
  /\ ctable = NewTable(TCols, TPrefetch + 1)
  /\ ctaken = 0 /\ cgiven = <<>>
  /\ cstate = "open" /\ cdeletes = 0

(* adbo_cursor_fill: up to TPrefetch rows, from row 1 on; done when the    *)
(* result ended.                                                           *)
Filled(t, n) ==
  LET filled[r \in 0 .. n] ==
        IF r = 0 THEN t
        ELSE LET cells[c \in 0 .. TCols] ==
                   IF c = 0 THEN filled[r - 1]
                   ELSE SetCell(cells[c - 1], r, c - 1, Field(ctaken + r, c - 1))
             IN  cells[TCols]
  IN  filled[n]

(* Mutation: the last rows are not given when the result ends.             *)
FillWhole ==
  LET left == cresult - ctaken
      n == IF cdone THEN 0 ELSE IF left >= TPrefetch THEN TPrefetch ELSE 0
  IN  /\ ctable' = Filled(ctable, n)
      /\ ctaken' = ctaken + n
      /\ cdone' = (cdone \/ n < TPrefetch)
      /\ cmax' = n
      /\ cdata' = (n > 0)

CursorFill ==
  LET left == cresult - ctaken
      n == IF cdone THEN 0 ELSE IF left >= TPrefetch THEN TPrefetch ELSE left
  IN  /\ ctable' = Filled(ctable, n)
      /\ ctaken' = ctaken + n
      /\ cdone' = (cdone \/ n < TPrefetch)
      /\ cmax' = n
      /\ cdata' = (n > 0)   \* the callback answers NULL when it has no rows

(* eccursor_next, and eccursor_get of each column when it answers TRUE.    *)
CursorStep ==
  /\ cstate = "open"
  /\ IF cpos + 1 < cmax
     THEN /\ cpos' = cpos + 1
          /\ UNCHANGED <<cmax, cdata, cdone, ctable, ctaken, cstate>>
     ELSE /\ CursorFill
          /\ cpos' = IF cmax' > 0 THEN 0 ELSE cpos + 1
          /\ cstate' = IF cmax' > 0 THEN "open" ELSE "end"
  /\ cgiven' = IF cstate' = "end" THEN cgiven
               ELSE Append(cgiven, [c \in Columns |-> Cell(ctable', cpos' + 1, c)])
  /\ UNCHANGED <<cresult, cdeletes>>

(* eccursor_destroy: adbo_cursor_destroy deletes the table, and so does    *)
(* the cursor if it still has it.                                          *)
CursorDestroy ==
  /\ cstate # "gone"
  /\ cstate' = "gone"
  /\ cdeletes' = cdeletes + (IF cdata THEN 2 ELSE 1)
  /\ UNCHANGED <<cpos, cmax, cdata, cdone, ctable, cresult, ctaken, cgiven>>

RowNext == CursorStep \/ CursorDestroy

(* The reader gets the rows of the result, in order and each once, across  *)
(* every refill; when it is told the end it got them all.  A cursor that   *)
(* was read to its end deletes its table once.                             *)
CursorReadsResult ==
  /\ cgiven = [i \in 1 .. Len(cgiven) |-> ResultRow(i)]
  /\ cstate = "end" => Len(cgiven) = cresult
  /\ cmax = 0 => cdeletes <= 1

-----------------------------------------------------------------------------
(***************************************************************************)
(* src/entc/types/ecchain.c: pointers in numbered slots.  A slot that was  *)
(* given back is used again, the first one given back first; when all are  *)
(* in use the array doubles.  A caller gives back a slot once.  And     *)
(* src/entc/types/ecvector.c: a list of pointers that are found again by   *)
(* the number they were given.                                             *)
(***************************************************************************)

CONSTANTS
  SLength,  \* the slots at first (200 in the code)
  SMaxAdds  \* bound on the pointers that are stored

ASSUME SlotConstants == SLength \in Nat \ {0} /\ SMaxAdds \in Nat

VARIABLES
  sbuffer, slength, snextempty, sstack, \* of EcChain_s
  sadds,    \* the pointers so far: each is a number of its own
  sowner,   \* the slot each caller was given, while it has not given it back
  vlist, vcounter,  \* of EcVector_s: entries [index, data] in order
  vtold             \* what each pointer that is in the vector was given

slotVars == <<sbuffer, slength, snextempty, sstack, sadds, sowner>>
vectorVars == <<vlist, vcounter, vtold>>

NoPointer == 0
EmptySlots(n) == [i \in 0 .. n - 1 |-> NoPointer]

(* ecchain_create and ecchain_clear.                                       *)
SlotInit ==
  /\ slength = SLength /\ sbuffer = EmptySlots(SLength)
  /\ snextempty = 0 /\ sstack = <<>>
  /\ sadds = 0 /\ sowner = <<>>

(* Mutation: the array does not grow.                                      *)
NextIndexStays ==
  IF sstack # <<>>
  THEN [pos |-> Head(sstack), stack |-> Tail(sstack), next |-> snextempty,
        length |-> slength, buffer |-> sbuffer]
  ELSE [pos |-> IF snextempty = slength THEN slength - 1 ELSE snextempty,
        stack |-> sstack, next |-> snextempty + 1,
        length |-> slength, buffer |-> sbuffer]

(* ecchain_getNextIndex.                                                   *)
NextIndex ==
  IF sstack # <<>>
  THEN [pos |-> Head(sstack), stack |-> Tail(sstack), next |-> snextempty,
        length |-> slength, buffer |-> sbuffer]
  ELSE LET full == snextempty = slength
           len == IF full THEN 2 * slength ELSE slength
       IN  [pos |-> snextempty, stack |-> sstack, next |-> snextempty + 1, length |-> len,
            buffer |-> [i \in 0 .. len - 1 |-> IF i < slength THEN sbuffer[i] ELSE NoPointer]]

(* ecchain_add.                                                            *)
SlotAdd ==
  /\ sadds < SMaxAdds
  /\ sadds' = sadds + 1
  /\ sbuffer' = [NextIndex.buffer EXCEPT ![NextIndex.pos] = sadds + 1]
  /\ sstack' = NextIndex.stack
  /\ snextempty' = NextIndex.next /\ slength' = NextIndex.length
  /\ sowner' = Append(sowner, NextIndex.pos)

GivenBack == -1
HoldsSlot(p) == p \in DOMAIN sowner /\ sowner[p] # GivenBack

(* ecchain_del.                                                            *)
SlotDel(p) ==
  /\ HoldsSlot(p) /\ sowner[p] < snextempty
  /\ sstack' = Append(sstack, sowner[p])
  /\ sbuffer' = [sbuffer EXCEPT ![sowner[p]] = NoPointer]
  /\ sowner' = [sowner EXCEPT ![p] = GivenBack]
  /\ UNCHANGED <<slength, snextempty, sadds>>

SlotClear ==
  /\ snextempty > 0
  /\ sbuffer' = EmptySlots(slength)
  /\ snextempty' = 0 /\ sstack' = <<>>
  /\ sowner' = [p \in DOMAIN sowner |-> GivenBack]
  /\ UNCHANGED <<slength, sadds>>

SlotNext == SlotAdd \/ SlotClear \/ \E p \in 1 .. SMaxAdds : SlotDel(p)

(* ecchain_get.                                                            *)
SlotGet(i) == IF i < slength THEN sbuffer[i] ELSE NoPointer

(* ecchain_isValidIndex; -1 behind the last slot that was ever used.       *)
SlotState(i) == IF i >= snextempty THEN -1 ELSE IF sbuffer[i] # NoPointer THEN 1 ELSE 0

(* ecchain_begin and ecchain_next: the next slot in use from i on.         *)
SlotFrom(i) ==
  LET from[k \in 0 .. snextempty + 1] ==
        IF k > snextempty \/ SlotState(k) < 0 THEN snextempty
        ELSE IF SlotState(k) = 1 THEN k ELSE from[k + 1]
  IN  from[i]

(* The indexes that a walk from begin by next to end meets.                *)
WalkedSlots ==
  LET walk[k \in 0 .. snextempty] ==
        IF SlotFrom(k) = snextempty THEN {} ELSE {SlotFrom(k)} \cup walk[SlotFrom(k) + 1]
  IN  walk[0]

-----------------------------------------------------------------------------
(* Through growth and reuse every pointer stays in the slot its caller was *)
(* told, no slot is told to two callers, and a walk meets exactly the      *)
(* slots in use.                                                           *)
SlotsKeep ==
  /\ \A p \in DOMAIN sowner : HoldsSlot(p) => SlotGet(sowner[p]) = p
  /\ \A p, q \in DOMAIN sowner : HoldsSlot(p) /\ sowner[p] = sowner[q] => p = q
  /\ WalkedSlots = {sowner[p] : p \in {q \in DOMAIN sowner : HoldsSlot(q)}}

-----------------------------------------------------------------------------
VectorInit == vlist = <<>> /\ vcounter = 0 /\ vtold = <<>>

(* Mutation: the number is the place in the list.                          *)
VectorAddAtEnd ==
  /\ Len(vtold) < SMaxAdds
  /\ vcounter' = vcounter + 1
  /\ vlist' = Append(vlist, [index |-> Len(vlist) + 1, data |-> Len(vtold) + 1])
  /\ vtold' = Append(vtold, Len(vlist) + 1)

(* ecvector_append and ecvector_add.                                       *)
VectorAdd ==
  /\ Len(vtold) < SMaxAdds
  /\ vcounter' = vcounter + 1
  /\ vlist' = Append(vlist, [index |-> vcounter + 1, data |-> Len(vtold) + 1])
  /\ vtold' = Append(vtold, vcounter + 1)

(* ecvector_find, ecvector_at and ecvector_get: 0 if there is none.        *)
VectorPlace(i) == SelectInSeq(vlist, LAMBDA e : e.index = i)
VectorGet(i) == IF VectorPlace(i) = 0 THEN NoPointer ELSE vlist[VectorPlace(i)].data

(* ecvector_erase of the node that was found.                              *)
VectorErase(i) ==
  /\ VectorPlace(i) # 0
  /\ vlist' = RemoveAt(vlist, VectorPlace(i))
  /\ vtold' = [vtold EXCEPT ![VectorGet(i)] = GivenBack]
  /\ UNCHANGED vcounter

(* ecvector_clear: the numbers start again.                                *)
VectorClear ==
  /\ vlist # <<>>
  /\ vlist' = <<>> /\ vcounter' = 0
  /\ vtold' = [p \in DOMAIN vtold |-> GivenBack]

VectorNext == VectorAdd \/ VectorClear \/ \E i \in 1 .. SMaxAdds : VectorErase(i)

(* The number a pointer was given finds it whatever was erased before and  *)
(* behind it, and an erased one finds nothing.                             *)
VectorKeeps ==
  /\ \A p \in DOMAIN vtold : vtold[p] # GivenBack => VectorGet(vtold[p]) = p
  /\ Len(vlist) = Cardinality({p \in DOMAIN vtold : vtold[p] # GivenBack})

(* Cells, rows, slots and numbered pointers are found where they were put, *)
(* whatever was changed before.                                            *)
TablesKeep == TableKeeps /\ CursorReadsResult /\ SlotsKeep /\ VectorKeeps
=============================================================================
