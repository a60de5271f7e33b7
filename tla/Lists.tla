------------------------------- MODULE Lists -------------------------------
(***************************************************************************)
(* The doubly linked list of src/entc/types/eclist.c on which the maps,    *)
(* the vector and the queues of the library stand.  A list is a ring that  *)
(* starts and ends at a node without data, known here by the list's name.  *)
(* Beside the ring, lorder has what each list should hold, and lseen what  *)
(* a cursor gave.  Every piece of data is a number of its own.             *)
(***************************************************************************)
EXTENDS Integers, Sequences, SequencesExt

CONSTANTS
  LLists,   \* the lists: numbers, which are their end nodes too
  LNodes,   \* the nodes the allocator has
  LMaxData  \* bound on the pieces of data that are inserted

ASSUME ListConstants ==
  /\ LLists \subseteq Nat \ {0} /\ LNodes \subseteq Nat \ {0}
  /\ LLists \cap LNodes = {}
  /\ LMaxData \in Nat

VARIABLES
  lring,    \* next, forw and data of every node; NoNode where it is free
  lcursor,  \* the cursor: its list and node; held: cnext answered TRUE
  lsplice,  \* the loop of eclist_splice
  lcount,   \* the pieces of data inserted so far
  lorder, lpass, lseen

listVars == <<lring, lcursor, lsplice, lcount, lorder, lpass, lseen>>

NoNode == 0
NoData == 0
NoPass == [list |-> NoNode, node |-> NoNode, held |-> FALSE]
NoSplice == [list |-> NoNode, node |-> NoNode, to |-> NoNode, dest |-> NoNode]
RingNodes == LLists \cup LNodes

ListInit ==
  /\ lring = [next |-> [n \in RingNodes |-> IF n \in LLists THEN n ELSE NoNode],
              forw |-> [n \in RingNodes |-> IF n \in LLists THEN n ELSE NoNode],
              data |-> [n \in RingNodes |-> NoData]]
  /\ lcursor = NoPass /\ lsplice = NoSplice
  /\ lcount = 0
  /\ lorder = [l \in LLists |-> <<>>]
  /\ lpass = {} /\ lseen = <<>>

-----------------------------------------------------------------------------
FreeNodes == {n \in LNodes : lring.next[n] = NoNode}
FreshNode == CHOOSE n \in FreeNodes : \A m \in FreeNodes : n <= m

(* Mutation: the successor's back link is not moved.                       *)
InsertForward(r, at, n, d) ==
  LET n01 == r.next[at]
  IN  [next |-> [r.next EXCEPT ![at] = n, ![n] = n01],
       forw |-> [r.forw EXCEPT ![n] = r.forw[n01]],
       data |-> [r.data EXCEPT ![n] = d]]

(* eclist_insert: node n with data d, behind "at".                         *)
InsertBehind(r, at, n, d) ==
  LET n01 == r.next[at]
  IN  [next |-> [r.next EXCEPT ![at] = n, ![n] = n01],
       forw |-> [r.forw EXCEPT ![n] = r.forw[n01], ![n01] = n],
       data |-> [r.data EXCEPT ![n] = d]]

(* eclist_erase; the caller goes on from the node before.                  *)
Unlink(r, n) ==
  [next |-> [r.next EXCEPT ![r.forw[n]] = r.next[n], ![n] = NoNode],
   forw |-> [r.forw EXCEPT ![r.next[n]] = r.forw[n], ![n] = NoNode],
   data |-> [r.data EXCEPT ![n] = NoData]]

EraseAnswer(r, n) == r.forw[n]

Entry(n, d) == [node |-> n, data |-> d]
Place(l, n) ==   \* of node n in what the list should hold; 0: the end node
  IF n = l THEN 0 ELSE CHOOSE i \in DOMAIN lorder[l] : lorder[l][i].node = n
Members(l) == {lorder[l][i].node : i \in DOMAIN lorder[l]}
Values(l) == {lorder[l][i].data : i \in DOMAIN lorder[l]}

Calm == lsplice = NoSplice
NoCursor == lcursor = NoPass

-----------------------------------------------------------------------------
(* eclist_insert, eclist_append: append inserts behind the last.           *)
ListInsert(l, at) ==
  /\ Calm /\ at \in Members(l) \cup {l} /\ FreeNodes # {} /\ lcount < LMaxData
  /\ lcount' = lcount + 1
  /\ lring' = InsertBehind(lring, at, FreshNode, lcount + 1)
  /\ lorder' = [lorder EXCEPT ![l] =
                  InsertAt(@, Place(l, at) + 1, Entry(FreshNode, lcount + 1))]
  /\ UNCHANGED <<lcursor, lsplice, lpass, lseen>>

ListAppend(l) == ListInsert(l, lring.forw[l])

(* eclist_set and eclist_swap: the nodes stay, the data moves.             *)
ListSet(l, n) ==
  /\ Calm /\ NoCursor /\ n \in Members(l) /\ lcount < LMaxData
  /\ lcount' = lcount + 1
  /\ lring' = [lring EXCEPT !.data[n] = lcount + 1]
  /\ lorder' = [lorder EXCEPT ![l][Place(l, n)].data = lcount + 1]
  /\ UNCHANGED <<lcursor, lsplice, lpass, lseen>>

ListSwap(l, n, m) ==
  /\ Calm /\ NoCursor /\ n \in Members(l) /\ m \in Members(l)
  /\ lring' = [lring EXCEPT !.data[n] = lring.data[m], !.data[m] = lring.data[n]]
  /\ lorder' = [lorder EXCEPT ![l][Place(l, n)].data = lring.data[m],
                              ![l][Place(l, m)].data = lring.data[n]]
  /\ UNCHANGED <<lcursor, lsplice, lcount, lpass, lseen>>

(* eclist_erase, and eclist_remove, which erases the first node with the   *)
(* data.  Nobody erases the node a cursor stands on but the cursor.        *)
ListErase(l, n) ==
  /\ Calm /\ n \in Members(l) /\ n # lcursor.node
  /\ lring' = Unlink(lring, n)
  /\ lorder' = [lorder EXCEPT ![l] = RemoveAt(@, Place(l, n))]
  /\ lpass' = lpass \ {lring.data[n]}
  /\ UNCHANGED <<lcursor, lsplice, lcount, lseen>>

ListRemove(l, d) ==
  \E i \in DOMAIN lorder[l] :
    /\ lring.data[lorder[l][i].node] = d
    /\ \A j \in 1 .. i - 1 : lring.data[lorder[l][j].node] # d
    /\ ListErase(l, lorder[l][i].node)

(* eclist_clear frees every node from the first on.                        *)
ListClear(l) ==
  /\ Calm /\ NoCursor /\ lorder[l] # <<>>
  /\ LET gone == Members(l)
         Cut(f, v) == [n \in RingNodes |-> IF n \in gone THEN v ELSE IF n = l THEN l ELSE f[n]]
     IN  lring' = [next |-> Cut(lring.next, NoNode), forw |-> Cut(lring.forw, NoNode),
                   data |-> [n \in RingNodes |-> IF n \in gone THEN NoData ELSE lring.data[n]]]
  /\ lorder' = [lorder EXCEPT ![l] = <<>>]
  /\ UNCHANGED <<lcursor, lsplice, lcount, lpass, lseen>>

(* eclist_splice: from "from" up to "to" or the end, one round of the loop *)
(* for each node: its data is appended to dest and the node is erased.     *)
SpliceStart(l, from, to, dest) ==
  /\ Calm /\ NoCursor /\ l # dest
  /\ from \in Members(l) /\ to \in Members(l) \cup {l}
  /\ to = l \/ Place(l, from) <= Place(l, to)
  /\ lsplice' = [list |-> l, node |-> from, to |-> to, dest |-> dest]
  /\ UNCHANGED <<lring, lcursor, lcount, lorder, lpass, lseen>>

SpliceStep ==
  LET l == lsplice.list  n == lsplice.node  dest == lsplice.dest
      d == lring.data[n]
      longer == InsertBehind(lring, lring.forw[dest], FreshNode, d)
      shorter == Unlink(longer, n)
  IN  /\ ~Calm /\ n # l /\ n # lsplice.to /\ FreeNodes # {}
      /\ lring' = shorter
      /\ lsplice' = [lsplice EXCEPT !.node = shorter.next[EraseAnswer(longer, n)]]
      /\ lorder' = [lorder EXCEPT ![l] = RemoveAt(@, Place(l, n)),
                                  ![dest] = Append(@, Entry(FreshNode, d))]
      /\ UNCHANGED <<lcursor, lcount, lpass, lseen>>

SpliceEnd ==
  /\ ~Calm /\ (lsplice.node = lsplice.list \/ lsplice.node = lsplice.to)
  /\ lsplice' = NoSplice
  /\ UNCHANGED <<lring, lcursor, lcount, lorder, lpass, lseen>>

(* eclist_cursor: it stands nowhere yet.                                   *)
CursorStart(l) ==
  /\ Calm /\ NoCursor /\ lorder[l] # <<>>
  /\ lcursor' = [NoPass EXCEPT !.list = l]
  /\ lpass' = Values(l) /\ lseen' = <<>>
  /\ UNCHANGED <<lring, lsplice, lcount, lorder>>

(* eclist_cnext: FALSE, and the pass is over, at the end node.             *)
CursorNext ==
  LET l == lcursor.list
      n == lring.next[IF lcursor.node = NoNode THEN l ELSE lcursor.node]
  IN  /\ Calm /\ ~NoCursor
      /\ IF n = l
         THEN lcursor' = NoPass /\ lseen' = <<>> /\ lpass' = {}
         ELSE /\ lcursor' = [list |-> l, node |-> n, held |-> TRUE]
              /\ lseen' = Append(lseen, lring.data[n]) /\ UNCHANGED lpass
      /\ UNCHANGED <<lring, lsplice, lcount, lorder>>

(* Mutation: the cursor goes on from the node behind the erased one.       *)
CursorEraseSkips ==
  /\ lcursor.held
  /\ lring' = Unlink(lring, lcursor.node)
  /\ lcursor' = [lcursor EXCEPT !.node = lring.next[lcursor.node], !.held = FALSE]
  /\ lorder' = [lorder EXCEPT ![lcursor.list] = RemoveAt(@, Place(lcursor.list, lcursor.node))]
  /\ lpass' = lpass \ {lring.data[lcursor.node]}
  /\ UNCHANGED <<lsplice, lcount, lseen>>

(* eclist_cerase: the node the cursor stands on, once.                     *)
CursorErase ==
  /\ lcursor.held
  /\ lring' = Unlink(lring, lcursor.node)
  /\ lcursor' = [lcursor EXCEPT !.node = EraseAnswer(lring, lcursor.node), !.held = FALSE]
  /\ lorder' = [lorder EXCEPT ![lcursor.list] = RemoveAt(@, Place(lcursor.list, lcursor.node))]
  /\ lpass' = lpass \ {lring.data[lcursor.node]}
  /\ UNCHANGED <<lsplice, lcount, lseen>>

ListNext ==
  \/ \E l \in LLists :
       \/ ListAppend(l) \/ ListClear(l) \/ CursorStart(l)
       \/ \E d \in 1 .. LMaxData : ListRemove(l, d)
       \/ \E n \in RingNodes :
            \/ ListInsert(l, n) \/ ListSet(l, n) \/ ListErase(l, n)
            \/ \E m \in RingNodes :
                 \/ ListSwap(l, n, m)
                 \/ \E dest \in LLists : SpliceStart(l, n, m, dest)
  \/ SpliceStep \/ SpliceEnd
  \/ CursorNext \/ CursorErase

-----------------------------------------------------------------------------
(* Following next from the end node meets what the list should hold, in    *)
(* order, and ends at the end node; following forw meets it backwards; a   *)
(* node is in one list, or free.                                           *)
ListsAreRings ==
  /\ \A l \in LLists :
       LET s == <<l>> \o [i \in DOMAIN lorder[l] |-> lorder[l][i].node] \o <<l>>
       IN  \A i \in 1 .. Len(s) - 1 :
             lring.next[s[i]] = s[i + 1] /\ lring.forw[s[i + 1]] = s[i]
  /\ \A l \in LLists : \A i \in DOMAIN lorder[l] :
       lring.data[lorder[l][i].node] = lorder[l][i].data
  /\ \A l, k \in LLists : l # k => Members(l) \cap Members(k) = {}
  /\ FreeNodes = LNodes \ UNION {Members(l) : l \in LLists}

(* A pass of a cursor gives nothing twice, and whatever was in the list    *)
(* all along lies behind it or ahead of it: nothing is skipped, also when  *)
(* the pass erases what it was given and others insert and erase.          *)
CursorCovers ==
  LET l == lcursor.list
      at == IF lcursor.node = NoNode THEN 0 ELSE Place(l, lcursor.node)
  IN  /\ IsInjective(lseen)
      /\ lcursor # NoPass =>
           lpass \subseteq ToSet(lseen) \cup {lorder[l][i].data : i \in at + 1 .. Len(lorder[l])}

-----------------------------------------------------------------------------
(***************************************************************************)
(* The maps of src/entc/types: ecmap and ecmapchar (keys are names),       *)
(* ecintmap (numbers), ecptrmap (addresses).  All four are lists of key    *)
(* and data (Lists), searched from the front.  Appending does not look     *)
(* for the key; ecmapchar_set does.  ecintmap can be ordered.              *)
(***************************************************************************)

CONSTANTS
  MKeys,    \* the keys, numbers
  MMaxData  \* bound on the pieces of data

ASSUME MapConstants == MKeys \subseteq Nat /\ MMaxData \in Nat

VARIABLES
  mlist,    \* the entries in the order of the list
  mcount,   \* the pieces of data so far
  mstored,  \* what was stored and not erased: pairs of key and data
  mhow      \* append, set: how entries were stored; ordered: orderAll was called

mapVars == <<mlist, mcount, mstored, mhow>>

MapInit ==
  /\ mlist = <<>> /\ mcount = 0
  /\ mstored = {}
  /\ mhow = {}

MapEntry(k, d) == [key |-> k, data |-> d]

(* The place at which find stops; 0 is the end of the list.                *)
FindPlace(s, k) ==
  LET hits == {i \in DOMAIN s : s[i].key = k}
  IN  IF hits = {} THEN 0 ELSE CHOOSE i \in hits : \A j \in hits : i <= j

(* ecmap_append, ecmapchar_append and appendTO, ecintmap_append,           *)
(* ecptrmap_append.                                                        *)
MapAppend(k) ==
  /\ mcount < MMaxData
  /\ mcount' = mcount + 1
  /\ mlist' = Append(mlist, MapEntry(k, mcount + 1))
  /\ mstored' = mstored \cup {MapEntry(k, mcount + 1)}
  /\ mhow' = mhow \cup {"append"}

(* ecmapchar_set; ecptrmap_reset of the node that find answered.           *)
MapSet(k) ==
  LET at == FindPlace(mlist, k)
      e == MapEntry(k, mcount + 1)
  IN  /\ mcount < MMaxData
      /\ mcount' = mcount + 1
      /\ mlist' = IF at = 0 THEN Append(mlist, e) ELSE [mlist EXCEPT ![at] = e]
      /\ mstored' = IF at = 0 THEN mstored \cup {e}
                    ELSE (mstored \ {mlist[at]}) \cup {e}
      /\ mhow' = mhow \cup {"set"}

(* ecmap_erase and its like, of a node found by its key.                   *)
MapErase(k) ==
  LET at == FindPlace(mlist, k)
  IN  /\ at # 0
      /\ mlist' = RemoveAt(mlist, at)
      /\ mstored' = mstored \ {mlist[at]}
      /\ UNCHANGED <<mcount, mhow>>

MapClear ==
  /\ mlist # <<>>
  /\ mlist' = <<>> /\ mstored' = {} /\ mhow' = {}
  /\ UNCHANGED mcount

(* Mutation: the smallest key is not noted after an exchange.              *)
RowForgets(t, i) ==
  LET row[j \in 0 .. Len(t)] ==
        IF j <= i THEN t
        ELSE IF row[j - 1][j].key < t[i].key
             THEN [row[j - 1] EXCEPT ![i] = row[j - 1][j], ![j] = row[j - 1][i]]
             ELSE row[j - 1]
  IN  row[Len(t)]

(* ecintmap_orderAll: every entry is exchanged with any smaller one behind *)
(* it; key and data are exchanged, the nodes stay.                         *)
Exchanged(t, i, j) ==
  IF t[j].key < t[i].key THEN [t EXCEPT ![i] = t[j], ![j] = t[i]] ELSE t
RowOrdered(t, i) ==
  LET row[j \in 0 .. Len(t)] == IF j <= i THEN t ELSE Exchanged(row[j - 1], i, j)
  IN  row[Len(t)]
OrderAll(s) ==
  LET rows[i \in 0 .. Len(s)] == IF i = 0 THEN s ELSE RowOrdered(rows[i - 1], i)
  IN  rows[Len(s)]

MapOrder ==
  /\ mlist # <<>>
  /\ mlist' = OrderAll(mlist)
  /\ mhow' = mhow \cup {"ordered"}
  /\ UNCHANGED <<mcount, mstored>>

MapNext ==
  \/ \E k \in MKeys : MapAppend(k) \/ MapSet(k) \/ MapErase(k)
  \/ MapClear \/ MapOrder

-----------------------------------------------------------------------------
(* The list has what was stored and not erased, once, whatever the order   *)
(* of appending, replacing, erasing and ordering.  Where nothing was       *)
(* appended past find, each key is there once.  Until orderAll was called  *)
(* an appended entry waits behind the older ones of its key.  And orderAll *)
(* sorts by key without parting a key from its data.                       *)
MapKeepsEntries ==
  /\ IsInjective(mlist) /\ ToSet(mlist) = mstored
  /\ "append" \notin mhow => \A i, j \in DOMAIN mlist : mlist[i].key = mlist[j].key => i = j
  /\ mhow \subseteq {"append"} => \A i, j \in DOMAIN mlist : i < j => mlist[i].data < mlist[j].data
  /\ LET sorted == OrderAll(mlist)
     IN  /\ \A i, j \in DOMAIN sorted : i < j => sorted[i].key <= sorted[j].key
         /\ ToSet(sorted) = mstored

(* What the users of lists and maps rely on: a list is the ring it should  *)
(* be, a cursor may be trusted while others change the list, and a map has *)
(* the entries that were stored.                                           *)
ListsKeep == ListsAreRings /\ CursorCovers /\ MapKeepsEntries
=============================================================================
