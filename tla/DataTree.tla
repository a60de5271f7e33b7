------------------------------ MODULE DataTree ------------------------------
(***************************************************************************)
(* The data tree EcUdc (src/entc/types/ecudc.c): items of a type, with a   *)
(* name, that are held by the program or by one container.  A node finds   *)
(* its items by the key they were added under (EcMap), a list keeps them in*)
(* order (EcList), an info has one optional part (the extras of a user     *)
(* info, the parts of a set or a method).                                  *)
(***************************************************************************)
EXTENDS Integers, FiniteSets, Sequences, SequencesExt

CONSTANTS UItems, UNames, UValues

ASSUME TreeConstants == IsFiniteSet(UItems) /\ UValues \subseteq Int /\ 0 \in UValues

VARIABLES
  utype, uname, uval,   \* of every item; NoItem is memory that is not an item
  ukids,                \* the entries [key, item] of every container
  uhold,                \* the items the program has
  ulost                 \* items nobody has any more

treeVars == <<utype, uname, uval, ukids, uhold, ulost>>

NoItem == "none"
NoName == "unnamed"
Containers == {"node", "list", "info"}
Numbers == {"int16", "int32", "double"}
Leaves == Numbers \cup {"string", "bool"}

TreeInit ==
  /\ utype = [i \in UItems |-> NoItem]
  /\ uname = [i \in UItems |-> NoName]
  /\ uval  = [i \in UItems |-> 0]
  /\ ukids = [i \in UItems |-> <<>>]
  /\ uhold = {} /\ ulost = {}

(* ecmap_find: the first entry under the key, 0 if there is none.          *)
KeyPlace(c, n) == SelectInSeq(ukids[c], LAMBDA e : e.key = n)
KidsOf(c) == {ukids[c][k].item : k \in DOMAIN ukids[c]}

(* An item and everything below it.                                        *)
Below(S) ==
  LET reach[k \in 0 .. Cardinality(UItems)] ==
        IF k = 0 THEN S ELSE reach[k - 1] \cup UNION {KidsOf(c) : c \in reach[k - 1]}
  IN  reach[Cardinality(UItems)]

Alive == {i \in UItems : utype[i] # NoItem}

(* ecudc_create, by the type.                                              *)
Create(i, t, n) ==
  /\ utype[i] = NoItem
  /\ utype' = [utype EXCEPT ![i] = t]
  /\ uname' = [uname EXCEPT ![i] = n]
  /\ uhold' = uhold \cup {i}
  /\ UNCHANGED <<uval, ukids, ulost>>

(* ecudc_destroy of the items in S and what they contain.  The value of a  *)
(* boolean is kept in the pointer to its contents, and an item is freed    *)
(* only when that pointer is NULL: one that is TRUE stays.                 *)
Stays(i) == utype[i] = "bool" /\ uval[i] # 0
Destroyed(S) == {i \in Below(S) : ~Stays(i)}
Destroy(S) ==
  /\ utype' = [i \in UItems |-> IF i \in Destroyed(S) THEN NoItem ELSE utype[i]]
  /\ uname' = [i \in UItems |-> IF i \in Destroyed(S) THEN NoName ELSE uname[i]]
  /\ uval'  = [i \in UItems |-> IF i \in Destroyed(S) THEN 0 ELSE uval[i]]
  /\ ulost' = ulost \cup (Below(S) \ Destroyed(S))

DestroyItem(i) ==
  /\ i \in uhold
  /\ Destroy({i})
  /\ ukids' = [c \in UItems |-> IF c \in Below({i}) THEN <<>> ELSE ukids[c]]
  /\ uhold' = uhold \ {i}

(* ecudc_add: ecudc_node_add refuses an item without a name, and what is   *)
(* not a container refuses any.                                            *)
Takes(c, n) == utype[c] = "list" \/ (utype[c] = "node" /\ n # NoName)
Keyed(n, i) == [key |-> n, item |-> i]

Add(c, i) ==
  /\ c \in Alive /\ i \in uhold
  /\ c \notin Below({i})
  /\ Takes(c, uname[i])
  /\ ukids' = [ukids EXCEPT ![c] = Append(@, Keyed(uname[i], i))]
  /\ uhold' = uhold \ {i}
  /\ UNCHANGED <<utype, uname, uval, ulost>>

(* The program puts an item into the record an info gives it.              *)
Attach(c, i) ==
  /\ c \in Alive /\ utype[c] = "info" /\ ukids[c] = <<>>
  /\ i \in uhold /\ c \notin Below({i})
  /\ ukids' = [ukids EXCEPT ![c] = <<Keyed(NoName, i)>>]
  /\ uhold' = uhold \ {i}
  /\ UNCHANGED <<utype, uname, uval, ulost>>

(* ecudc_add_asString, add_asInt16 and its like: create, set, add.  The    *)
(* caller does not learn that a node refused the new item.                 *)
AddAs(c, i, t, n, v) ==
  /\ c \in Alive /\ utype[c] \in {"node", "list"} /\ utype[i] = NoItem
  /\ utype' = [utype EXCEPT ![i] = t]
  /\ uname' = [uname EXCEPT ![i] = n]
  /\ uval'  = [uval EXCEPT ![i] = v]
  /\ IF Takes(c, n)
     THEN ukids' = [ukids EXCEPT ![c] = Append(@, Keyed(n, i))] /\ UNCHANGED ulost
     ELSE ulost' = ulost \cup {i} /\ UNCHANGED ukids
  /\ UNCHANGED uhold

(* ecudc_setS, setInt16 and its like, setBool: only for the item's type.   *)
SetValue(i, v) ==
  /\ i \in Alive \ ulost /\ utype[i] \in Leaves
  /\ uval' = [uval EXCEPT ![i] = v]
  /\ UNCHANGED <<utype, uname, ukids, uhold, ulost>>

(* ecudc_setName: the key in the container stays.                          *)
SetName(i, n) ==
  /\ i \in Alive \ ulost
  /\ uname' = [uname EXCEPT ![i] = n]
  /\ UNCHANGED <<utype, uval, ukids, uhold, ulost>>

(* ecudc_del and ecudc_node_del.                                           *)
Del(c, n) ==
  LET at == KeyPlace(c, n)
      i == ukids[c][at].item
  IN  /\ utype[c] = "node" /\ at # 0
      /\ Destroy({i})
      /\ ukids' = [d \in UItems |-> IF d = c THEN RemoveAt(ukids[c], at)
                                    ELSE IF d \in Below({i}) THEN <<>> ELSE ukids[d]]
      /\ UNCHANGED uhold

(* Mutation: the extracted item keeps its entry in the node.               *)
NodeStays(c, n) ==
  /\ utype[c] = "node" /\ KeyPlace(c, n) # 0
  /\ uhold' = uhold \cup {ukids[c][KeyPlace(c, n)].item}
  /\ UNCHANGED <<utype, uname, uval, ukids, ulost>>

(* ecudc_node_e: the item goes to the program.                             *)
NodeE(c, n) ==
  LET at == KeyPlace(c, n)
  IN  /\ utype[c] = "node" /\ at # 0
      /\ uhold' = uhold \cup {ukids[c][at].item}
      /\ ukids' = [ukids EXCEPT ![c] = RemoveAt(@, at)]
      /\ UNCHANGED <<utype, uname, uval, ulost>>

(* ecudc_merge of the node p into the node d: entry by entry of p, an item *)
(* for whose name d has no key changes over, one without a name is refused *)
(* (ecudc_add), the others and p are destroyed.  (The cursor a list is     *)
(* merged with starts at NULL, which ecudc_list_e reads through: only nodes*)
(* are merged.)                                                            *)
MergedKids(d, p) ==
  LET given == ukids[p]
      into[k \in 0 .. Len(given)] ==
        IF k = 0 THEN ukids[d]
        ELSE LET i == given[k].item
             IN  IF Takes(d, uname[i]) /\ \A m \in DOMAIN into[k - 1] : into[k - 1][m].key # uname[i]
                 THEN Append(into[k - 1], Keyed(uname[i], i))
                 ELSE into[k - 1]
  IN  into[Len(given)]

Merge(d, p) ==
  LET merged == MergedKids(d, p)
      taken == {merged[k].item : k \in DOMAIN merged}
      refused == {i \in KidsOf(p) : uname[i] = NoName /\ KeyPlace(d, NoName) = 0}
      rest == KidsOf(p) \ (taken \cup refused)
      gone == Below(rest) \cup {p}
  IN  /\ d \in uhold /\ p \in uhold /\ d # p
      /\ utype[d] = "node" /\ utype[p] = "node"
      /\ utype' = [i \in UItems |-> IF i \in gone /\ ~Stays(i) THEN NoItem ELSE utype[i]]
      /\ uname' = [i \in UItems |-> IF i \in gone /\ ~Stays(i) THEN NoName ELSE uname[i]]
      /\ uval'  = [i \in UItems |-> IF i \in gone /\ ~Stays(i) THEN 0 ELSE uval[i]]
      /\ ulost' = ulost \cup refused \cup {i \in gone : Stays(i)}
      /\ ukids' = [c \in UItems |-> IF c = d THEN merged ELSE IF c \in gone THEN <<>> ELSE ukids[c]]
      /\ uhold' = uhold \ {p}

TreeNext ==
  \/ \E i \in UItems, n \in UNames \cup {NoName}, t \in Containers \cup Leaves : Create(i, t, n)
  \/ \E i \in UItems : DestroyItem(i)
  \/ \E c, i \in UItems : Add(c, i) \/ Attach(c, i) \/ Merge(c, i)
  \/ \E c, i \in UItems, t \in Leaves \ {"bool"}, n \in UNames \cup {NoName}, v \in UValues : AddAs(c, i, t, n, v)
  \/ \E i \in UItems, v \in UValues : SetValue(i, v)
  \/ \E i \in UItems, n \in UNames : SetName(i, n) \/ Del(i, n) \/ NodeE(i, n)

-----------------------------------------------------------------------------
(* ecudc_asInt16, asInt32, asDouble and their like.  A string is read as   *)
(* the number it spells; a double is also read from an integer, never the  *)
(* other way round.  ecudc_asInt32 also tells whether it could.            *)
Readable(i, t) ==
  \/ utype[i] = t \/ utype[i] = "string"
  \/ t = "double" /\ utype[i] \in {"int16", "int32"}
AsNumber(i, t) == IF Readable(i, t) THEN uval[i] ELSE 0

(* ecudc_get_asInt16 and its like, with the alternative the caller wants   *)
(* where there is no such item, or it is 0 (for an Int32: not readable).   *)
GetAs(c, n, t, alt) ==
  LET at == IF utype[c] = "node" THEN KeyPlace(c, n) ELSE 0
      i == ukids[c][at].item
  IN  IF at = 0 THEN alt
      ELSE IF t = "int32" THEN (IF Readable(i, t) THEN AsNumber(i, t) ELSE alt)
      ELSE IF AsNumber(i, t) = 0 THEN alt ELSE AsNumber(i, t)

(* The entries that hold an item.                                          *)
EntriesOf(i) ==
  {e \in {<<c, k>> : c \in UItems, k \in 1 .. Cardinality(UItems)} :
     e[2] \in DOMAIN ukids[e[1]] /\ ukids[e[1]][e[2]].item = i}

(* Every item has one place: with the program, in one container, or lost;  *)
(* what a container has is alive, and memory that is not an item is        *)
(* nowhere.  Lost are only TRUE booleans and items no node would take.     *)
TreeOwned ==
  LET One(b) == IF b THEN 1 ELSE 0
  IN  \A i \in UItems :
        /\ Cardinality(EntriesOf(i)) + One(i \in uhold) + One(i \in ulost) = One(utype[i] # NoItem)
        /\ i \in ulost => Stays(i) \/ uname[i] = NoName
        /\ utype[i] = NoItem => ukids[i] = <<>>

(* A number that is there and is not 0 is read whatever the alternative,   *)
(* and as the same number with every type that can read it; an item of     *)
(* another type never shows its bytes.                                     *)
ReadsAgree ==
  \A c \in UItems, n \in UNames, t \in Numbers, alt \in UValues :
    utype[c] = "node" /\ KeyPlace(c, n) # 0 =>
      LET i == ukids[c][KeyPlace(c, n)].item
      IN  /\ uval[i] # 0 /\ Readable(i, t) => GetAs(c, n, t, alt) = uval[i]
          /\ ~Readable(i, t) => GetAs(c, n, t, alt) = alt
=============================================================================
