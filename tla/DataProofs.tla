----------------------------- MODULE DataProofs -----------------------------
(***************************************************************************)
(* Proofs about the containers and buffers, for any constants: the lists   *)
(* of Lists, whose links are the ring they should be and whose cursor gives*)
(* everything once; the streams and read buffers of Streams, which give the*)
(* bytes they were given; the tables, cursors, slots and vectors of Tables;*)
(* the maps of Lists, which orderAll sorts; and the data tree of DataTree, *)
(* where an item has one place.  Each part has its invariant, its steps and*)
(* what follows; loops and walks that the models write as recursive        *)
(* functions are shown to be there by induction over an explicit set of    *)
(* numbers.                                                                *)
(***************************************************************************)
EXTENDS Lists, Tables, Streams, DataTree, FiniteSetTheorems, SequenceTheorems,
        WellFoundedInduction, TLAPS

-----------------------------------------------------------------------------
(* What is inserted into a sequence and removed from it, by positions.     *)
LEMMA Joined ==
  ASSUME NEW S, NEW s \in Seq(S), NEW t \in Seq(S)
  PROVE  /\ s \o t \in Seq(S) /\ Len(s \o t) = Len(s) + Len(t)
         /\ \A i \in 1 .. Len(s) : (s \o t)[i] = s[i]
         /\ \A i \in 1 .. Len(t) : (s \o t)[Len(s) + i] = t[i]
OBVIOUS

(* What a sequence has.                                                    *)
LEMMA Elements ==
  ASSUME NEW S, NEW s \in Seq(S)
  PROVE  Len(s) \in Nat /\ DOMAIN s = 1 .. Len(s) /\ \A i \in DOMAIN s : s[i] \in S
OBVIOUS

(* Appending something new repeats nothing.                                *)
LEMMA Appended ==
  ASSUME NEW S, NEW s \in Seq(S), IsInjective(s), NEW e \in S, e \notin ToSet(s),
         NEW t, t = Append(s, e)
  PROVE  /\ t \in Seq(S) /\ IsInjective(t)
         /\ \A x : x \in ToSet(t) <=> x \in ToSet(s) \/ x = e
<1>1. /\ t \in Seq(S) /\ Len(t) = Len(s) + 1 /\ Len(s) \in Nat
      /\ DOMAIN t = 1 .. Len(s) + 1 /\ DOMAIN s = 1 .. Len(s)
      /\ t[Len(s) + 1] = e /\ \A i \in 1 .. Len(s) : t[i] = s[i]
  <2>1. /\ Append(s, e) \in Seq(S) /\ Len(Append(s, e)) = Len(s) + 1
        /\ Append(s, e)[Len(s) + 1] = e /\ \A i \in 1 .. Len(s) : Append(s, e)[i] = s[i]
    BY AppendProperties
  <2>3. t \in Seq(S) /\ Len(t) = Len(s) + 1
    BY <2>1
  <2>4. DOMAIN t = 1 .. Len(s) + 1 /\ DOMAIN s = 1 .. Len(s) /\ Len(s) \in Nat
    BY <2>3, Elements
  <2>. QED
    BY <2>1, <2>3, <2>4
<1>2. \A i \in 1 .. Len(s) : t[i] # e
  BY <1>1 DEF ToSet
<1>3. IsInjective(t)
  BY <1>1, <1>2 DEF IsInjective
<1>4. ToSet(t) = ToSet(s) \cup {e}
  <2>1. ToSet(t) \subseteq ToSet(s) \cup {e}
    BY <1>1 DEF ToSet
  <2>2. ToSet(s) \subseteq ToSet(t)
    BY <1>1 DEF ToSet
  <2>3. e \in ToSet(t)
    BY <1>1 DEF ToSet
  <2>. QED
    BY <2>1, <2>2, <2>3
<1>. QED
  BY <1>1, <1>3, <1>4

(* Behind k entries there is one more.                                     *)
LEMMA InsertedAt ==
  ASSUME NEW S, NEW s \in Seq(S), NEW k \in 0 .. Len(s), NEW e \in S,
         NEW t, t = InsertAt(s, k + 1, e)
  PROVE  /\ t \in Seq(S) /\ Len(t) = Len(s) + 1 /\ DOMAIN t = 1 .. Len(s) + 1
         /\ \A i \in 1 .. k : t[i] = s[i]
         /\ t[k + 1] = e
         /\ \A i \in k + 1 .. Len(s) : t[i + 1] = s[i]
<1> DEFINE a == SubSeq(s, 1, k)
           b == SubSeq(s, k + 1, Len(s))
<1>1. Len(s) \in Nat /\ k \in Nat /\ (k + 1) - 1 = k
  OBVIOUS
<1>2. /\ a \in Seq(S) /\ Len(a) = k /\ \A i \in 1 .. k : a[i] = s[i]
  OBVIOUS
<1>3. /\ b \in Seq(S) /\ Len(b) = Len(s) - k /\ \A i \in 1 .. Len(s) - k : b[i] = s[i + k]
  OBVIOUS
<1>4. t = (a \o <<e>>) \o b
  BY <1>1 DEF InsertAt
<1>. HIDE DEF a, b
<1>5. /\ a \o <<e>> \in Seq(S) /\ Len(a \o <<e>>) = k + 1
      /\ \A i \in 1 .. k : (a \o <<e>>)[i] = s[i]
      /\ (a \o <<e>>)[k + 1] = e
  BY <1>1, <1>2
<1>6. PICK c \in Seq(S) : /\ c = a \o <<e>> /\ Len(c) = k + 1
                          /\ \A i \in 1 .. k : c[i] = s[i]
                          /\ c[k + 1] = e
  BY <1>5
<1>7. t = c \o b
  BY <1>4, <1>6
<1>8. /\ t \in Seq(S) /\ Len(t) = Len(c) + Len(b)
      /\ \A i \in 1 .. Len(c) : t[i] = c[i]
      /\ \A i \in 1 .. Len(b) : t[Len(c) + i] = b[i]
  <2>1. c \in Seq(S) /\ b \in Seq(S)
    BY <1>3, <1>6
  <2>2. /\ c \o b \in Seq(S) /\ Len(c \o b) = Len(c) + Len(b)
        /\ \A i \in 1 .. Len(c) : (c \o b)[i] = c[i]
        /\ \A i \in 1 .. Len(b) : (c \o b)[Len(c) + i] = b[i]
    BY <2>1, Joined
  <2>. QED
    BY <2>2, <1>7, Zenon
<1>9. Len(t) = Len(s) + 1 /\ DOMAIN t = 1 .. Len(s) + 1
  BY <1>1, <1>3, <1>6, <1>8
<1>10. \A i \in 1 .. k + 1 : t[i] = c[i]
  BY <1>6, <1>8
<1>11. ASSUME NEW i \in k + 1 .. Len(s) PROVE t[i + 1] = s[i]
  <2>1. PICK j \in 1 .. Len(s) - k : i = j + k
    <3>1. i - k \in 1 .. Len(s) - k /\ i = (i - k) + k
      BY <1>1
    <3>. QED
      BY <3>1
  <2>2. j \in 1 .. Len(b) /\ i + 1 = Len(c) + j
    <3>1. Len(b) = Len(s) - k /\ Len(c) = k + 1
      BY <1>3, <1>6
    <3>. QED
      BY <3>1, <2>1, <1>1
  <2>. QED
    BY <2>1, <2>2, <1>3, <1>8
<1>. QED
  BY <1>1, <1>6, <1>8, <1>9, <1>10, <1>11

(* One entry less, and those behind it moved up.                           *)
LEMMA RemovedAt ==
  ASSUME NEW S, NEW s \in Seq(S), NEW k \in 1 .. Len(s), NEW t, t = RemoveAt(s, k)
  PROVE  /\ t \in Seq(S) /\ Len(t) = Len(s) - 1 /\ DOMAIN t = 1 .. Len(s) - 1
         /\ \A i \in 1 .. k - 1 : t[i] = s[i]
         /\ \A i \in k .. Len(s) - 1 : t[i] = s[i + 1]
<1> DEFINE a == SubSeq(s, 1, k - 1)
           b == SubSeq(s, k + 1, Len(s))
<1>1. Len(s) \in Nat /\ k \in Nat
  OBVIOUS
<1>2. /\ a \in Seq(S) /\ Len(a) = k - 1 /\ \A i \in 1 .. k - 1 : a[i] = s[i]
  OBVIOUS
<1>3. /\ b \in Seq(S) /\ Len(b) = Len(s) - k /\ \A i \in 1 .. Len(s) - k : b[i] = s[i + k]
  OBVIOUS
<1>4. t = a \o b
  BY <1>1 DEF RemoveAt
<1>. HIDE DEF a, b
<1>5. /\ t \in Seq(S) /\ Len(t) = Len(a) + Len(b)
      /\ \A i \in 1 .. Len(a) : t[i] = a[i]
      /\ \A i \in 1 .. Len(b) : t[Len(a) + i] = b[i]
  <2>1. a \in Seq(S) /\ b \in Seq(S)
    BY <1>2, <1>3
  <2>2. /\ a \o b \in Seq(S) /\ Len(a \o b) = Len(a) + Len(b)
        /\ \A i \in 1 .. Len(a) : (a \o b)[i] = a[i]
        /\ \A i \in 1 .. Len(b) : (a \o b)[Len(a) + i] = b[i]
    BY <2>1, Joined
  <2>. QED
    BY <2>2, <1>4, Zenon
<1>6. Len(t) = Len(s) - 1 /\ DOMAIN t = 1 .. Len(s) - 1
  BY <1>1, <1>2, <1>3, <1>5
<1>7. \A i \in 1 .. k - 1 : t[i] = s[i]
  BY <1>2, <1>5
<1>8. ASSUME NEW i \in k .. Len(s) - 1 PROVE t[i] = s[i + 1]
  <2>1. PICK j \in 1 .. Len(s) - k : i + 1 = j + k
    <3>1. i + 1 - k \in 1 .. Len(s) - k /\ i + 1 = (i + 1 - k) + k
      BY <1>1
    <3>. QED
      BY <3>1
  <2>2. j \in 1 .. Len(b) /\ i = Len(a) + j
    <3>1. Len(b) = Len(s) - k /\ Len(a) = k - 1
      BY <1>2, <1>3
    <3>. QED
      BY <3>1, <2>1, <1>1
  <2>. QED
    BY <2>1, <2>2, <1>3, <1>5
<1>. QED
  BY <1>5, <1>6, <1>7, <1>8

-----------------------------------------------------------------------------
(* The same, for a sequence and a position that are named elsewhere.       *)
Removed(S, s, k, t) ==
  /\ t \in Seq(S) /\ Len(t) = Len(s) - 1 /\ DOMAIN t = 1 .. Len(s) - 1
  /\ \A i \in 1 .. k - 1 : t[i] = s[i]
  /\ \A i \in k .. Len(s) - 1 : t[i] = s[i + 1]

LEMMA RemovedIs ==
  ASSUME NEW S, NEW s, s \in Seq(S), NEW k, k \in 1 .. Len(s)
  PROVE  Removed(S, s, k, RemoveAt(s, k))
<1>1. PICK q \in Seq(S) : q = s /\ k \in 1 .. Len(q)
  OBVIOUS
<1>2. PICK t : t = RemoveAt(q, k)
  OBVIOUS
<1>3. /\ t \in Seq(S) /\ Len(t) = Len(q) - 1 /\ DOMAIN t = 1 .. Len(q) - 1
      /\ \A i \in 1 .. k - 1 : t[i] = q[i]
      /\ \A i \in k .. Len(q) - 1 : t[i] = q[i + 1]
  BY <1>1, <1>2, RemovedAt
<1>. QED
  BY <1>1, <1>2, <1>3 DEF Removed

(* Rings.  next and forw go around through stops 0 .. len + 1, of which the*)
(* first and the last are the end node.                                    *)
Around(next, forw, stop, len) ==
  \A i \in 0 .. len : next[stop[i]] = stop[i + 1] /\ forw[stop[i + 1]] = stop[i]

Circle(stop, len, R) ==
  /\ stop \in [0 .. len + 1 -> R] /\ stop[len + 1] = stop[0]
  /\ \A i, j \in 0 .. len : stop[i] = stop[j] => i = j

(* A node that is not on the circle, put behind stop k.                    *)
LEMMA AroundInserted ==
  ASSUME NEW R, NEW next \in [R -> Nat], NEW forw \in [R -> Nat],
         NEW len \in Nat, NEW stop, Circle(stop, len, R), Around(next, forw, stop, len),
         NEW k \in 0 .. len, NEW n \in R, \A i \in 0 .. len + 1 : stop[i] # n,
         NEW longer, Circle(longer, len + 1, R),
         \A i \in 0 .. k : longer[i] = stop[i],
         longer[k + 1] = n,
         \A i \in k + 1 .. len + 1 : longer[i + 1] = stop[i]
  PROVE  LET n01 == next[stop[k]]
         IN  Around([next EXCEPT ![stop[k]] = n, ![n] = n01],
                    [forw EXCEPT ![n] = forw[n01], ![n01] = n], longer, len + 1)
<1>1. next[stop[k]] = stop[k + 1] /\ forw[stop[k + 1]] = stop[k] /\ stop[k] \in R /\ stop[k + 1] \in R
  BY DEF Around, Circle
<1>2. \A i, j \in 1 .. len + 1 : stop[i] = stop[j] => i = j
  <2>. SUFFICES ASSUME NEW i \in 1 .. len + 1, NEW j \in 1 .. len + 1, stop[i] = stop[j]
                PROVE  i = j
    OBVIOUS
  <2>1. CASE i # len + 1 /\ j # len + 1
    BY <2>1 DEF Circle
  <2>2. CASE i = len + 1 /\ j # len + 1
    BY <2>2 DEF Circle
  <2>3. CASE i # len + 1 /\ j = len + 1
    BY <2>3 DEF Circle
  <2>. QED
    BY <2>1, <2>2, <2>3
<1>3. PICK nx \in [R -> Nat \cup R], fw \in [R -> Nat \cup R] :
        /\ nx = [next EXCEPT ![stop[k]] = n, ![n] = stop[k + 1]]
        /\ fw = [forw EXCEPT ![n] = stop[k], ![stop[k + 1]] = n]
  BY <1>1
<1>4. /\ nx[stop[k]] = n /\ nx[n] = stop[k + 1]
      /\ \A i \in 0 .. len : i # k => nx[stop[i]] = stop[i + 1]
  BY <1>1, <1>3 DEF Circle, Around
<1>5. /\ fw[stop[k + 1]] = n /\ fw[n] = stop[k]
      /\ \A i \in 0 .. len : i # k => fw[stop[i + 1]] = stop[i]
  <2>1. stop[k + 1] # n
    OBVIOUS
  <2>2. ASSUME NEW i \in 0 .. len, i # k PROVE fw[stop[i + 1]] = stop[i]
    <3>1. stop[i + 1] # n /\ stop[i + 1] # stop[k + 1] /\ stop[i + 1] \in R
      <4>1. i + 1 \in 1 .. len + 1 /\ k + 1 \in 1 .. len + 1 /\ i + 1 # k + 1
        BY <2>2
      <4>. QED
        BY <4>1, <1>2 DEF Circle
    <3>. QED
      BY <3>1, <2>1, <1>3 DEF Around
  <2>. QED
    <3>1. fw[stop[k + 1]] = n /\ fw[n] = stop[k]
      BY <2>1, <1>1, <1>3
    <3>. QED
      BY <3>1, <2>2
<1>6. ASSUME NEW i \in 0 .. len + 1
      PROVE  nx[longer[i]] = longer[i + 1] /\ fw[longer[i + 1]] = longer[i]
  <2>1. CASE i < k
    <3>1. i \in 0 .. len /\ i # k /\ longer[i] = stop[i] /\ longer[i + 1] = stop[i + 1]
      BY <2>1
    <3>. QED
      BY <3>1, <1>4, <1>5
  <2>2. CASE i = k
    BY <2>2, <1>4, <1>5
  <2>3. CASE i = k + 1
    <3>1. longer[i + 1] = stop[k + 1]
      BY <2>3
    <3>. QED
      BY <3>1, <2>3, <1>4, <1>5
  <2>4. CASE i > k + 1
    <3>1. PICK j \in 0 .. len : i = j + 1 /\ j # k /\ j > k
      BY <2>4
    <3>2. longer[i] = stop[j] /\ longer[i + 1] = stop[j + 1]
      <4>1. j \in k + 1 .. len + 1 /\ i \in k + 1 .. len + 1 /\ j + 1 = i
        BY <3>1
      <4>. QED
        BY <4>1
    <3>. QED
      BY <3>1, <3>2, <1>4, <1>5
  <2>. QED
    BY <2>1, <2>2, <2>3, <2>4
<1>7. Around(nx, fw, longer, len + 1)
  BY <1>6 DEF Around
<1>8. forw[stop[k + 1]] = stop[k] /\ next[stop[k]] = stop[k + 1]
  BY <1>1
<1>. QED
  BY <1>3, <1>7, <1>8, Zenon

(* Stop k taken off the circle.                                            *)
LEMMA AroundErased ==
  ASSUME NEW R, NEW next \in [R -> Nat], NEW forw \in [R -> Nat],
         NEW len \in Nat, NEW stop, Circle(stop, len, R), Around(next, forw, stop, len),
         NEW k \in 1 .. len,
         NEW shorter, \A i \in 0 .. k - 1 : shorter[i] = stop[i],
         \A i \in k .. len : shorter[i] = stop[i + 1]
  PROVE  Around([next EXCEPT ![forw[stop[k]]] = next[stop[k]], ![stop[k]] = NoNode],
                [forw EXCEPT ![next[stop[k]]] = forw[stop[k]], ![stop[k]] = NoNode],
                shorter, len - 1)
<1>1. /\ next[stop[k]] = stop[k + 1] /\ forw[stop[k]] = stop[k - 1]
      /\ stop[k] \in R /\ stop[k + 1] \in R /\ stop[k - 1] \in R
  BY DEF Around, Circle
<1>2. \A i, j \in 1 .. len + 1 : stop[i] = stop[j] => i = j
  <2>. SUFFICES ASSUME NEW i \in 1 .. len + 1, NEW j \in 1 .. len + 1, stop[i] = stop[j]
                PROVE  i = j
    OBVIOUS
  <2>1. CASE i # len + 1 /\ j # len + 1
    BY <2>1 DEF Circle
  <2>2. CASE i = len + 1 /\ j # len + 1
    BY <2>2 DEF Circle
  <2>3. CASE i # len + 1 /\ j = len + 1
    BY <2>3 DEF Circle
  <2>. QED
    BY <2>1, <2>2, <2>3
<1>3. PICK nx, fw :
        /\ nx = [next EXCEPT ![stop[k - 1]] = stop[k + 1], ![stop[k]] = NoNode]
        /\ fw = [forw EXCEPT ![stop[k + 1]] = stop[k - 1], ![stop[k]] = NoNode]
  OBVIOUS
<1>4. /\ nx[stop[k - 1]] = stop[k + 1]
      /\ \A i \in 0 .. len : i # k /\ i # k - 1 => nx[stop[i]] = stop[i + 1]
  BY <1>1, <1>3 DEF Circle, Around
<1>5. /\ fw[stop[k + 1]] = stop[k - 1]
      /\ \A i \in 0 .. len : i # k /\ i # k - 1 => fw[stop[i + 1]] = stop[i]
  <2>1. stop[k] # stop[k + 1]
    BY <1>2
  <2>2. ASSUME NEW i \in 0 .. len, i # k, i # k - 1 PROVE fw[stop[i + 1]] = stop[i]
    <3>1. stop[i + 1] # stop[k] /\ stop[i + 1] # stop[k + 1]
      <4>1. i + 1 \in 1 .. len + 1 /\ i + 1 # k /\ i + 1 # k + 1
        BY <2>2
      <4>. QED
        BY <4>1, <1>2
    <3>. QED
      BY <3>1, <1>3 DEF Circle, Around
  <2>. QED
    BY <2>1, <2>2, <1>1, <1>3
<1>6. ASSUME NEW i \in 0 .. len - 1
      PROVE  nx[shorter[i]] = shorter[i + 1] /\ fw[shorter[i + 1]] = shorter[i]
  <2>1. CASE i < k - 1
    <3>1. i \in 0 .. len /\ i # k /\ i # k - 1 /\ shorter[i] = stop[i] /\ shorter[i + 1] = stop[i + 1]
      BY <2>1
    <3>. QED
      BY <3>1, <1>4, <1>5
  <2>2. CASE i = k - 1
    <3>1. shorter[i] = stop[k - 1] /\ shorter[i + 1] = stop[k + 1]
      BY <2>2
    <3>. QED
      BY <3>1, <2>2, <1>4, <1>5
  <2>3. CASE i > k - 1
    <3>1. i + 1 \in 0 .. len /\ i + 1 # k /\ i + 1 # k - 1
          /\ shorter[i] = stop[i + 1] /\ shorter[i + 1] = stop[(i + 1) + 1]
      BY <2>3
    <3>. QED
      BY <3>1, <1>4, <1>5
  <2>. QED
    BY <2>1, <2>2, <2>3
<1>. QED
  BY <1>1, <1>3, <1>6 DEF Around

-----------------------------------------------------------------------------
(* Lists.  The links r go around every list as the order o says; an entry  *)
(* is at one place of one list; nodes carry their data; a node that is     *)
(* linked is in a list.                                                    *)
Entries == [node : LNodes, data : Nat]
Orders == [LLists -> Seq(Entries)]
Rings == [next : [RingNodes -> Nat], forw : [RingNodes -> Nat], data : [RingNodes -> Nat]]

Stop(o, l, i) == IF i \in 1 .. Len(o[l]) THEN o[l][i].node ELSE l
Stops(o, l) == [i \in 0 .. Len(o[l]) + 1 |-> Stop(o, l, i)]

Linked(r, o) == \A l \in LLists : Around(r.next, r.forw, Stops(o, l), Len(o[l]))
Apart(o) ==
  \A l, m \in LLists : \A i \in 1 .. Len(o[l]), j \in 1 .. Len(o[m]) :
    o[l][i].node = o[m][j].node => l = m /\ i = j
Carried(r, o) ==
  \A l \in LLists : \A i \in 1 .. Len(o[l]) : r.data[o[l][i].node] = o[l][i].data
Used(r, o) ==
  \A n \in LNodes : r.next[n] # NoNode =>
    \E l \in LLists : \E i \in 1 .. Len(o[l]) : o[l][i].node = n

Ringed(r, o) ==
  /\ r \in Rings /\ o \in Orders
  /\ Linked(r, o) /\ Apart(o) /\ Carried(r, o) /\ Used(r, o)

(* From r and o to r2 and o2: list l has the entry e more, behind k others,*)
(* or its entry k less; the others are what they were.                     *)
Grown(r, o, l, k, e, r2, o2) ==
  /\ Ringed(r2, o2)
  /\ Len(o2[l]) = Len(o[l]) + 1 /\ o2[l][k + 1] = e
  /\ \A i \in 1 .. k : o2[l][i] = o[l][i]
  /\ \A i \in k + 1 .. Len(o[l]) : o2[l][i + 1] = o[l][i]
  /\ \A m \in LLists \ {l} : o2[m] = o[m]
  /\ \A m \in LNodes : r2.next[m] # NoNode <=> (m = e.node \/ r.next[m] # NoNode)
  /\ r2.data = [r.data EXCEPT ![e.node] = e.data]

Shrunk(r, o, l, k, r2, o2) ==
  /\ Ringed(r2, o2)
  /\ Len(o2[l]) = Len(o[l]) - 1
  /\ \A i \in 1 .. k - 1 : o2[l][i] = o[l][i]
  /\ \A i \in k .. Len(o[l]) - 1 : o2[l][i] = o[l][i + 1]
  /\ \A m \in LLists \ {l} : o2[m] = o[m]
  /\ \A m \in LNodes : r2.next[m] # NoNode <=> (m # o[l][k].node /\ r.next[m] # NoNode)
  /\ r2.data = [r.data EXCEPT ![o[l][k].node] = NoData]
  /\ EraseAnswer(r, o[l][k].node) = Stop(o, l, k - 1)

(* Node n carries d instead; list l is empty.                              *)
Changed(r, o, n, d, r2, o2) ==
  /\ Ringed(r2, o2)
  /\ r2.next = r.next /\ r2.data = [r.data EXCEPT ![n] = d]
  /\ \A m \in LLists : /\ Len(o2[m]) = Len(o[m])
                       /\ \A i \in 1 .. Len(o[m]) : o2[m][i].node = o[m][i].node

Emptied(r, o, r2, o2) ==
  /\ Ringed(r2, o2)
  /\ \A m \in LNodes : r2.next[m] # NoNode => r.next[m] # NoNode /\ r2.data[m] = r.data[m]

(* A node is at one place of one list.                                     *)
LEMMA OnePlace ==
  ASSUME NEW o, Apart(o), NEW l \in LLists, NEW m \in LLists,
         NEW i \in 1 .. Len(o[l]), NEW j \in 1 .. Len(o[m]),
         o[l][i].node = o[m][j].node
  PROVE  l = m /\ i = j
BY DEF Apart

(* Without entry k of list l every entry is one that was, each another.    *)
Kept(o, l, k, o2) ==
  \A g \in LLists : \A x \in 1 .. Len(o2[g]) : \E y \in 1 .. Len(o[g]) :
    /\ o2[g][x] = o[g][y]
    /\ (y = x /\ ~(g = l /\ x >= k)) \/ (y = x + 1 /\ g = l /\ x >= k)

(* So a node is still at one place.                                        *)
LEMMA ApartErased ==
  ASSUME NEW o, Apart(o), NEW l, NEW k \in Int, NEW o2, Kept(o, l, k, o2),
         \A g \in LLists : Len(o2[g]) \in Nat
  PROVE  Apart(o2)
<1>. SUFFICES ASSUME NEW m \in LLists, NEW h \in LLists,
                     NEW i \in 1 .. Len(o2[m]), NEW j \in 1 .. Len(o2[h]),
                     o2[m][i].node = o2[h][j].node
              PROVE  m = h /\ i = j
  BY DEF Apart
<1>1. PICK x \in 1 .. Len(o[m]) :
        /\ o2[m][i] = o[m][x]
        /\ (x = i /\ ~(m = l /\ i >= k)) \/ (x = i + 1 /\ m = l /\ i >= k)
  BY DEF Kept
<1>2. PICK y \in 1 .. Len(o[h]) :
        /\ o2[h][j] = o[h][y]
        /\ (y = j /\ ~(h = l /\ j >= k)) \/ (y = j + 1 /\ h = l /\ j >= k)
  BY DEF Kept
<1>3. o[m][x].node = o[h][y].node
  BY <1>1, <1>2
<1>4. m = h /\ x = y
  BY <1>3, OnePlace
<1>5. i \in Int /\ j \in Int
  OBVIOUS
<1>6. CASE m = l /\ i >= k
  <2>1. x = i + 1
    BY <1>1, <1>6
  <2>2. j >= k
    <3>. SUFFICES ASSUME ~(j >= k) PROVE FALSE
      OBVIOUS
    <3>1. y = j
      BY <1>2
    <3>. QED
      BY <3>1, <2>1, <1>4, <1>5, <1>6
  <2>3. y = j + 1
    BY <2>2, <1>2, <1>4, <1>6
  <2>. QED
    BY <2>1, <2>3, <1>4, <1>5
<1>7. CASE ~(m = l /\ i >= k)
  <2>1. x = i
    BY <1>1, <1>7
  <2>2. ~(h = l /\ j >= k)
    <3>. SUFFICES ASSUME h = l, j >= k PROVE FALSE
      OBVIOUS
    <3>1. y = j + 1
      BY <1>2
    <3>. QED
      BY <3>1, <2>1, <1>4, <1>5, <1>7
  <2>3. y = j
    BY <2>2, <1>2
  <2>. QED
    BY <2>1, <2>3, <1>4
<1>. QED
  BY <1>6, <1>7

(* The stops of a list are a circle, and none of them is free.             *)
LEMMA Circled ==
  ASSUME NEW r, NEW o, Ringed(r, o), NEW l \in LLists
  PROVE  /\ Len(o[l]) \in Nat /\ DOMAIN o[l] = 1 .. Len(o[l]) /\ o[l] \in Seq(Entries)
         /\ \A i \in 1 .. Len(o[l]) : o[l][i] \in Entries
         /\ Circle(Stops(o, l), Len(o[l]), RingNodes)
         /\ Around(r.next, r.forw, Stops(o, l), Len(o[l]))
         /\ \A i \in 0 .. Len(o[l]) + 1 : Stops(o, l)[i] = Stop(o, l, i)
<1>1. /\ Len(o[l]) \in Nat /\ DOMAIN o[l] = 1 .. Len(o[l]) /\ o[l] \in Seq(Entries)
      /\ \A i \in 1 .. Len(o[l]) : o[l][i] \in Entries
  BY DEF Ringed, Orders
<1>2. \A i \in 0 .. Len(o[l]) + 1 : Stops(o, l)[i] = Stop(o, l, i)
  BY DEF Stops
<1>3. \A i \in 1 .. Len(o[l]) : o[l][i].node \in LNodes
  BY <1>1 DEF Entries
<1>4. \A i \in 0 .. Len(o[l]) + 1 : Stop(o, l, i) \in RingNodes
  BY <1>3 DEF Stop, RingNodes
<1>5. Stops(o, l) \in [0 .. Len(o[l]) + 1 -> RingNodes]
  BY <1>4 DEF Stops
<1>6. Stop(o, l, Len(o[l]) + 1) = l /\ Stop(o, l, 0) = l
  BY <1>1 DEF Stop
<1>7. ASSUME NEW i \in 0 .. Len(o[l]), NEW j \in 0 .. Len(o[l]), Stop(o, l, i) = Stop(o, l, j)
      PROVE  i = j
  <2>1. l \notin LNodes
    BY ListConstants
  <2>2. CASE i = 0 \/ j = 0
    BY <2>1, <2>2, <1>1, <1>3, <1>7 DEF Stop
  <2>3. CASE i # 0 /\ j # 0
    <3>1. i \in 1 .. Len(o[l]) /\ j \in 1 .. Len(o[l])
      BY <2>3, <1>1
    <3>2. o[l][i].node = o[l][j].node
      BY <3>1, <1>7 DEF Stop
    <3>. QED
      BY <3>1, <3>2 DEF Ringed, Apart
  <2>. QED
    BY <2>2, <2>3
<1>8. Circle(Stops(o, l), Len(o[l]), RingNodes)
  <2>1. 0 \in 0 .. Len(o[l]) + 1 /\ Len(o[l]) + 1 \in 0 .. Len(o[l]) + 1
        /\ 0 .. Len(o[l]) \subseteq 0 .. Len(o[l]) + 1
    BY <1>1
  <2>2. Stops(o, l)[Len(o[l]) + 1] = Stops(o, l)[0]
    BY <2>1, <1>2, <1>6
  <2>3. \A i, j \in 0 .. Len(o[l]) : Stops(o, l)[i] = Stops(o, l)[j] => i = j
    BY <2>1, <1>2, <1>7
  <2>. QED
    BY <2>2, <2>3, <1>5 DEF Circle
<1>. QED
  BY <1>1, <1>2, <1>8 DEF Ringed, Linked

(* The neighbours of what is linked are linked.                            *)
LEMMA Taken ==
  ASSUME NEW r, NEW o, Ringed(r, o), NEW l \in LLists, NEW i \in 0 .. Len(o[l]) + 1
  PROVE  /\ Stop(o, l, i) \in RingNodes
         /\ r.next[Stop(o, l, i)] \in RingNodes /\ r.forw[Stop(o, l, i)] \in RingNodes
         /\ r.next[Stop(o, l, i)] # NoNode /\ r.forw[Stop(o, l, i)] # NoNode
<1>1. /\ Len(o[l]) \in Nat
      /\ Circle(Stops(o, l), Len(o[l]), RingNodes)
      /\ Around(r.next, r.forw, Stops(o, l), Len(o[l]))
      /\ \A j \in 0 .. Len(o[l]) + 1 : Stops(o, l)[j] = Stop(o, l, j)
  BY Circled
<1>2. NoNode \notin RingNodes
  BY ListConstants DEF NoNode, RingNodes
<1>3. Stops(o, l)[i] \in RingNodes
  BY <1>1 DEF Circle
<1>4. r.next[Stops(o, l)[i]] \in RingNodes
  <2>1. CASE i \in 0 .. Len(o[l])
    BY <2>1, <1>1 DEF Around, Circle
  <2>2. CASE i = Len(o[l]) + 1
    <3>1. Stops(o, l)[i] = Stops(o, l)[0]
      BY <2>2, <1>1 DEF Circle
    <3>. QED
      BY <3>1, <1>1 DEF Around, Circle
  <2>. QED
    BY <2>1, <2>2, <1>1
<1>5. r.forw[Stops(o, l)[i]] \in RingNodes
  <2>1. ASSUME NEW j \in 1 .. Len(o[l]) + 1 PROVE r.forw[Stops(o, l)[j]] \in RingNodes
    <3>1. PICK h \in 0 .. Len(o[l]) : j = h + 1
      <4>1. j - 1 \in 0 .. Len(o[l]) /\ j = (j - 1) + 1
        BY <1>1
      <4>. QED
        BY <4>1
    <3>2. h \in 0 .. Len(o[l]) + 1
      BY <1>1
    <3>3. Stops(o, l)[h] \in RingNodes
      BY <3>2, <1>1 DEF Circle
    <3>4. r.forw[Stops(o, l)[h + 1]] = Stops(o, l)[h]
      BY <1>1 DEF Around
    <3>. QED
      BY <3>1, <3>3, <3>4
  <2>2. CASE i = 0
    <3>1. Stops(o, l)[i] = Stops(o, l)[Len(o[l]) + 1]
      BY <2>2, <1>1 DEF Circle
    <3>. QED
      BY <3>1, <2>1, <1>1
  <2>. QED
    BY <2>1, <2>2, <1>1
<1>. QED
  BY <1>1, <1>2, <1>3, <1>4, <1>5

(* A stop is at one place of one list.                                     *)
LEMMA StopsApart ==
  ASSUME NEW r, NEW o, Ringed(r, o), NEW l \in LLists, NEW m \in LLists,
         NEW i \in 0 .. Len(o[l]), NEW j \in 0 .. Len(o[m]), Stop(o, l, i) = Stop(o, m, j)
  PROVE  l = m /\ i = j
<1>1. /\ Len(o[l]) \in Nat /\ \A h \in 1 .. Len(o[l]) : o[l][h].node \in LNodes
      /\ Len(o[m]) \in Nat /\ \A h \in 1 .. Len(o[m]) : o[m][h].node \in LNodes
  BY Circled DEF Entries
<1>2. l \notin LNodes /\ m \notin LNodes
  BY ListConstants
<1>3. CASE i = 0 \/ j = 0
  BY <1>1, <1>2, <1>3 DEF Stop
<1>4. CASE i # 0 /\ j # 0
  <2>1. i \in 1 .. Len(o[l]) /\ j \in 1 .. Len(o[m])
    BY <1>1, <1>4
  <2>2. o[l][i].node = o[m][j].node
    BY <2>1 DEF Stop
  <2>. QED
    BY <2>1, <2>2 DEF Ringed, Apart
<1>. QED
  BY <1>3, <1>4

(* Two lists have no stop in common, the end node behind the last included.*)
LEMMA StopsElsewhere ==
  ASSUME NEW r, NEW o, Ringed(r, o), NEW l \in LLists, NEW m \in LLists \ {l},
         NEW i \in 0 .. Len(o[l]) + 1, NEW j \in 0 .. Len(o[m]) + 1
  PROVE  Stop(o, l, i) # Stop(o, m, j)
<1>1. Len(o[l]) \in Nat /\ Len(o[m]) \in Nat
  BY Circled
<1>2. PICK x \in 0 .. Len(o[l]) : Stop(o, l, i) = Stop(o, l, x)
  <2>1. CASE i = Len(o[l]) + 1
    <3>1. Stop(o, l, i) = Stop(o, l, 0) /\ 0 \in 0 .. Len(o[l])
      BY <1>1, <2>1 DEF Stop
    <3>. QED
      BY <3>1
  <2>2. CASE i # Len(o[l]) + 1
    BY <2>2, <1>1
  <2>. QED
    BY <2>1, <2>2
<1>3. PICK y \in 0 .. Len(o[m]) : Stop(o, m, j) = Stop(o, m, y)
  <2>1. CASE j = Len(o[m]) + 1
    <3>1. Stop(o, m, j) = Stop(o, m, 0) /\ 0 \in 0 .. Len(o[m])
      BY <1>1, <2>1 DEF Stop
    <3>. QED
      BY <3>1
  <2>2. CASE j # Len(o[m]) + 1
    BY <2>2, <1>1
  <2>. QED
    BY <2>1, <2>2
<1>. QED
  BY <1>2, <1>3, StopsApart

-----------------------------------------------------------------------------
(* eclist_insert.                                                          *)
LEMMA InsertKeeps ==
  ASSUME NEW r, NEW o, Ringed(r, o), NEW l \in LLists, NEW k \in 0 .. Len(o[l]),
         NEW n \in LNodes, r.next[n] = NoNode, NEW d \in Nat,
         NEW r2, r2 = InsertBehind(r, Stop(o, l, k), n, d),
         NEW o2, o2 = [o EXCEPT ![l] = InsertAt(@, k + 1, Entry(n, d))]
  PROVE  Grown(r, o, l, k, Entry(n, d), r2, o2)
<1> DEFINE at == Stop(o, l, k)
           len == Len(o[l])
<1>1. /\ len \in Nat /\ o[l] \in Seq(Entries)
      /\ Circle(Stops(o, l), len, RingNodes)
      /\ Around(r.next, r.forw, Stops(o, l), len)
      /\ \A i \in 0 .. len + 1 : Stops(o, l)[i] = Stop(o, l, i)
  BY Circled
<1>2. r \in Rings /\ o \in Orders /\ n \in RingNodes /\ RingNodes \subseteq Nat \ {0}
  BY ListConstants DEF Ringed, RingNodes
<1>3. Entry(n, d) \in Entries
  BY DEF Entry, Entries
<1>4. \A m \in LLists : \A i \in 0 .. Len(o[m]) + 1 : Stop(o, m, i) # n
  BY Taken
<1>5. /\ o2[l] \in Seq(Entries) /\ Len(o2[l]) = len + 1
      /\ \A i \in 1 .. k : o2[l][i] = o[l][i]
      /\ o2[l][k + 1] = Entry(n, d)
      /\ \A i \in k + 1 .. len : o2[l][i + 1] = o[l][i]
  <2>1. o2[l] = InsertAt(o[l], k + 1, Entry(n, d))
    BY <1>2 DEF Orders
  <2>2. PICK s \in Seq(Entries), e \in Entries :
          s = o[l] /\ e = Entry(n, d) /\ k \in 0 .. Len(s)
    BY <1>1, <1>3
  <2>3. PICK t : t = o2[l] /\ t = InsertAt(s, k + 1, e)
    BY <2>1, <2>2
  <2>4. /\ t \in Seq(Entries) /\ Len(t) = Len(s) + 1
        /\ \A i \in 1 .. k : t[i] = s[i]
        /\ t[k + 1] = e
        /\ \A i \in k + 1 .. Len(s) : t[i + 1] = s[i]
    BY <2>2, <2>3, InsertedAt
  <2>. QED
    BY <2>2, <2>3, <2>4
<1>6. \A m \in LLists \ {l} : o2[m] = o[m]
  BY <1>2 DEF Orders
<1>7. o2 \in Orders
  <2>1. o2 = [o EXCEPT ![l] = o2[l]]
    BY <1>2 DEF Orders
  <2>. QED
    BY <2>1, <1>2, <1>5 DEF Orders
<1>8. at \in RingNodes /\ r.next[at] \in RingNodes /\ r.forw[r.next[at]] = at
      /\ r.next[at] = Stops(o, l)[k + 1] /\ at = Stops(o, l)[k]
  BY <1>1, Taken DEF Around
<1>9. /\ r2.next = [r.next EXCEPT ![at] = n, ![n] = r.next[at]]
      /\ r2.forw = [r.forw EXCEPT ![n] = r.forw[r.next[at]], ![r.next[at]] = n]
      /\ r2.data = [r.data EXCEPT ![n] = d]
      /\ r2 = [next |-> r2.next, forw |-> r2.forw, data |-> r2.data]
  BY DEF InsertBehind
<1>10. r2 \in Rings
  <2>1. r.next \in [RingNodes -> Nat] /\ r.forw \in [RingNodes -> Nat] /\ r.data \in [RingNodes -> Nat]
    BY <1>2 DEF Rings
  <2>2. n \in Nat /\ r.next[at] \in Nat /\ at \in Nat
    BY <1>2, <1>8
  <2>3. /\ [r.next EXCEPT ![at] = n, ![n] = r.next[at]] \in [RingNodes -> Nat]
        /\ [r.forw EXCEPT ![n] = at, ![r.next[at]] = n] \in [RingNodes -> Nat]
        /\ [r.data EXCEPT ![n] = d] \in [RingNodes -> Nat]
    <3>. HIDE DEF at
    <3>. QED
      BY <2>1, <2>2
  <2>4. r2.next \in [RingNodes -> Nat] /\ r2.forw \in [RingNodes -> Nat] /\ r2.data \in [RingNodes -> Nat]
    BY <2>3, <1>8, <1>9, Zenon
  <2>. QED
    BY <2>4, <1>9 DEF Rings
<1>. HIDE DEF at, len
<1>11. \A m \in LLists \ {l} : \A i : Stop(o2, m, i) = Stop(o, m, i)
  BY <1>6 DEF Stop
<1>12. \A m \in LNodes : r2.next[m] # NoNode <=> (m = n \/ r.next[m] # NoNode)
  <2>1. r.next \in [RingNodes -> Nat] /\ LNodes \subseteq RingNodes /\ NoNode \notin RingNodes
    BY <1>2 DEF Rings, RingNodes, NoNode
  <2>2. r.next[at] # NoNode
    BY <2>1, <1>8
  <2>. QED
    BY <2>1, <2>2, <1>2, <1>8, <1>9
<1>13. /\ Stop(o2, l, 0) = Stop(o, l, 0)
       /\ \A i \in 1 .. k : Stop(o2, l, i) = Stop(o, l, i)
       /\ Stop(o2, l, k + 1) = n
       /\ \A i \in k + 1 .. len + 1 : Stop(o2, l, i + 1) = Stop(o, l, i)
  <2>1. 1 .. k \subseteq 1 .. len /\ 1 .. k \subseteq 1 .. len + 1 /\ k + 1 \in 1 .. len + 1
    BY <1>1 DEF len
  <2>2. \A i \in 1 .. k : Stop(o2, l, i) = Stop(o, l, i)
    BY <2>1, <1>5 DEF Stop, len
  <2>3. Stop(o2, l, k + 1) = n
    BY <2>1, <1>5 DEF Stop, Entry
  <2>4. ASSUME NEW i \in k + 1 .. len + 1 PROVE Stop(o2, l, i + 1) = Stop(o, l, i)
    <3>1. CASE i = len + 1
      <4>1. i + 1 \notin 1 .. len + 1 /\ i \notin 1 .. len
        BY <3>1, <1>1
      <4>. QED
        BY <4>1, <1>5 DEF Stop, len
    <3>2. CASE i # len + 1
      <4>1. i \in k + 1 .. len /\ i + 1 \in 1 .. len + 1 /\ i \in 1 .. len
        BY <3>2, <1>1
      <4>. QED
        BY <4>1, <1>5 DEF Stop, len
    <3>. QED
      BY <3>1, <3>2
  <2>5. Stop(o2, l, 0) = Stop(o, l, 0)
    BY DEF Stop
  <2>. QED
    BY <2>2, <2>3, <2>4, <2>5
<1>14. Apart(o2)
  <2>. SUFFICES ASSUME NEW m \in LLists, NEW h \in LLists,
                       NEW i \in 1 .. Len(o2[m]), NEW j \in 1 .. Len(o2[h]),
                       o2[m][i].node = o2[h][j].node
                PROVE  m = h /\ i = j
    BY DEF Apart
  <2>1. ASSUME NEW g \in LLists, NEW x \in 1 .. Len(o2[g]), g # l
        PROVE  /\ x \in 1 .. Len(o[g]) /\ o2[g][x].node = o[g][x].node /\ o2[g][x].node # n
    <3>1. x \in 1 .. Len(o[g]) /\ o2[g][x].node = o[g][x].node
      BY <2>1, <1>6
    <3>2. o[g][x].node = Stop(o, g, x) /\ x \in 0 .. Len(o[g]) + 1
      BY <3>1 DEF Stop
    <3>. QED
      BY <3>1, <3>2, <1>4
  <2>2. ASSUME NEW x \in 1 .. Len(o2[l])
        PROVE  \/ x = k + 1 /\ o2[l][x].node = n
               \/ \E y \in 1 .. len : /\ o2[l][x].node = o[l][y].node /\ o[l][y].node # n
                                      /\ (x <= k /\ y = x) \/ (x > k + 1 /\ x = y + 1)
    <3>1. CASE x = k + 1
      BY <3>1, <1>5 DEF Entry
    <3>2. CASE x <= k
      <4>1. x \in 1 .. k /\ x \in 1 .. len
        BY <3>2, <1>1 DEF len
      <4>2. o[l][x].node # n
        <5>1. o[l][x].node = Stop(o, l, x) /\ x \in 0 .. Len(o[l]) + 1
          BY <4>1 DEF Stop, len
        <5>. QED
          BY <5>1, <1>4
      <4>. QED
        BY <4>1, <4>2, <3>2, <1>5
    <3>3. CASE x > k + 1
      <4>1. PICK y \in k + 1 .. len : x = y + 1
        <5>1. x - 1 \in k + 1 .. len /\ x = (x - 1) + 1
          BY <3>3, <1>1, <1>5 DEF len
        <5>. QED
          BY <5>1
      <4>2. y \in 1 .. len /\ o2[l][x].node = o[l][y].node
        BY <4>1, <1>1, <1>5 DEF len
      <4>3. o[l][y].node # n
        <5>1. o[l][y].node = Stop(o, l, y) /\ y \in 0 .. Len(o[l]) + 1
          BY <4>2 DEF Stop, len
        <5>. QED
          BY <5>1, <1>4
      <4>. QED
        BY <4>1, <4>2, <4>3, <3>3
    <3>. QED
      BY <3>1, <3>2, <3>3, <1>5, <1>1
  <2>3. CASE m # l /\ h # l
    BY <2>3, <2>1 DEF Ringed, Apart
  <2>4. CASE m = l /\ h = l
    <3>1. \A x, y \in 1 .. len : o[l][x].node = o[l][y].node => x = y
      BY DEF Ringed, Apart, len
    <3>2. PICK a \in 1 .. Len(o2[l]), b \in 1 .. Len(o2[l]) :
            a = i /\ b = j /\ o2[l][a].node = o2[l][b].node
      BY <2>4
    <3>3. CASE a = k + 1 \/ b = k + 1
      <4>1. o2[l][a].node = n /\ o2[l][b].node = n
        BY <3>2, <3>3, <2>2
      <4>2. a = k + 1 /\ b = k + 1
        BY <4>1, <2>2
      <4>. QED
        BY <4>2, <3>2, <2>4
    <3>4. CASE a # k + 1 /\ b # k + 1
      <4>1. PICK y \in 1 .. len : /\ o2[l][a].node = o[l][y].node
                                  /\ (a <= k /\ y = a) \/ (a > k + 1 /\ a = y + 1)
        BY <3>4, <2>2
      <4>2. PICK z \in 1 .. len : /\ o2[l][b].node = o[l][z].node
                                  /\ (b <= k /\ z = b) \/ (b > k + 1 /\ b = z + 1)
        BY <3>4, <2>2
      <4>3. y = z
        BY <3>1, <3>2, <4>1, <4>2
      <4>4. a = b
        BY <4>1, <4>2, <4>3, <1>1 DEF len
      <4>. QED
        BY <4>4, <3>2, <2>4
    <3>. QED
      BY <2>4, <3>2, <3>3, <3>4
  <2>5. CASE m = l /\ h # l
    <3>1. o2[h][j].node = o[h][j].node /\ j \in 1 .. Len(o[h]) /\ o2[h][j].node # n
      BY <2>5, <2>1
    <3>2. PICK y \in 1 .. len : o2[l][i].node = o[l][y].node
      BY <3>1, <2>5, <2>2
    <3>. QED
      BY <3>1, <3>2, <2>5 DEF Ringed, Apart, len
  <2>6. CASE m # l /\ h = l
    <3>1. o2[m][i].node = o[m][i].node /\ i \in 1 .. Len(o[m]) /\ o2[m][i].node # n
      BY <2>6, <2>1
    <3>2. PICK y \in 1 .. len : o2[l][j].node = o[l][y].node
      BY <3>1, <2>6, <2>2
    <3>. QED
      BY <3>1, <3>2, <2>6 DEF Ringed, Apart, len
  <2>. QED
    BY <2>3, <2>4, <2>5, <2>6
<1>15. Linked(r2, o2)
  <2>1. Around(r2.next, r2.forw, Stops(o2, l), Len(o2[l]))
    <3>1. Circle(Stops(o2, l), len + 1, RingNodes)
      <4>1. Stops(o2, l) \in [0 .. (len + 1) + 1 -> RingNodes]
        <5>1. \A i \in 1 .. len + 1 : o2[l][i] \in Entries
          BY <1>5
        <5>2. \A i \in 0 .. (len + 1) + 1 : Stop(o2, l, i) \in RingNodes
          BY <5>1, <1>5 DEF Stop, RingNodes, Entries
        <5>. QED
          BY <5>2, <1>5 DEF Stops, len
      <4>2. \A i \in 0 .. (len + 1) + 1 : Stops(o2, l)[i] = Stop(o2, l, i)
        BY <1>5 DEF Stops, len
      <4>3. Stop(o2, l, (len + 1) + 1) = l /\ Stop(o2, l, 0) = l
        BY <1>1, <1>5 DEF Stop, len
      <4>4. ASSUME NEW i \in 0 .. len + 1, NEW j \in 0 .. len + 1, Stop(o2, l, i) = Stop(o2, l, j)
            PROVE  i = j
        <5>0. \A x \in 1 .. len + 1 : o2[l][x] \in Entries
          BY <1>5
        <5>1. l \notin LNodes /\ \A x \in 1 .. len + 1 : o2[l][x].node \in LNodes
          BY ListConstants, <5>0 DEF Entries
        <5>2. CASE i = 0 \/ j = 0
          BY <5>1, <5>2, <4>4, <1>1, <1>5 DEF Stop, len
        <5>3. CASE i # 0 /\ j # 0
          <6>1. i \in 1 .. Len(o2[l]) /\ j \in 1 .. Len(o2[l])
            BY <5>3, <1>1, <1>5 DEF len
          <6>2. o2[l][i].node = o2[l][j].node
            BY <6>1, <4>4 DEF Stop
          <6>. QED
            BY <6>1, <6>2, <1>14 DEF Apart
        <5>. QED
          BY <5>2, <5>3
      <4>5. /\ 0 \in 0 .. (len + 1) + 1 /\ (len + 1) + 1 \in 0 .. (len + 1) + 1
            /\ 0 .. len + 1 \subseteq 0 .. (len + 1) + 1
        BY <1>1 DEF len
      <4>6. Stops(o2, l)[(len + 1) + 1] = Stops(o2, l)[0]
        BY <4>2, <4>3, <4>5
      <4>7. \A i, j \in 0 .. len + 1 : Stops(o2, l)[i] = Stops(o2, l)[j] => i = j
        <5>. SUFFICES ASSUME NEW i \in 0 .. len + 1, NEW j \in 0 .. len + 1,
                             Stops(o2, l)[i] = Stops(o2, l)[j]
                      PROVE  i = j
          OBVIOUS
        <5>1. Stop(o2, l, i) = Stop(o2, l, j)
          BY <4>2, <4>5
        <5>. QED
          BY <5>1, <4>4
      <4>. QED
        BY <4>1, <4>6, <4>7 DEF Circle
    <3>2. /\ \A i \in 0 .. k : Stops(o2, l)[i] = Stops(o, l)[i]
          /\ Stops(o2, l)[k + 1] = n
          /\ \A i \in k + 1 .. len + 1 : Stops(o2, l)[i + 1] = Stops(o, l)[i]
      <4>1. \A i \in 0 .. len + 2 : Stops(o2, l)[i] = Stop(o2, l, i)
        BY <1>1, <1>5 DEF Stops, len
      <4>2. ASSUME NEW i \in 0 .. k PROVE Stops(o2, l)[i] = Stops(o, l)[i]
        <5>1. i \in 0 .. len + 2 /\ i \in 0 .. len + 1 /\ (i = 0 \/ i \in 1 .. k)
          BY <1>1 DEF len
        <5>. QED
          BY <5>1, <4>1, <1>1, <1>13 DEF len
      <4>3. ASSUME NEW i \in k + 1 .. len + 1 PROVE Stops(o2, l)[i + 1] = Stops(o, l)[i]
        <5>1. i + 1 \in 0 .. len + 2 /\ i \in 0 .. len + 1
          BY <1>1 DEF len
        <5>. QED
          BY <5>1, <4>1, <1>1, <1>13 DEF len
      <4>4. k + 1 \in 0 .. len + 2
        BY <1>1 DEF len
      <4>. QED
        BY <4>1, <4>2, <4>3, <4>4, <1>13
    <3>3. \A i \in 0 .. len + 1 : Stops(o, l)[i] # n
      BY <1>1, <1>4 DEF len
    <3>4. r.next \in [RingNodes -> Nat] /\ r.forw \in [RingNodes -> Nat] /\ k \in 0 .. len /\ len \in Nat
      BY <1>1, <1>2 DEF Rings, len
    <3>5. Around([r.next EXCEPT ![Stops(o, l)[k]] = n, ![n] = r.next[Stops(o, l)[k]]],
                 [r.forw EXCEPT ![n] = r.forw[r.next[Stops(o, l)[k]]],
                                ![r.next[Stops(o, l)[k]]] = n], Stops(o2, l), len + 1)
      BY <3>1, <3>2, <3>3, <3>4, <1>1, <1>2, AroundInserted DEF len
    <3>. QED
      BY <3>5, <1>5, <1>8, <1>9 DEF len
  <2>2. ASSUME NEW m \in LLists \ {l} PROVE Around(r2.next, r2.forw, Stops(o2, m), Len(o2[m]))
    <3>1. /\ Stops(o2, m) = Stops(o, m) /\ Len(o2[m]) = Len(o[m]) /\ Len(o[m]) \in Nat
          /\ Around(r.next, r.forw, Stops(o, m), Len(o[m]))
          /\ Circle(Stops(o, m), Len(o[m]), RingNodes)
          /\ \A i \in 0 .. Len(o[m]) + 1 : Stops(o, m)[i] = Stop(o, m, i)
      <4>1. Stops(o2, m) = Stops(o, m) /\ Len(o2[m]) = Len(o[m])
        BY <1>6 DEF Stops, Stop
      <4>. QED
        BY <4>1, Circled
    <3>2. k \in 0 .. Len(o[l]) + 1 /\ k + 1 \in 0 .. Len(o[l]) + 1 /\ r.next[at] = Stop(o, l, k + 1)
      BY <1>1, <1>8 DEF len
    <3>3. ASSUME NEW j \in 0 .. Len(o[m]) + 1
          PROVE  Stop(o, m, j) # at /\ Stop(o, m, j) # r.next[at] /\ Stop(o, m, j) # n
      BY <3>2, <1>4, StopsElsewhere DEF at
    <3>4. ASSUME NEW i \in 0 .. Len(o[m])
          PROVE  /\ r2.next[Stops(o, m)[i]] = Stops(o, m)[i + 1]
                 /\ r2.forw[Stops(o, m)[i + 1]] = Stops(o, m)[i]
      <4>1. /\ i \in 0 .. Len(o[m]) + 1 /\ i + 1 \in 0 .. Len(o[m]) + 1
        BY <3>1
      <4>2. /\ Stops(o, m)[i] \in RingNodes /\ Stops(o, m)[i + 1] \in RingNodes
            /\ r.next[Stops(o, m)[i]] = Stops(o, m)[i + 1]
            /\ r.forw[Stops(o, m)[i + 1]] = Stops(o, m)[i]
        BY <4>1, <3>1 DEF Circle, Around
      <4>3. /\ Stops(o, m)[i] # at /\ Stops(o, m)[i] # n
            /\ Stops(o, m)[i + 1] # r.next[at] /\ Stops(o, m)[i + 1] # n
        BY <4>1, <3>1, <3>3
      <4>4. r.next \in [RingNodes -> Nat] /\ r.forw \in [RingNodes -> Nat]
        BY <1>2 DEF Rings
      <4>. QED
        BY <4>2, <4>3, <4>4, <1>9
    <3>. QED
      BY <3>1, <3>4 DEF Around
  <2>. QED
    BY <2>1, <2>2 DEF Linked
<1>16. Carried(r2, o2)
  <2>0. r.data \in [RingNodes -> Nat]
    BY <1>2 DEF Rings
  <2>1. ASSUME NEW m \in LLists, NEW i \in 1 .. Len(o[m])
        PROVE  r2.data[o[m][i].node] = o[m][i].data
    <3>1. o[m][i].node # n
      <4>1. o[m][i].node = Stop(o, m, i) /\ i \in 0 .. Len(o[m]) + 1
        BY DEF Stop
      <4>. QED
        BY <4>1, <1>4
    <3>2. o[m][i].node \in RingNodes
      <4>1. o[m][i] \in Entries
        BY <1>2 DEF Orders
      <4>. QED
        BY <4>1 DEF Entries, RingNodes
    <3>. QED
      BY <3>1, <3>2, <2>0, <1>9 DEF Ringed, Carried
  <2>2. r2.data[n] = d
    BY <2>0, <1>2, <1>9
  <2>3. ASSUME NEW i \in 1 .. len + 1 PROVE r2.data[o2[l][i].node] = o2[l][i].data
    <3>1. CASE i \in 1 .. k
      <4>1. i \in 1 .. len
        BY <3>1, <1>1 DEF len
      <4>. QED
        BY <4>1, <3>1, <2>1, <1>5 DEF len
    <3>2. CASE i = k + 1
      BY <3>2, <2>2, <1>5 DEF Entry
    <3>3. CASE i \notin 1 .. k + 1
      <4>1. PICK y \in k + 1 .. len : i = y + 1
        <5>1. i - 1 \in k + 1 .. len /\ i = (i - 1) + 1
          BY <3>3, <1>1 DEF len
        <5>. QED
          BY <5>1
      <4>2. y \in 1 .. len
        BY <4>1, <1>1 DEF len
      <4>. QED
        BY <4>1, <4>2, <2>1, <1>5 DEF len
    <3>. QED
      BY <3>1, <3>2, <3>3, <1>1
  <2>. QED
    BY <2>1, <2>3, <1>5, <1>6 DEF Carried
<1>17. Used(r2, o2)
  <2>. SUFFICES ASSUME NEW m \in LNodes, r2.next[m] # NoNode
                PROVE  \E g \in LLists : \E i \in 1 .. Len(o2[g]) : o2[g][i].node = m
    BY DEF Used
  <2>1. CASE m = n
    <3>1. k + 1 \in 1 .. Len(o2[l]) /\ o2[l][k + 1].node = n
      BY <1>1, <1>5 DEF len, Entry
    <3>. QED
      BY <3>1, <2>1
  <2>2. CASE m # n
    <3>0. PICK g \in LLists : \E i \in 1 .. Len(o[g]) : o[g][i].node = m
      BY <2>2, <1>12 DEF Ringed, Used
    <3>1. PICK i \in 1 .. Len(o[g]) : o[g][i].node = m
      BY <3>0
    <3>2. CASE g # l
      BY <3>1, <3>2, <1>6
    <3>3. CASE g = l /\ i <= k
      <4>1. i \in 1 .. k /\ i \in 1 .. Len(o2[l])
        BY <3>3, <1>1, <1>5 DEF len
      <4>. QED
        BY <4>1, <3>1, <3>3, <1>5
    <3>4. CASE g = l /\ i > k
      <4>1. i \in k + 1 .. len /\ i + 1 \in 1 .. Len(o2[l])
        BY <3>4, <1>1, <1>5 DEF len
      <4>2. o2[l][i + 1].node = m
        BY <4>1, <3>1, <3>4, <1>5
      <4>. QED
        BY <4>1, <4>2
    <3>. QED
      BY <3>2, <3>3, <3>4, <1>1
  <2>. QED
    BY <2>1, <2>2
<1>18. Ringed(r2, o2)
  BY <1>7, <1>10, <1>14, <1>15, <1>16, <1>17 DEF Ringed
<1>19. Entry(n, d).node = n /\ Entry(n, d).data = d
  BY DEF Entry
<1>. QED
  BY <1>5, <1>6, <1>9, <1>12, <1>18, <1>19 DEF Grown, len

(* eclist_erase.                                                           *)
LEMMA EraseKeeps ==
  ASSUME NEW r, NEW o, Ringed(r, o), NEW l \in LLists, NEW k \in 1 .. Len(o[l]),
         NEW n, n = o[l][k].node, NEW r2, r2 = Unlink(r, n),
         NEW o2, o2 = [o EXCEPT ![l] = RemoveAt(@, k)]
  PROVE  Shrunk(r, o, l, k, r2, o2)
<1>1. PICK len \in Nat :
         /\ len = Len(o[l]) /\ k \in 1 .. len /\ o[l] \in Seq(Entries)
         /\ Circle(Stops(o, l), len, RingNodes)
         /\ Around(r.next, r.forw, Stops(o, l), len)
         /\ \A i \in 0 .. len + 1 : Stops(o, l)[i] = Stop(o, l, i)
  BY Circled
<1>2. r \in Rings /\ o \in Orders /\ RingNodes \subseteq Nat \ {0}
  BY ListConstants DEF Ringed, RingNodes
<1>3. n \in LNodes /\ n \in RingNodes /\ n = Stop(o, l, k) /\ n = Stops(o, l)[k]
  <2>1. o[l][k] \in Entries
    BY <1>1
  <2>. QED
    BY <2>1, <1>1 DEF Entries, RingNodes, Stop
<1>4. /\ o2[l] \in Seq(Entries) /\ Len(o2[l]) = len - 1
      /\ \A i \in 1 .. k - 1 : o2[l][i] = o[l][i]
      /\ \A i \in k .. len - 1 : o2[l][i] = o[l][i + 1]
  <2>1. o2[l] = RemoveAt(o[l], k)
    BY <1>2 DEF Orders
  <2>2. PICK s \in Seq(Entries) : s = o[l] /\ len = Len(s) /\ k \in 1 .. Len(s)
    BY <1>1
  <2>3. PICK t : t = o2[l] /\ t = RemoveAt(s, k)
    BY <2>1, <2>2
  <2>4. /\ t \in Seq(Entries) /\ Len(t) = Len(s) - 1
        /\ \A i \in 1 .. k - 1 : t[i] = s[i]
        /\ \A i \in k .. Len(s) - 1 : t[i] = s[i + 1]
    BY <2>2, <2>3, RemovedAt
  <2>. QED
    BY <2>2, <2>3, <2>4
<1>5. \A m \in LLists \ {l} : o2[m] = o[m]
  BY <1>2 DEF Orders
<1>6. o2 \in Orders
  <2>1. o2 = [o EXCEPT ![l] = o2[l]]
    BY <1>2 DEF Orders
  <2>. QED
    BY <2>1, <1>2, <1>4 DEF Orders
<1>7. PICK bef \in RingNodes, aft \in RingNodes :
        /\ bef = Stop(o, l, k - 1) /\ aft = Stop(o, l, k + 1)
        /\ r.next[n] = aft /\ r.forw[n] = bef
  <2>1. /\ k - 1 \in 0 .. len + 1 /\ k + 1 \in 0 .. len + 1
        /\ k - 1 \in 0 .. len /\ (k - 1) + 1 = k
    BY <1>1
  <2>2. Stop(o, l, k - 1) \in RingNodes /\ Stop(o, l, k + 1) \in RingNodes
    BY <2>1, <1>1, Taken
  <2>3. r.next[n] = Stop(o, l, k + 1)
    BY <2>1, <1>1, <1>3 DEF Around
  <2>4. r.forw[n] = Stop(o, l, k - 1)
    <3>1. r.forw[Stops(o, l)[(k - 1) + 1]] = Stops(o, l)[k - 1]
      BY <2>1, <1>1 DEF Around
    <3>. QED
      BY <3>1, <2>1, <1>1, <1>3
  <2>. QED
    BY <2>2, <2>3, <2>4
<1>8. /\ r2.next = [r.next EXCEPT ![bef] = aft, ![n] = NoNode]
      /\ r2.forw = [r.forw EXCEPT ![aft] = bef, ![n] = NoNode]
      /\ r2.data = [r.data EXCEPT ![n] = NoData]
      /\ r2 = [next |-> r2.next, forw |-> r2.forw, data |-> r2.data]
  BY <1>7 DEF Unlink
<1>9. r2 \in Rings
  <2>1. r.next \in [RingNodes -> Nat] /\ r.forw \in [RingNodes -> Nat] /\ r.data \in [RingNodes -> Nat]
    BY <1>2 DEF Rings
  <2>2. bef \in Nat /\ aft \in Nat /\ NoNode \in Nat /\ NoData \in Nat
    BY <1>2, <1>7 DEF NoNode, NoData
  <2>3. r2.next \in [RingNodes -> Nat] /\ r2.forw \in [RingNodes -> Nat] /\ r2.data \in [RingNodes -> Nat]
    <3>1. [r.next EXCEPT ![bef] = aft, ![n] = NoNode] \in [RingNodes -> Nat]
      BY <2>1, <2>2
    <3>2. [r.forw EXCEPT ![aft] = bef, ![n] = NoNode] \in [RingNodes -> Nat]
      BY <2>1, <2>2
    <3>3. [r.data EXCEPT ![n] = NoData] \in [RingNodes -> Nat]
      BY <2>1, <2>2
    <3>. QED
      BY <3>1, <3>2, <3>3, <1>8, Zenon
  <2>. QED
    BY <2>3, <1>8 DEF Rings
<1>10. \A m \in LNodes : r2.next[m] # NoNode <=> (m # n /\ r.next[m] # NoNode)
  <2>1. r.next \in [RingNodes -> Nat] /\ LNodes \subseteq RingNodes /\ NoNode \notin RingNodes
    BY <1>2 DEF Rings, RingNodes, NoNode
  <2>2. r.next[bef] # NoNode
    <3>1. k - 1 \in 0 .. Len(o[l]) + 1
      BY <1>1
    <3>. QED
      BY <3>1, <1>7, Taken
  <2>. QED
    BY <2>1, <2>2, <1>3, <1>7, <1>8
<1>11. /\ \A i \in 0 .. k - 1 : Stop(o2, l, i) = Stop(o, l, i)
       /\ \A i \in k .. len : Stop(o2, l, i) = Stop(o, l, i + 1)
  <2>1. ASSUME NEW i \in 0 .. k - 1 PROVE Stop(o2, l, i) = Stop(o, l, i)
    <3>1. CASE i = 0
      BY <3>1, <1>1, <1>4 DEF Stop
    <3>2. CASE i # 0
      <4>1. i \in 1 .. k - 1 /\ i \in 1 .. len /\ i \in 1 .. len - 1
        BY <3>2, <1>1
      <4>. QED
        BY <4>1, <1>1, <1>4 DEF Stop
    <3>. QED
      BY <3>1, <3>2
  <2>2. ASSUME NEW i \in k .. len PROVE Stop(o2, l, i) = Stop(o, l, i + 1)
    <3>1. CASE i = len
      <4>1. i \notin 1 .. len - 1 /\ i + 1 \notin 1 .. len
        BY <3>1, <1>1
      <4>. QED
        BY <4>1, <1>1, <1>4 DEF Stop
    <3>2. CASE i # len
      <4>1. i \in k .. len - 1 /\ i \in 1 .. len - 1 /\ i + 1 \in 1 .. len
        BY <3>2, <1>1
      <4>. QED
        BY <4>1, <1>1, <1>4 DEF Stop
    <3>. QED
      BY <3>1, <3>2
  <2>. QED
    BY <2>1, <2>2
<1>12. ASSUME NEW g \in LLists, NEW x \in 1 .. Len(o2[g])
       PROVE  \E y \in 1 .. Len(o[g]) :
                /\ o2[g][x] = o[g][y] /\ ~(g = l /\ y = k)
                /\ (y = x /\ ~(g = l /\ x >= k)) \/ (y = x + 1 /\ g = l /\ x >= k)
  <2>1. CASE g # l
    BY <2>1, <1>5
  <2>2. CASE g = l /\ x < k
    <3>1. x \in 1 .. k - 1 /\ x \in 1 .. Len(o[g])
      BY <2>2, <1>1, <1>4
    <3>. QED
      BY <3>1, <2>2, <1>1, <1>4
  <2>3. CASE g = l /\ x >= k
    <3>1. x \in k .. len - 1 /\ x + 1 \in 1 .. Len(o[g]) /\ x + 1 # k
      BY <2>3, <1>1, <1>4
    <3>. QED
      BY <3>1, <2>3, <1>1, <1>4
  <2>4. x \in Nat /\ k \in Nat
    BY <1>1, <1>4, <1>5
  <2>. QED
    BY <2>1, <2>2, <2>3, <2>4
<1>13. Apart(o2)
  <2>1. Kept(o, l, k, o2)
    BY <1>12 DEF Kept
  <2>2. \A g \in LLists : Len(o2[g]) \in Nat
    BY <1>5 DEF Orders
  <2>3. Apart(o) /\ k \in Int
    BY <1>1 DEF Ringed
  <2>. QED
    BY <2>1, <2>2, <2>3, ApartErased
<1>14. Carried(r2, o2)
  <2>. SUFFICES ASSUME NEW g \in LLists, NEW x \in 1 .. Len(o2[g])
                PROVE  r2.data[o2[g][x].node] = o2[g][x].data
    BY DEF Carried
  <2>1. PICK y \in 1 .. Len(o[g]) : o2[g][x] = o[g][y] /\ ~(g = l /\ y = k)
    BY <1>12
  <2>2. o[g][y].node # n /\ r.data[o[g][y].node] = o[g][y].data
    BY <2>1, <1>1 DEF Ringed, Apart, Carried
  <2>3. o[g][y].node \in RingNodes
    <3>1. o[g][y] \in Entries
      BY <1>2 DEF Orders
    <3>. QED
      BY <3>1 DEF Entries, RingNodes
  <2>4. r.data \in [RingNodes -> Nat]
    BY <1>2 DEF Rings
  <2>5. PICK v \in RingNodes : v = o[g][y].node
    BY <2>3
  <2>6. r2.data[v] = r.data[v]
    BY <2>2, <2>4, <2>5, <1>8
  <2>. QED
    BY <2>1, <2>2, <2>5, <2>6
<1>15. Used(r2, o2)
  <2>. SUFFICES ASSUME NEW m \in LNodes, r2.next[m] # NoNode
                PROVE  \E g \in LLists : \E i \in 1 .. Len(o2[g]) : o2[g][i].node = m
    BY DEF Used
  <2>1. PICK g \in LLists : \E i \in 1 .. Len(o[g]) : o[g][i].node = m
    BY <1>10 DEF Ringed, Used
  <2>2. PICK i \in 1 .. Len(o[g]) : o[g][i].node = m
    BY <2>1
  <2>3. ~(g = l /\ i = k)
    BY <2>2, <1>10
  <2>4. CASE g # l
    BY <2>2, <2>4, <1>5
  <2>5. CASE g = l /\ i < k
    <3>1. i \in 1 .. k - 1 /\ i \in 1 .. Len(o2[l])
      BY <2>5, <1>1, <1>4
    <3>. QED
      BY <3>1, <2>2, <2>5, <1>4
  <2>6. CASE g = l /\ i > k
    <3>1. PICK x \in k .. len - 1 : i = x + 1
      <4>1. i - 1 \in k .. len - 1 /\ i = (i - 1) + 1
        BY <2>6, <1>1
      <4>. QED
        BY <4>1
    <3>2. x \in 1 .. Len(o2[l]) /\ o2[l][x].node = m
      BY <3>1, <2>2, <2>6, <1>1, <1>4
    <3>. QED
      BY <3>2
  <2>7. i \in Int /\ k \in Int
    BY <1>1
  <2>. QED
    BY <2>3, <2>4, <2>5, <2>6, <2>7
<1>16. Linked(r2, o2)
  <2>1. Around(r2.next, r2.forw, Stops(o2, l), Len(o2[l]))
    <3>1. /\ \A i \in 0 .. len : Stops(o2, l)[i] = Stop(o2, l, i)
      BY <1>1, <1>4 DEF Stops
    <3>2. \A i \in 0 .. k - 1 : Stops(o2, l)[i] = Stops(o, l)[i]
      <4>. TAKE i \in 0 .. k - 1
      <4>1. i \in 0 .. len /\ i \in 0 .. len + 1
        BY <1>1
      <4>. QED
        BY <4>1, <3>1, <1>1, <1>11
    <3>3. \A i \in k .. len : Stops(o2, l)[i] = Stops(o, l)[i + 1]
      <4>. TAKE i \in k .. len
      <4>1. i \in 0 .. len /\ i + 1 \in 0 .. len + 1
        BY <1>1
      <4>. QED
        BY <4>1, <3>1, <1>1, <1>11
    <3>4. r.next \in [RingNodes -> Nat] /\ r.forw \in [RingNodes -> Nat]
      BY <1>2 DEF Rings
    <3>5. Around([r.next EXCEPT ![r.forw[Stops(o, l)[k]]] = r.next[Stops(o, l)[k]],
                                ![Stops(o, l)[k]] = NoNode],
                 [r.forw EXCEPT ![r.next[Stops(o, l)[k]]] = r.forw[Stops(o, l)[k]],
                                ![Stops(o, l)[k]] = NoNode], Stops(o2, l), len - 1)
      BY <3>2, <3>3, <3>4, <1>1, AroundErased
    <3>. QED
      BY <3>5, <1>3, <1>4, <1>7, <1>8
  <2>2. ASSUME NEW m \in LLists \ {l} PROVE Around(r2.next, r2.forw, Stops(o2, m), Len(o2[m]))
    <3>1. /\ Stops(o2, m) = Stops(o, m) /\ Len(o2[m]) = Len(o[m]) /\ Len(o[m]) \in Nat
          /\ Around(r.next, r.forw, Stops(o, m), Len(o[m]))
          /\ Circle(Stops(o, m), Len(o[m]), RingNodes)
          /\ \A i \in 0 .. Len(o[m]) + 1 : Stops(o, m)[i] = Stop(o, m, i)
      <4>1. Stops(o2, m) = Stops(o, m) /\ Len(o2[m]) = Len(o[m])
        BY <1>5 DEF Stops, Stop
      <4>. QED
        BY <4>1, Circled
    <3>2. /\ k - 1 \in 0 .. Len(o[l]) + 1 /\ k \in 0 .. Len(o[l]) + 1
          /\ k + 1 \in 0 .. Len(o[l]) + 1
      BY <1>1
    <3>3. ASSUME NEW j \in 0 .. Len(o[m]) + 1
          PROVE  Stop(o, m, j) # bef /\ Stop(o, m, j) # aft /\ Stop(o, m, j) # n
      BY <3>2, <1>3, <1>7, StopsElsewhere
    <3>4. ASSUME NEW i \in 0 .. Len(o[m])
          PROVE  /\ r2.next[Stops(o, m)[i]] = Stops(o, m)[i + 1]
                 /\ r2.forw[Stops(o, m)[i + 1]] = Stops(o, m)[i]
      <4>1. /\ i \in 0 .. Len(o[m]) + 1 /\ i + 1 \in 0 .. Len(o[m]) + 1
        BY <3>1
      <4>2. /\ Stops(o, m)[i] \in RingNodes /\ Stops(o, m)[i + 1] \in RingNodes
            /\ r.next[Stops(o, m)[i]] = Stops(o, m)[i + 1]
            /\ r.forw[Stops(o, m)[i + 1]] = Stops(o, m)[i]
        BY <4>1, <3>1 DEF Circle, Around
      <4>3. /\ Stops(o, m)[i] # bef /\ Stops(o, m)[i] # n
            /\ Stops(o, m)[i + 1] # aft /\ Stops(o, m)[i + 1] # n
        BY <4>1, <3>1, <3>3
      <4>4. r.next \in [RingNodes -> Nat] /\ r.forw \in [RingNodes -> Nat]
        BY <1>2 DEF Rings
      <4>. QED
        BY <4>2, <4>3, <4>4, <1>8
    <3>. QED
      BY <3>1, <3>4 DEF Around
  <2>. QED
    BY <2>1, <2>2 DEF Linked
<1>17. EraseAnswer(r, n) = Stop(o, l, k - 1)
  BY <1>7 DEF EraseAnswer
<1>18. Ringed(r2, o2)
  BY <1>6, <1>9, <1>13, <1>14, <1>15, <1>16 DEF Ringed
<1>. QED
  BY <1>1, <1>4, <1>5, <1>8, <1>10, <1>17, <1>18 DEF Shrunk

(* eclist_set, and half of eclist_swap.                                    *)
LEMMA SetKeeps ==
  ASSUME NEW r, NEW o, Ringed(r, o), NEW l \in LLists, NEW k \in 1 .. Len(o[l]),
         NEW n, n = o[l][k].node, NEW d \in Nat,
         NEW r2, r2 = [r EXCEPT !.data[n] = d],
         NEW o2, o2 = [o EXCEPT ![l][k].data = d]
  PROVE  Changed(r, o, n, d, r2, o2)
<1>1. PICK len \in Nat :
         /\ len = Len(o[l]) /\ k \in 1 .. len /\ o[l] \in Seq(Entries) /\ DOMAIN o[l] = 1 .. len
         /\ \A i \in 1 .. len : o[l][i] \in Entries
  BY Circled
<1>2. r \in Rings /\ o \in Orders
  BY DEF Ringed
<1>3. n \in LNodes /\ n \in RingNodes
  BY <1>1 DEF Entries, RingNodes
<1>4. o2[l] = [o[l] EXCEPT ![k] = [@ EXCEPT !.data = d]] /\ \A m \in LLists \ {l} : o2[m] = o[m]
  BY <1>2 DEF Orders
<1>5. PICK e \in Entries : /\ e = [o[l][k] EXCEPT !.data = d]
                           /\ e.node = n /\ e.data = d /\ o2[l] = [o[l] EXCEPT ![k] = e]
  BY <1>1, <1>4 DEF Entries
<1>6. /\ o2[l] \in Seq(Entries) /\ Len(o2[l]) = len /\ o2[l][k] = e
      /\ \A i \in 1 .. len : i # k => o2[l][i] = o[l][i]
  <2>1. PICK s \in Seq(Entries) : s = o[l] /\ Len(s) = len /\ k \in 1 .. Len(s)
    BY <1>1
  <2>2. PICK t : t = o2[l] /\ t = [s EXCEPT ![k] = e]
    BY <2>1, <1>5
  <2>3. /\ t \in Seq(Entries) /\ Len(t) = len /\ t[k] = e
        /\ \A i \in 1 .. len : i # k => t[i] = s[i]
    <3>1. /\ [s EXCEPT ![k] = e] \in Seq(Entries) /\ Len([s EXCEPT ![k] = e]) = Len(s)
          /\ \A j \in 1 .. Len(s) : [s EXCEPT ![k] = e][j] = IF j = k THEN e ELSE s[j]
      BY <2>1, ExceptSeq
    <3>. QED
      BY <3>1, <2>1, <2>2
  <2>. QED
    BY <2>1, <2>2, <2>3
<1>7. o2 \in Orders
  <2>1. o2 = [o EXCEPT ![l] = o2[l]]
    BY <1>2, <1>4 DEF Orders
  <2>. QED
    BY <2>1, <1>2, <1>6 DEF Orders
<1>8. \A m \in LLists : /\ Len(o2[m]) = Len(o[m])
                        /\ \A i \in 1 .. Len(o[m]) : o2[m][i].node = o[m][i].node
  BY <1>1, <1>4, <1>5, <1>6
<1>9. /\ r2 \in Rings /\ r2.next = r.next /\ r2.forw = r.forw
      /\ r2.data = [r.data EXCEPT ![n] = d]
  BY <1>2, <1>3 DEF Rings
<1>10. \A m \in LLists : Stops(o2, m) = Stops(o, m)
  BY <1>8 DEF Stops, Stop
<1>11. Linked(r2, o2)
  BY <1>8, <1>9, <1>10 DEF Ringed, Linked
<1>12. Apart(o2)
  <2>. SUFFICES ASSUME NEW m \in LLists, NEW h \in LLists,
                       NEW i \in 1 .. Len(o2[m]), NEW j \in 1 .. Len(o2[h]),
                       o2[m][i].node = o2[h][j].node
                PROVE  m = h /\ i = j
    BY DEF Apart
  <2>1. /\ i \in 1 .. Len(o[m]) /\ j \in 1 .. Len(o[h])
        /\ o[m][i].node = o[h][j].node
    BY <1>8
  <2>2. Apart(o)
    BY DEF Ringed
  <2>. QED
    BY <2>1, <2>2 DEF Apart
<1>13. Used(r2, o2)
  <2>. SUFFICES ASSUME NEW m \in LNodes, r2.next[m] # NoNode
                PROVE  \E g \in LLists : \E i \in 1 .. Len(o2[g]) : o2[g][i].node = m
    BY DEF Used
  <2>1. PICK g \in LLists : \E i \in 1 .. Len(o[g]) : o[g][i].node = m
    BY <1>9 DEF Ringed, Used
  <2>. QED
    BY <2>1, <1>8
<1>14. Carried(r2, o2)
  <2>. SUFFICES ASSUME NEW g \in LLists, NEW x \in 1 .. Len(o2[g])
                PROVE  r2.data[o2[g][x].node] = o2[g][x].data
    BY DEF Carried
  <2>1. r.data \in [RingNodes -> Nat]
    BY <1>2 DEF Rings
  <2>2. x \in 1 .. Len(o[g]) /\ o2[g][x].node = o[g][x].node
    BY <1>8
  <2>3. PICK v \in RingNodes : v = o[g][x].node
    <3>1. o[g][x] \in Entries
      BY <2>2, <1>2 DEF Orders
    <3>. QED
      BY <3>1 DEF Entries, RingNodes
  <2>4. CASE g = l /\ x = k
    <3>1. o2[g][x] = e /\ r2.data[n] = d
      BY <2>1, <2>4, <1>3, <1>6, <1>9
    <3>. QED
      BY <3>1, <1>5
  <2>5. CASE ~(g = l /\ x = k)
    <3>1. v # n
      BY <2>2, <2>3, <2>5, <1>1 DEF Ringed, Apart
    <3>2. o2[g][x] = o[g][x]
      BY <2>2, <2>5, <1>1, <1>4, <1>6
    <3>3. r2.data[v] = r.data[v]
      BY <3>1, <2>1, <2>3, <1>9
    <3>4. r.data[v] = o[g][x].data
      BY <2>2, <2>3 DEF Ringed, Carried
    <3>. QED
      BY <3>2, <3>3, <3>4, <2>3
  <2>. QED
    BY <2>4, <2>5
<1>15. Ringed(r2, o2)
  BY <1>7, <1>9, <1>11, <1>12, <1>13, <1>14 DEF Ringed
<1>. QED
  BY <1>8, <1>9, <1>15 DEF Changed

(* eclist_clear.                                                           *)
LEMMA ClearKeeps ==
  ASSUME NEW r, NEW o, Ringed(r, o), NEW l \in LLists,
         NEW gone, gone = {o[l][i].node : i \in DOMAIN o[l]},
         NEW r2, r2 = [next |-> [n \in RingNodes |-> IF n \in gone THEN NoNode
                                                    ELSE IF n = l THEN l ELSE r.next[n]],
                       forw |-> [n \in RingNodes |-> IF n \in gone THEN NoNode
                                                    ELSE IF n = l THEN l ELSE r.forw[n]],
                       data |-> [n \in RingNodes |-> IF n \in gone THEN NoData ELSE r.data[n]]],
         NEW o2, o2 = [o EXCEPT ![l] = <<>>]
  PROVE  Emptied(r, o, r2, o2)
<1>1. r \in Rings /\ o \in Orders /\ RingNodes \subseteq Nat \ {0} /\ l \in RingNodes
  BY ListConstants DEF Ringed, RingNodes
<1>2. o2 \in Orders /\ o2[l] = <<>> /\ Len(o2[l]) = 0 /\ \A m \in LLists \ {l} : o2[m] = o[m]
  BY <1>1 DEF Orders
<1>3. gone \subseteq LNodes /\ l \notin gone
  <2>1. DOMAIN o[l] = 1 .. Len(o[l]) /\ \A i \in 1 .. Len(o[l]) : o[l][i].node \in LNodes
    BY Circled DEF Entries
  <2>. QED
    BY <2>1, ListConstants
<1>4. r2 \in Rings
  <2>1. r.next \in [RingNodes -> Nat] /\ r.forw \in [RingNodes -> Nat] /\ r.data \in [RingNodes -> Nat]
    BY <1>1 DEF Rings
  <2>2. r2.next \in [RingNodes -> Nat] /\ r2.forw \in [RingNodes -> Nat] /\ r2.data \in [RingNodes -> Nat]
    BY <2>1, <1>1 DEF NoNode, NoData
  <2>. QED
    BY <2>2 DEF Rings
<1>5. /\ \A n \in RingNodes : n \notin gone /\ n # l =>
           r2.next[n] = r.next[n] /\ r2.forw[n] = r.forw[n]
      /\ \A n \in RingNodes : n \notin gone => r2.data[n] = r.data[n]
      /\ r2.next[l] = l /\ r2.forw[l] = l
      /\ \A n \in gone : n \in RingNodes => r2.next[n] = NoNode
  BY <1>1, <1>3
<1>6. \A m \in LLists \ {l} : \A j \in 0 .. Len(o[m]) + 1 : Stop(o, m, j) \notin gone /\ Stop(o, m, j) # l
  <2>. TAKE m \in LLists \ {l}
  <2>. TAKE j \in 0 .. Len(o[m]) + 1
  <2>1. Len(o[l]) \in Nat /\ DOMAIN o[l] = 1 .. Len(o[l])
    BY Circled
  <2>2. ASSUME NEW i \in 1 .. Len(o[l]) PROVE Stop(o, m, j) # o[l][i].node
    <3>1. i \in 0 .. Len(o[l]) + 1 /\ o[l][i].node = Stop(o, l, i)
      BY <2>1 DEF Stop
    <3>. QED
      BY <3>1, StopsElsewhere
  <2>3. Stop(o, m, j) # l
    <3>1. 0 \in 0 .. Len(o[l]) + 1 /\ Stop(o, l, 0) = l
      BY <2>1 DEF Stop
    <3>. QED
      BY <3>1, StopsElsewhere
  <2>. QED
    BY <2>1, <2>2, <2>3
<1>7. Linked(r2, o2)
  <2>1. Around(r2.next, r2.forw, Stops(o2, l), Len(o2[l]))
    <3>1. Stops(o2, l) = [i \in 0 .. 1 |-> l]
      BY <1>2 DEF Stops, Stop
    <3>2. \A i \in 0 .. 0 : /\ r2.next[Stops(o2, l)[i]] = Stops(o2, l)[i + 1]
                           /\ r2.forw[Stops(o2, l)[i + 1]] = Stops(o2, l)[i]
      <4>1. Stops(o2, l)[0] = l /\ Stops(o2, l)[1] = l
        BY <3>1
      <4>2. \A i \in 0 .. 0 : i = 0 /\ i + 1 = 1
        OBVIOUS
      <4>. QED
        BY <4>1, <4>2, <1>5
    <3>. QED
      BY <3>2, <1>2 DEF Around
  <2>2. ASSUME NEW m \in LLists \ {l} PROVE Around(r2.next, r2.forw, Stops(o2, m), Len(o2[m]))
    <3>1. /\ Stops(o2, m) = Stops(o, m) /\ Len(o2[m]) = Len(o[m]) /\ Len(o[m]) \in Nat
          /\ Around(r.next, r.forw, Stops(o, m), Len(o[m]))
          /\ Circle(Stops(o, m), Len(o[m]), RingNodes)
          /\ \A i \in 0 .. Len(o[m]) + 1 : Stops(o, m)[i] = Stop(o, m, i)
      <4>1. Stops(o2, m) = Stops(o, m) /\ Len(o2[m]) = Len(o[m])
        BY <1>2 DEF Stops, Stop
      <4>. QED
        BY <4>1, Circled
    <3>2. ASSUME NEW i \in 0 .. Len(o[m])
          PROVE  /\ r2.next[Stops(o, m)[i]] = Stops(o, m)[i + 1]
                 /\ r2.forw[Stops(o, m)[i + 1]] = Stops(o, m)[i]
      <4>1. /\ i \in 0 .. Len(o[m]) + 1 /\ i + 1 \in 0 .. Len(o[m]) + 1
        BY <3>1
      <4>2. /\ Stops(o, m)[i] \in RingNodes /\ Stops(o, m)[i + 1] \in RingNodes
            /\ r.next[Stops(o, m)[i]] = Stops(o, m)[i + 1]
            /\ r.forw[Stops(o, m)[i + 1]] = Stops(o, m)[i]
        BY <4>1, <3>1 DEF Circle, Around
      <4>3. /\ Stops(o, m)[i] \notin gone /\ Stops(o, m)[i] # l
            /\ Stops(o, m)[i + 1] \notin gone /\ Stops(o, m)[i + 1] # l
        BY <4>1, <3>1, <1>6
      <4>. QED
        BY <4>2, <4>3, <1>5
    <3>. QED
      BY <3>1, <3>2 DEF Around
  <2>. QED
    BY <2>1, <2>2 DEF Linked
<1>8. Apart(o2)
  BY <1>2 DEF Ringed, Apart
<1>9. Used(r2, o2)
  <2>. SUFFICES ASSUME NEW m \in LNodes, r2.next[m] # NoNode
                PROVE  \E g \in LLists : \E i \in 1 .. Len(o2[g]) : o2[g][i].node = m
    BY DEF Used
  <2>1. m \in RingNodes /\ m \notin gone /\ m # l
    BY <1>5, ListConstants DEF RingNodes
  <2>2. r.next[m] # NoNode
    BY <2>1, <1>5
  <2>3. PICK g \in LLists : \E i \in 1 .. Len(o[g]) : o[g][i].node = m
    BY <2>2 DEF Ringed, Used
  <2>4. g # l
    <3>1. DOMAIN o[l] = 1 .. Len(o[l])
      BY Circled
    <3>. QED
      BY <3>1, <2>1, <2>3
  <2>. QED
    BY <2>3, <2>4, <1>2
<1>10. Carried(r2, o2)
  <2>. SUFFICES ASSUME NEW g \in LLists, NEW x \in 1 .. Len(o2[g])
                PROVE  r2.data[o2[g][x].node] = o2[g][x].data
    BY DEF Carried
  <2>1. g # l
    BY <1>2
  <2>2. x \in 1 .. Len(o[g]) /\ o2[g][x] = o[g][x]
    BY <2>1, <1>2
  <2>3. o[g][x].node = Stop(o, g, x) /\ x \in 0 .. Len(o[g]) + 1
    BY <2>2 DEF Stop
  <2>4. o[g][x].node \notin gone /\ o[g][x].node \in RingNodes
    BY <2>1, <2>3, <1>6, Taken
  <2>. QED
    BY <2>2, <2>4, <1>5 DEF Ringed, Carried
<1>11. \A m \in LNodes : r2.next[m] # NoNode => r.next[m] # NoNode /\ r2.data[m] = r.data[m]
  <2>. TAKE m \in LNodes
  <2>. HAVE r2.next[m] # NoNode
  <2>1. m \in RingNodes /\ m \notin gone /\ m # l
    BY <1>5, ListConstants DEF RingNodes
  <2>. QED
    BY <2>1, <1>5
<1>12. Ringed(r2, o2)
  BY <1>2, <1>4, <1>7, <1>8, <1>9, <1>10 DEF Ringed
<1>. QED
  BY <1>11, <1>12 DEF Emptied

-----------------------------------------------------------------------------
(* A cursor c stands at stop k of its list, or before the first.  What was *)
(* in the list all along was seen or lies ahead, and nothing is both.      *)
Ahead(o, l, k) == {o[l][i].data : i \in k + 1 .. Len(o[l])}
Passing(c, o, k, pass, seen) ==
  /\ c.list \in LLists /\ k \in 0 .. Len(o[c.list])
  /\ c.node = Stop(o, c.list, k) \/ (c.node = NoNode /\ k = 0)
  /\ c.held => c.node # NoNode /\ k # 0
  /\ pass \subseteq ToSet(seen) \cup Ahead(o, c.list, k)
  /\ ToSet(seen) \cap Ahead(o, c.list, k) = {}

(* Others insert an entry that is new.                                     *)
LEMMA PassInserted ==
  ASSUME NEW r, NEW o, Ringed(r, o), NEW l \in LLists, NEW k \in 0 .. Len(o[l]), NEW e,
         NEW r2, NEW o2, Grown(r, o, l, k, e, r2, o2),
         NEW c, NEW at, NEW pass, NEW seen, Passing(c, o, at, pass, seen), e.data \notin ToSet(seen)
  PROVE  \E a \in Nat : Passing(c, o2, a, pass, seen)
<1>0. /\ Len(o2[l]) = Len(o[l]) + 1 /\ o2[l][k + 1] = e
      /\ \A i \in 1 .. k : o2[l][i] = o[l][i]
      /\ \A i \in k + 1 .. Len(o[l]) : o2[l][i + 1] = o[l][i]
      /\ \A m \in LLists \ {l} : o2[m] = o[m]
  BY DEF Grown
<1>. USE <1>0
<1>1. c.list \in LLists /\ at \in Nat /\ Len(o[l]) \in Nat /\ k \in Nat
  BY Circled DEF Passing
<1>2. CASE c.list # l
  <2>1. o2[c.list] = o[c.list]
    BY <1>1, <1>2
  <2>2. Passing(c, o2, at, pass, seen)
    BY <2>1 DEF Passing, Ahead, Stop
  <2>. QED
    BY <2>2, <1>1
<1>3. CASE c.list = l /\ at <= k
  <2>1. Ahead(o2, l, at) \subseteq Ahead(o, l, at) \cup {e.data}
    <3>. SUFFICES ASSUME NEW i \in at + 1 .. Len(o2[l])
                  PROVE  o2[l][i].data \in Ahead(o, l, at) \cup {e.data}
      BY DEF Ahead
    <3>1. CASE i <= k
      <4>1. i \in 1 .. k /\ i \in at + 1 .. Len(o[l])
        BY <3>1, <1>1
      <4>. QED
        BY <4>1 DEF Ahead
    <3>2. CASE i = k + 1
      BY <3>2
    <3>3. CASE i > k + 1
      <4>1. i - 1 \in k + 1 .. Len(o[l]) /\ i - 1 \in at + 1 .. Len(o[l]) /\ (i - 1) + 1 = i
        BY <3>3, <1>1, <1>3
      <4>2. o2[l][i] = o[l][i - 1]
        BY <4>1
      <4>. QED
        BY <4>1, <4>2 DEF Ahead
    <3>. QED
      BY <3>1, <3>2, <3>3, <1>1
  <2>2. Ahead(o, l, at) \subseteq Ahead(o2, l, at)
    <3>. SUFFICES ASSUME NEW i \in at + 1 .. Len(o[l])
                  PROVE  o[l][i].data \in Ahead(o2, l, at)
      BY DEF Ahead
    <3>1. CASE i <= k
      <4>1. i \in 1 .. k /\ i \in at + 1 .. Len(o2[l])
        BY <3>1, <1>1
      <4>. QED
        BY <4>1 DEF Ahead
    <3>2. CASE i > k
      <4>1. i \in k + 1 .. Len(o[l]) /\ i + 1 \in at + 1 .. Len(o2[l])
        BY <3>2, <1>1
      <4>2. o2[l][i + 1] = o[l][i]
        BY <4>1
      <4>3. PICK j \in at + 1 .. Len(o2[l]) : o2[l][j] = o[l][i]
        BY <4>1, <4>2
      <4>. QED
        BY <4>3 DEF Ahead
    <3>. QED
      BY <3>1, <3>2, <1>1
  <2>3. Stop(o2, l, at) = Stop(o, l, at)
    <3>1. CASE at = 0
      BY <3>1 DEF Stop
    <3>2. CASE at # 0
      <4>1. at \in 1 .. k /\ at \in 1 .. Len(o[l]) /\ at \in 1 .. Len(o2[l])
        BY <3>2, <1>1, <1>3
      <4>. QED
        BY <4>1 DEF Stop
    <3>. QED
      BY <3>1, <3>2
  <2>4. at \in 0 .. Len(o2[l])
    BY <1>1, <1>3
  <2>5. Passing(c, o2, at, pass, seen)
    BY <2>1, <2>2, <2>3, <2>4, <1>3 DEF Passing
  <2>. QED
    BY <2>5, <1>1
<1>4. CASE c.list = l /\ at > k
  <2>1. at \in k + 1 .. Len(o[l]) /\ at \in 1 .. Len(o[l]) /\ at + 1 \in 1 .. Len(o2[l])
        /\ at + 1 \in 0 .. Len(o2[l]) /\ at # 0
    BY <1>1, <1>4 DEF Passing
  <2>2. Stop(o2, l, at + 1) = Stop(o, l, at)
    BY <2>1 DEF Stop
  <2>3. Ahead(o2, l, at + 1) \subseteq Ahead(o, l, at)
    <3>. SUFFICES ASSUME NEW i \in (at + 1) + 1 .. Len(o2[l])
                  PROVE  o2[l][i].data \in Ahead(o, l, at)
      BY DEF Ahead
    <3>1. i - 1 \in k + 1 .. Len(o[l]) /\ i - 1 \in at + 1 .. Len(o[l]) /\ (i - 1) + 1 = i
      BY <1>1, <1>4
    <3>2. o2[l][i] = o[l][i - 1]
      BY <3>1
    <3>. QED
      BY <3>1, <3>2 DEF Ahead
  <2>4. Ahead(o, l, at) \subseteq Ahead(o2, l, at + 1)
    <3>. SUFFICES ASSUME NEW i \in at + 1 .. Len(o[l])
                  PROVE  o[l][i].data \in Ahead(o2, l, at + 1)
      BY DEF Ahead
    <3>1. i \in k + 1 .. Len(o[l]) /\ i + 1 \in (at + 1) + 1 .. Len(o2[l])
      BY <1>1, <1>4
    <3>2. PICK j \in (at + 1) + 1 .. Len(o2[l]) : o2[l][j] = o[l][i]
      BY <3>1
    <3>. QED
      BY <3>2 DEF Ahead
  <2>5. Passing(c, o2, at + 1, pass, seen)
    BY <2>1, <2>2, <2>3, <2>4, <1>4 DEF Passing
  <2>. QED
    BY <2>5, <1>1
<1>. QED
  BY <1>1, <1>2, <1>3, <1>4

(* Others erase an entry, not the one the cursor stands on.                *)
LEMMA PassErased ==
  ASSUME NEW r, NEW o, Ringed(r, o), NEW l \in LLists, NEW k \in 1 .. Len(o[l]),
         NEW r2, NEW o2, Shrunk(r, o, l, k, r2, o2),
         NEW c, NEW at, NEW pass, NEW seen, Passing(c, o, at, pass, seen),
         c.list = l => k # at
  PROVE  \E a \in Nat : Passing(c, o2, a, pass \ {o[l][k].data}, seen)
<1> DEFINE d == o[l][k].data
<1>0. /\ Len(o2[l]) = Len(o[l]) - 1
      /\ \A i \in 1 .. k - 1 : o2[l][i] = o[l][i]
      /\ \A i \in k .. Len(o[l]) - 1 : o2[l][i] = o[l][i + 1]
      /\ \A m \in LLists \ {l} : o2[m] = o[m]
  BY DEF Shrunk
<1>. USE <1>0
<1>1. c.list \in LLists /\ at \in Nat /\ Len(o[l]) \in Nat /\ k \in Nat \ {0}
  BY Circled DEF Passing
<1>2. CASE c.list # l
  <2>1. o2[c.list] = o[c.list]
    BY <1>1, <1>2
  <2>2. Passing(c, o2, at, pass \ {d}, seen)
    BY <2>1 DEF Passing, Ahead, Stop
  <2>. QED
    BY <2>2, <1>1
<1>3. CASE c.list = l /\ at < k
  <2>1. Ahead(o2, l, at) \subseteq Ahead(o, l, at)
    <3>. SUFFICES ASSUME NEW i \in at + 1 .. Len(o2[l])
                  PROVE  o2[l][i].data \in Ahead(o, l, at)
      BY DEF Ahead
    <3>1. CASE i < k
      <4>1. i \in 1 .. k - 1 /\ i \in at + 1 .. Len(o[l])
        BY <3>1, <1>1
      <4>. QED
        BY <4>1 DEF Ahead
    <3>2. CASE i >= k
      <4>1. i \in k .. Len(o[l]) - 1 /\ i + 1 \in at + 1 .. Len(o[l])
        BY <3>2, <1>1
      <4>2. PICK j \in at + 1 .. Len(o[l]) : o2[l][i] = o[l][j]
        BY <4>1
      <4>. QED
        BY <4>2 DEF Ahead
    <3>. QED
      BY <3>1, <3>2, <1>1
  <2>2. Ahead(o, l, at) \subseteq Ahead(o2, l, at) \cup {d}
    <3>. SUFFICES ASSUME NEW i \in at + 1 .. Len(o[l])
                  PROVE  o[l][i].data \in Ahead(o2, l, at) \cup {d}
      BY DEF Ahead
    <3>1. CASE i < k
      <4>1. i \in 1 .. k - 1 /\ i \in at + 1 .. Len(o2[l])
        BY <3>1, <1>1
      <4>. QED
        BY <4>1 DEF Ahead
    <3>2. CASE i = k
      BY <3>2
    <3>3. CASE i > k
      <4>1. i - 1 \in k .. Len(o[l]) - 1 /\ i - 1 \in at + 1 .. Len(o2[l]) /\ (i - 1) + 1 = i
        BY <3>3, <1>1, <1>3
      <4>2. PICK j \in at + 1 .. Len(o2[l]) : o2[l][j] = o[l][i]
        BY <4>1
      <4>. QED
        BY <4>2 DEF Ahead
    <3>. QED
      BY <3>1, <3>2, <3>3, <1>1
  <2>3. Stop(o2, l, at) = Stop(o, l, at)
    <3>1. CASE at = 0
      BY <3>1 DEF Stop
    <3>2. CASE at # 0
      <4>1. at \in 1 .. k - 1 /\ at \in 1 .. Len(o[l]) /\ at \in 1 .. Len(o2[l])
        BY <3>2, <1>1, <1>3
      <4>. QED
        BY <4>1 DEF Stop
    <3>. QED
      BY <3>1, <3>2
  <2>4. at \in 0 .. Len(o2[l])
    BY <1>1, <1>3
  <2>5. Passing(c, o2, at, pass \ {d}, seen)
    BY <2>1, <2>2, <2>3, <2>4, <1>3 DEF Passing
  <2>. QED
    BY <2>5, <1>1
<1>4. CASE c.list = l /\ at > k
  <2>1. at - 1 \in k .. Len(o[l]) - 1 /\ at \in 1 .. Len(o[l]) /\ at - 1 \in 1 .. Len(o2[l])
        /\ at - 1 \in 0 .. Len(o2[l]) /\ at # 0 /\ at - 1 # 0 /\ (at - 1) + 1 = at
        /\ at - 1 \in Nat
    BY <1>1, <1>4 DEF Passing
  <2>2. Stop(o2, l, at - 1) = Stop(o, l, at)
    BY <2>1 DEF Stop
  <2>3. Ahead(o2, l, at - 1) \subseteq Ahead(o, l, at)
    <3>. SUFFICES ASSUME NEW i \in (at - 1) + 1 .. Len(o2[l])
                  PROVE  o2[l][i].data \in Ahead(o, l, at)
      BY DEF Ahead
    <3>1. i \in k .. Len(o[l]) - 1 /\ i + 1 \in at + 1 .. Len(o[l])
      BY <2>1, <1>1, <1>4
    <3>2. PICK j \in at + 1 .. Len(o[l]) : o2[l][i] = o[l][j]
      BY <3>1
    <3>. QED
      BY <3>2 DEF Ahead
  <2>4. Ahead(o, l, at) \subseteq Ahead(o2, l, at - 1)
    <3>. SUFFICES ASSUME NEW i \in at + 1 .. Len(o[l])
                  PROVE  o[l][i].data \in Ahead(o2, l, at - 1)
      BY DEF Ahead
    <3>1. i - 1 \in k .. Len(o[l]) - 1 /\ i - 1 \in (at - 1) + 1 .. Len(o2[l]) /\ (i - 1) + 1 = i
      BY <2>1, <1>1, <1>4
    <3>2. PICK j \in (at - 1) + 1 .. Len(o2[l]) : o2[l][j] = o[l][i]
      BY <3>1
    <3>. QED
      BY <3>2 DEF Ahead
  <2>5. Passing(c, o2, at - 1, pass \ {d}, seen)
    BY <2>1, <2>2, <2>3, <2>4, <1>4 DEF Passing
  <2>. QED
    BY <2>5, <2>1
<1>5. c.list # l \/ (c.list = l /\ at < k) \/ (c.list = l /\ at > k)
  BY <1>1
<1>. QED
  BY <1>2, <1>3, <1>4, <1>5

(* The pass erases what it stands on and stands on the one before.         *)
LEMMA PassErases ==
  ASSUME NEW r, NEW o, Ringed(r, o), NEW l \in LLists, NEW k \in 1 .. Len(o[l]),
         NEW r2, NEW o2, Shrunk(r, o, l, k, r2, o2),
         NEW c, NEW pass, NEW seen, Passing(c, o, k, pass, seen), c.list = l,
         NEW c2, c2.list = l, c2.node = Stop(o, l, k - 1), c2.held = FALSE
  PROVE  Passing(c2, o2, k - 1, pass \ {o[l][k].data}, seen)
<1>0. /\ Len(o2[l]) = Len(o[l]) - 1
      /\ \A i \in 1 .. k - 1 : o2[l][i] = o[l][i]
      /\ \A i \in k .. Len(o[l]) - 1 : o2[l][i] = o[l][i + 1]
      /\ \A m \in LLists \ {l} : o2[m] = o[m]
  BY DEF Shrunk
<1>. USE <1>0
<1>1. Len(o[l]) \in Nat /\ k \in Nat \ {0}
  BY Circled
<1>2. Ahead(o2, l, k - 1) = Ahead(o, l, k)
  <2>1. ASSUME NEW i \in (k - 1) + 1 .. Len(o2[l]) PROVE o2[l][i].data \in Ahead(o, l, k)
    <3>1. i \in k .. Len(o[l]) - 1 /\ i + 1 \in k + 1 .. Len(o[l])
      BY <1>1
    <3>2. PICK j \in k + 1 .. Len(o[l]) : o2[l][i] = o[l][j]
      BY <3>1
    <3>. QED
      BY <3>2 DEF Ahead
  <2>2. ASSUME NEW i \in k + 1 .. Len(o[l]) PROVE o[l][i].data \in Ahead(o2, l, k - 1)
    <3>1. i - 1 \in k .. Len(o[l]) - 1 /\ i - 1 \in (k - 1) + 1 .. Len(o2[l]) /\ (i - 1) + 1 = i
      BY <1>1
    <3>2. PICK j \in (k - 1) + 1 .. Len(o2[l]) : o2[l][j] = o[l][i]
      BY <3>1
    <3>. QED
      BY <3>2 DEF Ahead
  <2>. QED
    BY <2>1, <2>2 DEF Ahead
<1>3. Stop(o2, l, k - 1) = Stop(o, l, k - 1)
  <2>1. CASE k = 1
    BY <2>1 DEF Stop
  <2>2. CASE k # 1
    <3>1. k - 1 \in 1 .. k - 1 /\ k - 1 \in 1 .. Len(o[l]) /\ k - 1 \in 1 .. Len(o2[l])
      BY <2>2, <1>1
    <3>. QED
      BY <3>1 DEF Stop
  <2>. QED
    BY <2>1, <2>2
<1>4. k - 1 \in 0 .. Len(o2[l])
  BY <1>1
<1>. QED
  BY <1>2, <1>3, <1>4 DEF Passing

-----------------------------------------------------------------------------
(* Every piece of data has a number of its own.                            *)
DataOnce(r, count) ==
  /\ \A n \in LNodes : r.next[n] # NoNode => r.data[n] \in 1 .. count
  /\ \A n, m \in LNodes :
       r.next[n] # NoNode /\ r.next[m] # NoNode /\ r.data[n] = r.data[m] => n = m

(* The loop of eclist_splice stands in its list, between two lists; nobody *)
(* runs a cursor meanwhile.                                                *)
SpliceStands ==
  ~Calm => /\ NoCursor
           /\ lsplice.list \in LLists /\ lsplice.dest \in LLists /\ lsplice.list # lsplice.dest
           /\ \E k \in 0 .. Len(lorder[lsplice.list]) : lsplice.node = Stop(lorder, lsplice.list, k)

CursorStands ==
  /\ NoCursor => lseen = <<>>
  /\ ~NoCursor => \E k \in Nat : Passing(lcursor, lorder, k, lpass, lseen)

ListIInv ==
  /\ DOMAIN lcursor = DOMAIN NoPass /\ DOMAIN lsplice = DOMAIN NoSplice
  /\ lcount \in Nat /\ lseen \in Seq(1 .. lcount) /\ IsInjective(lseen)
  /\ Ringed(lring, lorder) /\ DataOnce(lring, lcount)
  /\ SpliceStands /\ CursorStands

(* Place is the place.                                                     *)
LEMMA PlaceOf ==
  ASSUME Ringed(lring, lorder), NEW l \in LLists, NEW n \in Members(l) \cup {l}
  PROVE  \E k \in 0 .. Len(lorder[l]) :
           /\ n = Stop(lorder, l, k) /\ Place(l, n) = k
           /\ n \in Members(l) => k \in 1 .. Len(lorder[l]) /\ lorder[l][k].node = n
<1>1. /\ Len(lorder[l]) \in Nat /\ DOMAIN lorder[l] = 1 .. Len(lorder[l])
      /\ \A i \in 1 .. Len(lorder[l]) : lorder[l][i].node \in LNodes
  BY Circled DEF Entries
<1>2. l \notin LNodes
  BY ListConstants
<1>3. l \notin Members(l)
  BY <1>1, <1>2 DEF Members
<1>4. CASE n = l
  <2>1. 0 \in 0 .. Len(lorder[l]) /\ n = Stop(lorder, l, 0) /\ Place(l, n) = 0
    BY <1>1, <1>4 DEF Stop, Place
  <2>. QED
    BY <2>1, <1>3, <1>4
<1>5. CASE n # l
  <2>1. PICK k \in 1 .. Len(lorder[l]) : lorder[l][k].node = n
    BY <1>1, <1>5 DEF Members
  <2>2. \A i \in 1 .. Len(lorder[l]) : lorder[l][i].node = n => i = k
    BY <2>1 DEF Ringed, Apart
  <2>3. Place(l, n) = k
    BY <2>1, <2>2, <1>1, <1>5 DEF Place
  <2>4. k \in 0 .. Len(lorder[l]) /\ n = Stop(lorder, l, k)
    BY <2>1, <1>1 DEF Stop
  <2>. QED
    BY <2>1, <2>3, <2>4
<1>. QED
  BY <1>4, <1>5

(* A set of naturals that is not empty has a smallest element.             *)
LEMMA SmallestNode ==
  ASSUME NEW S \in SUBSET Nat, S # {}
  PROVE  \E x \in S : \A y \in S : x <= y
<1> DEFINE R == OpToRel(<, Nat)
<1>1. IsWellFoundedOn(R, Nat)
  BY NatLessThanWellFounded, Zenon
<1>2. PICK x \in S : \A y \in S : ~(<<y, x>> \in R)
  <2> HIDE DEF R
  <2> QED
    BY <1>1, WFMin
<1>3. ASSUME NEW y \in S, y < x PROVE FALSE
  BY <1>2, <1>3 DEF OpToRel
<1>4. ASSUME NEW y \in S PROVE x <= y
  <2>1. x \in Nat /\ y \in Nat
    OBVIOUS
  <2>2. ~(y < x)
    BY <1>3
  <2>. QED
    BY <2>1, <2>2
<1>. QED
  BY <1>4

(* The allocator gives a node that is in no list.                          *)
LEMMA FreshIsFree ==
  ASSUME FreeNodes # {}
  PROVE  FreshNode \in LNodes /\ lring.next[FreshNode] = NoNode
<1>1. FreeNodes \in SUBSET Nat /\ FreeNodes \subseteq LNodes
  BY ListConstants DEF FreeNodes
<1>2. \E n \in FreeNodes : \A m \in FreeNodes : n <= m
  BY <1>1, SmallestNode
<1>3. FreshNode \in FreeNodes
  BY <1>2 DEF FreshNode
<1>. QED
  BY <1>3 DEF FreeNodes

-----------------------------------------------------------------------------
(* eclist_insert: an entry with data of its own, behind any other.         *)
LEMMA ListInsertStep ==
  ASSUME ListIInv, NEW l \in LLists, NEW at, ListInsert(l, at)
  PROVE  ListIInv'
<1>1. PICK k \in 0 .. Len(lorder[l]) : at = Stop(lorder, l, k) /\ Place(l, at) = k
  BY PlaceOf DEF ListIInv, ListInsert
<1>2. PICK n \in LNodes : n = FreshNode /\ lring.next[n] = NoNode
  BY FreshIsFree DEF ListInsert
<1>3. PICK d \in Nat : d = lcount + 1 /\ lcount \in Nat
  BY DEF ListIInv
<1>4. /\ lcount' = d
      /\ lring' = InsertBehind(lring, Stop(lorder, l, k), n, d)
      /\ lorder' = [lorder EXCEPT ![l] = InsertAt(@, k + 1, Entry(n, d))]
      /\ UNCHANGED <<lcursor, lsplice, lpass, lseen>> /\ Calm
  BY <1>1, <1>2, <1>3 DEF ListInsert
<1>5. Ringed(lring, lorder)
  BY DEF ListIInv
<1>6. Grown(lring, lorder, l, k, Entry(n, d), lring', lorder')
  BY <1>2, <1>4, <1>5, InsertKeeps
<1>7. DataOnce(lring', d)
  <2>1. lring.data \in [RingNodes -> Nat] /\ LNodes \subseteq RingNodes
    BY <1>5 DEF Ringed, Rings, RingNodes
  <2>2. DataOnce(lring, lcount)
    BY DEF ListIInv
  <2>3. /\ lring'.data = [lring.data EXCEPT ![n] = d]
        /\ \A m \in LNodes : lring'.next[m] # NoNode <=> (m = n \/ lring.next[m] # NoNode)
    BY <1>6 DEF Grown, Entry
  <2>4. lring'.data[n] = d /\ \A m \in LNodes : m # n => lring'.data[m] = lring.data[m]
    BY <2>1, <2>3
  <2>. QED
    BY <2>2, <2>3, <2>4, <1>3 DEF DataOnce
<1>8. lseen \in Seq(1 .. lcount) /\ lseen' \in Seq(1 .. d) /\ d \notin ToSet(lseen)
  <2>1. lseen \in Seq(1 .. lcount)
    BY DEF ListIInv
  <2>2. \A i \in DOMAIN lseen : lseen[i] \in 1 .. lcount
    BY <2>1, Elements
  <2>3. d \notin ToSet(lseen)
    BY <2>2, <1>3 DEF ToSet
  <2>4. 1 .. lcount \subseteq 1 .. d
    BY <1>3
  <2>. QED
    BY <2>1, <2>3, <2>4, <1>4, SeqMonotonic
<1>9. CursorStands'
  <2>1. CASE NoCursor
    BY <2>1, <1>4 DEF ListIInv, CursorStands, NoCursor
  <2>2. CASE ~NoCursor
    <3>1. PICK a \in Nat : Passing(lcursor, lorder, a, lpass, lseen)
      BY <2>2 DEF ListIInv, CursorStands
    <3>2. Entry(n, d).data = d
      BY DEF Entry
    <3>3. \E b \in Nat : Passing(lcursor, lorder', b, lpass, lseen)
      BY <3>1, <3>2, <1>5, <1>6, <1>8, PassInserted
    <3>. QED
      BY <3>3, <2>2, <1>4 DEF CursorStands, NoCursor
  <2>. QED
    BY <2>1, <2>2
<1>10. Ringed(lring', lorder')
  BY <1>6 DEF Grown
<1>. QED
  BY <1>3, <1>4, <1>7, <1>8, <1>9, <1>10 DEF ListIInv, SpliceStands, Calm, NoCursor

(* eclist_erase: the place of a cursor elsewhere moves up with the rest.   *)
LEMMA ListEraseStep ==
  ASSUME ListIInv, NEW l \in LLists, NEW n, ListErase(l, n)
  PROVE  ListIInv'
<1>1. Ringed(lring, lorder)
  BY DEF ListIInv
<1>2. PICK k \in 1 .. Len(lorder[l]) :
        n = Stop(lorder, l, k) /\ Place(l, n) = k /\ lorder[l][k].node = n
  BY <1>1, PlaceOf DEF ListErase
<1>3. PICK d : d = lring.data[n] /\ lorder[l][k].data = d
  BY <1>1, <1>2 DEF Ringed, Carried
<1>4. /\ lring' = Unlink(lring, n)
      /\ lorder' = [lorder EXCEPT ![l] = RemoveAt(@, k)]
      /\ lpass' = lpass \ {d}
      /\ UNCHANGED <<lcursor, lsplice, lcount, lseen>> /\ Calm /\ n # lcursor.node
  BY <1>2, <1>3 DEF ListErase
<1>5. Shrunk(lring, lorder, l, k, lring', lorder')
  BY <1>1, <1>2, <1>4, EraseKeeps
<1>6. DataOnce(lring', lcount)
  <2>1. lring.data \in [RingNodes -> Nat] /\ LNodes \subseteq RingNodes
    BY <1>1 DEF Ringed, Rings, RingNodes
  <2>2. DataOnce(lring, lcount)
    BY DEF ListIInv
  <2>3. /\ lring'.data = [lring.data EXCEPT ![n] = NoData]
        /\ \A m \in LNodes : lring'.next[m] # NoNode <=> (m # n /\ lring.next[m] # NoNode)
    BY <1>2, <1>5 DEF Shrunk
  <2>4. \A m \in LNodes : m # n => lring'.data[m] = lring.data[m]
    BY <2>1, <2>3
  <2>. QED
    BY <2>2, <2>3, <2>4 DEF DataOnce
<1>7. CursorStands'
  <2>1. CASE NoCursor
    BY <2>1, <1>4 DEF ListIInv, CursorStands, NoCursor
  <2>2. CASE ~NoCursor
    <3>1. PICK a \in Nat : Passing(lcursor, lorder, a, lpass, lseen)
      BY <2>2 DEF ListIInv, CursorStands
    <3>2. lcursor.list = l => k # a
      <4>1. CASE lcursor.node = NoNode /\ a = 0
        BY <4>1
      <4>2. CASE lcursor.node = Stop(lorder, lcursor.list, a)
        BY <4>2, <1>2, <1>4
      <4>. QED
        BY <3>1, <4>1, <4>2 DEF Passing
    <3>3. \E b \in Nat : Passing(lcursor, lorder', b, lpass \ {d}, lseen)
      BY <3>1, <3>2, <1>1, <1>3, <1>5, PassErased
    <3>. QED
      BY <3>3, <2>2, <1>4 DEF CursorStands, NoCursor
  <2>. QED
    BY <2>1, <2>2
<1>8. Ringed(lring', lorder')
  BY <1>5 DEF Shrunk
<1>. QED
  BY <1>4, <1>6, <1>7, <1>8 DEF ListIInv, SpliceStands, Calm, NoCursor

(* eclist_set: the new data is nobody else's.                              *)
LEMMA ListSetStep ==
  ASSUME ListIInv, NEW l \in LLists, NEW n, ListSet(l, n)
  PROVE  ListIInv'
<1>1. Ringed(lring, lorder) /\ lcount \in Nat /\ DataOnce(lring, lcount)
  BY DEF ListIInv
<1>2. PICK k \in 1 .. Len(lorder[l]) : Place(l, n) = k /\ lorder[l][k].node = n
  BY <1>1, PlaceOf DEF ListSet
<1>3. PICK d \in Nat : d = lcount + 1
  BY <1>1
<1>4. /\ lring' = [lring EXCEPT !.data[n] = d]
      /\ lorder' = [lorder EXCEPT ![l][k].data = d]
      /\ lcount' = d /\ Calm /\ NoCursor /\ UNCHANGED <<lcursor, lsplice, lpass, lseen>>
  BY <1>2, <1>3 DEF ListSet
<1>5. Ringed(lring', lorder') /\ lring'.next = lring.next /\ lring'.data = [lring.data EXCEPT ![n] = d]
  <2>1. Changed(lring, lorder, n, d, lring', lorder')
    BY <1>1, <1>2, <1>4, SetKeeps
  <2>. QED
    BY <2>1 DEF Changed
<1>6. DataOnce(lring', d)
  <2>1. lring.data \in [RingNodes -> Nat] /\ LNodes \subseteq RingNodes
    BY <1>1 DEF Ringed, Rings, RingNodes
  <2>2. n \in LNodes
    BY <1>1, <1>2, Circled DEF Entries
  <2>3. lring'.data[n] = d /\ \A m \in LNodes : m # n => lring'.data[m] = lring.data[m]
    BY <2>1, <2>2, <1>5
  <2>. QED
    BY <2>3, <1>1, <1>3, <1>5 DEF DataOnce
<1>7. CursorStands' /\ SpliceStands'
  BY <1>4 DEF ListIInv, CursorStands, SpliceStands, NoCursor, Calm
<1>8. lseen' \in Seq(1 .. d)
  <2>1. 1 .. lcount \subseteq 1 .. d
    BY <1>1, <1>3
  <2>. QED
    BY <2>1, <1>4, SeqMonotonic DEF ListIInv
<1>. QED
  BY <1>3, <1>4, <1>5, <1>6, <1>7, <1>8 DEF ListIInv

(* eclist_swap, of one node with itself too.                               *)
LEMMA ListSwapStep ==
  ASSUME ListIInv, NEW l \in LLists, NEW n, NEW m, ListSwap(l, n, m)
  PROVE  ListIInv'
<1>1. Ringed(lring, lorder) /\ lcount \in Nat /\ DataOnce(lring, lcount)
  BY DEF ListIInv
<1>2. PICK k \in 1 .. Len(lorder[l]) : Place(l, n) = k /\ lorder[l][k].node = n
  BY <1>1, PlaceOf DEF ListSwap
<1>3. PICK h \in 1 .. Len(lorder[l]) : Place(l, m) = h /\ lorder[l][h].node = m
  BY <1>1, PlaceOf DEF ListSwap
<1>4. n \in LNodes /\ m \in LNodes
  BY <1>1, <1>2, <1>3, Circled DEF Entries
<1>5. lring.data \in [RingNodes -> Nat] /\ LNodes \subseteq RingNodes
  BY <1>1 DEF Ringed, Rings, RingNodes
<1>6. PICK d \in Nat, e \in Nat : d = lring.data[m] /\ e = lring.data[n]
  BY <1>4, <1>5
<1>7. PICK r1, o1 : /\ r1 = [lring EXCEPT !.data[n] = d]
                    /\ o1 = [lorder EXCEPT ![l][k].data = d]
  OBVIOUS
<1>8. /\ lring' = [r1 EXCEPT !.data[m] = e]
      /\ lorder' = [o1 EXCEPT ![l][h].data = e]
      /\ Calm /\ NoCursor /\ UNCHANGED <<lcursor, lsplice, lcount, lpass, lseen>>
  BY <1>2, <1>3, <1>6, <1>7 DEF ListSwap
<1>9. /\ Ringed(r1, o1) /\ r1.next = lring.next /\ r1.data = [lring.data EXCEPT ![n] = d]
      /\ Len(o1[l]) = Len(lorder[l]) /\ o1[l][h].node = m
  <2>1. PICK r, o : r = lring /\ o = lorder
    OBVIOUS
  <2>2. Changed(r, o, n, d, r1, o1)
    BY <2>1, <1>1, <1>2, <1>7, SetKeeps
  <2>. QED
    BY <2>1, <2>2, <1>3 DEF Changed
<1>10. Ringed(lring', lorder') /\ lring'.next = r1.next /\ lring'.data = [r1.data EXCEPT ![m] = e]
  <2>1. PICK r2, o2 : r2 = lring' /\ o2 = lorder'
    OBVIOUS
  <2>2. h \in 1 .. Len(o1[l]) /\ m = o1[l][h].node
    BY <1>3, <1>9
  <2>3. Changed(r1, o1, m, e, r2, o2)
    BY <2>1, <2>2, <1>8, <1>9, SetKeeps
  <2>. QED
    BY <2>1, <2>3 DEF Changed
<1>11. /\ lring'.data[m] = e /\ lring'.data[n] = d
       /\ \A x \in LNodes : x # m /\ x # n => lring'.data[x] = lring.data[x]
  <2>1. r1.data \in [RingNodes -> Nat]
    BY <1>4, <1>5, <1>9
  <2>2. r1.data[n] = d /\ \A x \in LNodes : x # n => r1.data[x] = lring.data[x]
    BY <1>4, <1>5, <1>9
  <2>3. lring'.data[m] = e /\ \A x \in LNodes : x # m => lring'.data[x] = r1.data[x]
    BY <2>1, <1>4, <1>5, <1>10
  <2>. QED
    BY <2>2, <2>3, <1>4, <1>6
<1>12. DataOnce(lring', lcount)
  <2>1. lring.next[n] # NoNode /\ lring.next[m] # NoNode
    <3>1. /\ k \in 0 .. Len(lorder[l]) + 1 /\ n = Stop(lorder, l, k)
          /\ h \in 0 .. Len(lorder[l]) + 1 /\ m = Stop(lorder, l, h)
      BY <1>2, <1>3 DEF Stop
    <3>. QED
      BY <3>1, <1>1, Taken
  <2>2. /\ \A x \in LNodes : lring'.next[x] = lring.next[x]
        /\ d = lring.data[m] /\ e = lring.data[n]
    BY <1>6, <1>9, <1>10
  <2>3. \A x \in LNodes : lring.next[x] # NoNode => lring.data[x] \in 1 .. lcount
    BY <1>1 DEF DataOnce
  <2>4. \A x, y \in LNodes :
          lring.next[x] # NoNode /\ lring.next[y] # NoNode /\ lring.data[x] = lring.data[y] => x = y
    BY <1>1 DEF DataOnce
  <2>5. ASSUME NEW x \in LNodes, lring'.next[x] # NoNode PROVE lring'.data[x] \in 1 .. lcount
    BY <2>1, <2>2, <2>3, <2>5, <1>4, <1>11
  <2>6. ASSUME NEW x \in LNodes, NEW y \in LNodes, lring'.next[x] # NoNode, lring'.next[y] # NoNode,
               lring'.data[x] = lring'.data[y]
        PROVE  x = y
    BY <2>1, <2>2, <2>4, <2>6, <1>4, <1>11
  <2>. QED
    BY <2>5, <2>6 DEF DataOnce
<1>13. CursorStands' /\ SpliceStands'
  BY <1>8 DEF ListIInv, CursorStands, SpliceStands, NoCursor, Calm
<1>. QED
  BY <1>8, <1>10, <1>12, <1>13 DEF ListIInv

(* eclist_clear leaves the end node and the other lists.                   *)
LEMMA ListClearStep ==
  ASSUME ListIInv, NEW l \in LLists, ListClear(l)
  PROVE  ListIInv'
<1>1. Ringed(lring, lorder) /\ lcount \in Nat /\ DataOnce(lring, lcount)
  BY DEF ListIInv
<1>2. PICK gone : gone = {lorder[l][i].node : i \in DOMAIN lorder[l]} /\ gone = Members(l)
  BY DEF Members
<1>3. /\ lring' = [next |-> [n \in RingNodes |-> IF n \in gone THEN NoNode
                                                ELSE IF n = l THEN l ELSE lring.next[n]],
                   forw |-> [n \in RingNodes |-> IF n \in gone THEN NoNode
                                                ELSE IF n = l THEN l ELSE lring.forw[n]],
                   data |-> [n \in RingNodes |-> IF n \in gone THEN NoData ELSE lring.data[n]]]
      /\ lorder' = [lorder EXCEPT ![l] = <<>>]
  BY <1>2 DEF ListClear
<1>7. Calm /\ NoCursor /\ UNCHANGED <<lcursor, lsplice, lcount, lpass, lseen>>
  BY DEF ListClear
<1>4. /\ Ringed(lring', lorder')
      /\ \A m \in LNodes : lring'.next[m] # NoNode =>
           lring.next[m] # NoNode /\ lring'.data[m] = lring.data[m]
  <2>1. Emptied(lring, lorder, lring', lorder')
    BY <1>1, <1>2, <1>3, ClearKeeps
  <2>. QED
    BY <2>1 DEF Emptied
<1>5. DataOnce(lring', lcount)
  BY <1>1, <1>4 DEF DataOnce
<1>6. CursorStands' /\ SpliceStands'
  BY <1>7 DEF ListIInv, CursorStands, SpliceStands, NoCursor, Calm
<1>8. /\ DOMAIN lcursor' = DOMAIN NoPass /\ DOMAIN lsplice' = DOMAIN NoSplice
      /\ lseen' \in Seq(1 .. lcount) /\ IsInjective(lseen') /\ lcount' = lcount
  BY <1>7 DEF ListIInv
<1>. QED
  BY <1>1, <1>4, <1>5, <1>6, <1>8 DEF ListIInv

(* eclist_splice begins on a node of its list,                             *)
LEMMA SpliceStartStep ==
  ASSUME ListIInv, NEW l \in LLists, NEW from, NEW to, NEW dest \in LLists,
         SpliceStart(l, from, to, dest)
  PROVE  ListIInv'
<1>1. Ringed(lring, lorder)
  BY DEF ListIInv
<1>2. PICK k \in 0 .. Len(lorder[l]) : from = Stop(lorder, l, k)
  BY <1>1, PlaceOf DEF SpliceStart
<1>3. SpliceStands'
  BY <1>2 DEF SpliceStart, SpliceStands, NoCursor
<1>4. DOMAIN lsplice' = DOMAIN NoSplice
  BY DEF SpliceStart, NoSplice
<1>. QED
  BY <1>3, <1>4 DEF SpliceStart, ListIInv, CursorStands, NoCursor

(* and ends with the ring as the last round left it.                       *)
LEMMA SpliceEndStep ==
  ASSUME ListIInv, SpliceEnd
  PROVE  ListIInv'
BY DEF SpliceEnd, ListIInv, CursorStands, SpliceStands, NoCursor, Calm

(* eclist_cursor: everything lies ahead.                                   *)
LEMMA CursorStartStep ==
  ASSUME ListIInv, NEW l \in LLists, CursorStart(l)
  PROVE  ListIInv'
<1>1. Ringed(lring, lorder)
  BY DEF ListIInv
<1>2. Len(lorder[l]) \in Nat /\ DOMAIN lorder[l] = 1 .. Len(lorder[l])
  BY <1>1, Circled
<1>3. /\ lcursor'.list = l /\ lcursor'.node = NoNode /\ lcursor'.held = FALSE
      /\ lpass' = Values(l) /\ lseen' = <<>> /\ lorder' = lorder
  BY DEF CursorStart, NoPass
<1>4. ToSet(lseen') = {}
  BY <1>3 DEF ToSet
<1>5. Ahead(lorder, l, 0) = Values(l)
  BY <1>2 DEF Ahead, Values
<1>6. Passing(lcursor', lorder', 0, lpass', lseen')
  BY <1>2, <1>3, <1>4, <1>5 DEF Passing
<1>7. CursorStands'
  BY <1>3, <1>6 DEF CursorStands
<1>8. lseen' \in Seq(1 .. lcount) /\ IsInjective(lseen')
  BY <1>3 DEF IsInjective
<1>. QED
  BY <1>7, <1>8 DEF CursorStart, ListIInv, SpliceStands, Calm

(* eclist_cerase: the cursor steps back, and what lies ahead stays ahead.  *)
LEMMA CursorEraseStep ==
  ASSUME ListIInv, CursorErase
  PROVE  ListIInv'
<1>1. Ringed(lring, lorder) /\ lcount \in Nat /\ DataOnce(lring, lcount)
  BY DEF ListIInv
<1>2. ~NoCursor
  BY DEF CursorErase, NoCursor, NoPass
<1>3. PICK k \in Nat : Passing(lcursor, lorder, k, lpass, lseen)
  BY <1>2 DEF ListIInv, CursorStands
<1>4. PICK l \in LLists : l = lcursor.list
  BY <1>3 DEF Passing
<1>5. PICK n : /\ n = lcursor.node /\ k \in 1 .. Len(lorder[l])
               /\ lorder[l][k].node = n /\ n = Stop(lorder, l, k)
  <2>1. k # 0 /\ k \in 0 .. Len(lorder[l]) /\ lcursor.node = Stop(lorder, l, k)
    BY <1>3, <1>4 DEF Passing, CursorErase
  <2>2. Len(lorder[l]) \in Nat
    BY <1>1, Circled
  <2>. QED
    BY <2>1, <2>2 DEF Stop
<1>6. n \in Members(l) /\ Place(l, n) = k
  <2>1. DOMAIN lorder[l] = 1 .. Len(lorder[l])
    BY <1>1, Circled
  <2>2. n \in Members(l)
    BY <2>1, <1>5 DEF Members
  <2>3. PICK h \in 1 .. Len(lorder[l]) : Place(l, n) = h /\ lorder[l][h].node = n
    BY <2>2, <1>1, PlaceOf
  <2>. QED
    BY <2>2, <2>3, <1>1, <1>5 DEF Ringed, Apart
<1>7. PICK d : d = lring.data[n] /\ lorder[l][k].data = d
  BY <1>1, <1>5 DEF Ringed, Carried
<1>8. /\ lring' = Unlink(lring, n)
      /\ lorder' = [lorder EXCEPT ![l] = RemoveAt(@, k)]
      /\ lpass' = lpass \ {d}
      /\ lcursor' = [lcursor EXCEPT !.node = EraseAnswer(lring, n), !.held = FALSE]
      /\ UNCHANGED <<lsplice, lcount, lseen>>
  BY <1>4, <1>5, <1>6, <1>7 DEF CursorErase
<1>9. Shrunk(lring, lorder, l, k, lring', lorder')
  BY <1>1, <1>5, <1>8, EraseKeeps
<1>10. DataOnce(lring', lcount)
  <2>1. lring.data \in [RingNodes -> Nat] /\ LNodes \subseteq RingNodes
    BY <1>1 DEF Ringed, Rings, RingNodes
  <2>2. /\ lring'.data = [lring.data EXCEPT ![n] = NoData]
        /\ \A m \in LNodes : lring'.next[m] # NoNode <=> (m # n /\ lring.next[m] # NoNode)
    BY <1>5, <1>9 DEF Shrunk
  <2>3. \A m \in LNodes : m # n => lring'.data[m] = lring.data[m]
    BY <2>1, <2>2
  <2>. QED
    BY <2>2, <2>3, <1>1 DEF DataOnce
<1>11. /\ DOMAIN lcursor' = DOMAIN NoPass
       /\ lcursor'.list = l /\ lcursor'.node = EraseAnswer(lring, n) /\ lcursor'.held = FALSE
  <2>1. DOMAIN lcursor = DOMAIN NoPass
    BY DEF ListIInv
  <2>2. "list" \in DOMAIN NoPass /\ "node" \in DOMAIN NoPass /\ "held" \in DOMAIN NoPass
    BY DEF NoPass
  <2>. QED
    BY <2>1, <2>2, <1>4, <1>8
<1>12. EraseAnswer(lring, n) = Stop(lorder, l, k - 1)
  BY <1>5, <1>9 DEF Shrunk
<1>13. Passing(lcursor', lorder', k - 1, lpass', lseen')
  <2>1. PICK r, o, r2, o2, c, c2, pass, seen :
          /\ r = lring /\ o = lorder /\ r2 = lring' /\ o2 = lorder'
          /\ c = lcursor /\ c2 = lcursor' /\ pass = lpass /\ seen = lseen
    OBVIOUS
  <2>2. /\ Ringed(r, o) /\ k \in 1 .. Len(o[l]) /\ Shrunk(r, o, l, k, r2, o2)
        /\ Passing(c, o, k, pass, seen) /\ c.list = l
        /\ c2.list = l /\ c2.node = Stop(o, l, k - 1) /\ c2.held = FALSE
    BY <2>1, <1>1, <1>3, <1>4, <1>5, <1>9, <1>11, <1>12
  <2>3. Passing(c2, o2, k - 1, pass \ {o[l][k].data}, seen)
    BY <2>2, PassErases
  <2>. QED
    BY <2>1, <2>3, <1>7, <1>8
<1>14. CursorStands'
  <2>1. lcursor'.list # NoNode
    BY <1>11, ListConstants DEF NoNode
  <2>2. ~NoCursor'
    BY <2>1 DEF NoCursor, NoPass
  <2>3. k - 1 \in Nat
    BY <1>5
  <2>. QED
    BY <2>2, <2>3, <1>13 DEF CursorStands
<1>15. SpliceStands'
  BY <1>2, <1>8 DEF ListIInv, SpliceStands, Calm, NoCursor
<1>16. Ringed(lring', lorder')
  BY <1>9 DEF Shrunk
<1>. QED
  BY <1>8, <1>10, <1>11, <1>14, <1>15, <1>16 DEF ListIInv

(* eclist_cnext: the next entry goes from what lies ahead to what was seen.*)
LEMMA CursorNextStep ==
  ASSUME ListIInv, CursorNext
  PROVE  ListIInv'
<1>1. Ringed(lring, lorder) /\ lcount \in Nat /\ DataOnce(lring, lcount)
  BY DEF ListIInv
<1>2. Calm /\ ~NoCursor /\ UNCHANGED <<lring, lsplice, lcount, lorder>>
  BY DEF CursorNext
<1>3. PICK k \in Nat : Passing(lcursor, lorder, k, lpass, lseen)
  BY <1>2 DEF ListIInv, CursorStands
<1>4. PICK l \in LLists : l = lcursor.list
  BY <1>3 DEF Passing
<1>5. PICK len \in Nat :
        /\ len = Len(lorder[l]) /\ k \in 0 .. len
        /\ Around(lring.next, lring.forw, Stops(lorder, l), len)
        /\ \A i \in 0 .. len + 1 : Stops(lorder, l)[i] = Stop(lorder, l, i)
        /\ \A i \in 1 .. len : lorder[l][i] \in Entries
  BY <1>1, <1>3, <1>4, Circled DEF Passing
<1>6. (IF lcursor.node = NoNode THEN l ELSE lcursor.node) = Stop(lorder, l, k)
  <2>1. CASE lcursor.node = NoNode /\ k = 0
    BY <2>1 DEF Stop
  <2>2. CASE lcursor.node = Stop(lorder, l, k)
    <3>1. k \in 0 .. Len(lorder[l]) + 1
      BY <1>5
    <3>2. Stop(lorder, l, k) \in RingNodes /\ NoNode \notin RingNodes
      BY <3>1, <1>1, Taken, ListConstants DEF RingNodes, NoNode
    <3>. QED
      BY <2>2, <3>2
  <2>. QED
    BY <2>1, <2>2, <1>3, <1>4 DEF Passing
<1>7. PICK n : n = Stop(lorder, l, k + 1)
               /\ n = lring.next[IF lcursor.node = NoNode THEN l ELSE lcursor.node]
  BY <1>5, <1>6 DEF Around
<1>8. SpliceStands'
  BY <1>2 DEF SpliceStands, Calm
<1>9. CASE n = l
  <2>1. lcursor' = NoPass /\ lseen' = <<>>
    BY <1>4, <1>7, <1>9 DEF CursorNext
  <2>2. CursorStands' /\ lseen' \in Seq(1 .. lcount) /\ IsInjective(lseen')
    BY <2>1 DEF CursorStands, NoCursor, IsInjective
  <2>. QED
    BY <2>1, <2>2, <1>1, <1>2, <1>8 DEF ListIInv
<1>10. CASE n # l
  <2>1. /\ lcursor' = [list |-> l, node |-> n, held |-> TRUE]
        /\ lseen' = Append(lseen, lring.data[n]) /\ lpass' = lpass
    BY <1>4, <1>7, <1>10 DEF CursorNext
  <2>2. k + 1 \in 1 .. len /\ n = lorder[l][k + 1].node /\ n \in LNodes
    <3>1. k + 1 \in 1 .. len /\ n = lorder[l][k + 1].node
      BY <1>5, <1>7, <1>10 DEF Stop
    <3>. QED
      BY <3>1, <1>5 DEF Entries
  <2>3. PICK d : d = lring.data[n] /\ d = lorder[l][k + 1].data
    BY <2>2, <1>1, <1>5 DEF Ringed, Carried
  <2>4. d \in 1 .. lcount
    <3>1. lring.next[n] # NoNode
      <4>1. k + 1 \in 0 .. Len(lorder[l]) + 1
        BY <1>5, <2>2
      <4>. QED
        BY <4>1, <1>1, <1>7, Taken
    <3>. QED
      BY <3>1, <2>2, <2>3, <1>1 DEF DataOnce
  <2>5. d \in Ahead(lorder, l, k)
    <3>1. k + 1 \in k + 1 .. Len(lorder[l])
      BY <1>5, <2>2
    <3>. QED
      BY <3>1, <2>3 DEF Ahead
  <2>6. d \notin ToSet(lseen)
    BY <2>5, <1>3, <1>4 DEF Passing
  <2>7. PICK S, s : S = 1 .. lcount /\ s = lseen /\ s \in Seq(S) /\ IsInjective(s) /\ d \in S
    BY <2>4 DEF ListIInv
  <2>8. lseen' \in Seq(1 .. lcount) /\ IsInjective(lseen') /\ ToSet(lseen') = ToSet(lseen) \cup {d}
    <3>1. s \in Seq(S) /\ IsInjective(s) /\ d \in S /\ d \notin ToSet(s)
      BY <2>6, <2>7
    <3>2. PICK t : t = lseen' /\ t = Append(s, d)
      BY <2>1, <2>3, <2>7
    <3>3. t \in Seq(S) /\ IsInjective(t) /\ ToSet(t) = ToSet(s) \cup {d}
      <4>1. t = Append(s, d)
        BY <3>2
      <4>2. t \in Seq(S)
        BY <3>1, <4>1, AppendProperties
      <4>3. IsInjective(t)
        BY <3>1, <4>1, Appended
      <4>4. \A x : x \in ToSet(t) <=> x \in ToSet(s) \/ x = d
        BY <3>1, <4>1, Appended
      <4>. QED
        BY <4>2, <4>3, <4>4
    <3>. QED
      BY <3>2, <3>3, <2>7
  <2>9. Ahead(lorder, l, k + 1) \subseteq Ahead(lorder, l, k)
    <3>1. (k + 1) + 1 .. Len(lorder[l]) \subseteq k + 1 .. Len(lorder[l])
      BY <1>5
    <3>. QED
      BY <3>1 DEF Ahead
  <2>10. Ahead(lorder, l, k) \subseteq Ahead(lorder, l, k + 1) \cup {d}
    <3>. SUFFICES ASSUME NEW i \in k + 1 .. Len(lorder[l])
                  PROVE  lorder[l][i].data \in Ahead(lorder, l, k + 1) \cup {d}
      BY DEF Ahead
    <3>1. i = k + 1 \/ i \in (k + 1) + 1 .. Len(lorder[l])
      BY <1>5
    <3>. QED
      BY <3>1, <2>3 DEF Ahead
  <2>11. d \notin Ahead(lorder, l, k + 1)
    <3>. SUFFICES ASSUME NEW i \in (k + 1) + 1 .. Len(lorder[l]), lorder[l][i].data = d
                  PROVE  FALSE
      BY DEF Ahead
    <3>1. i \in 1 .. Len(lorder[l]) /\ i # k + 1 /\ k + 1 \in 1 .. Len(lorder[l])
      BY <1>5, <2>2
    <3>2. PICK m : m = lorder[l][i].node /\ m \in LNodes /\ lring.data[m] = d /\ m # n
      BY <3>1, <2>2, <1>1, <1>5 DEF Ringed, Carried, Apart, Entries
    <3>3. lring.next[m] # NoNode /\ lring.next[n] # NoNode
      <4>1. /\ i \in 0 .. Len(lorder[l]) + 1 /\ m = Stop(lorder, l, i)
            /\ k + 1 \in 0 .. Len(lorder[l]) + 1 /\ n = Stop(lorder, l, k + 1)
        BY <3>1, <3>2, <1>5, <1>7 DEF Stop
      <4>. QED
        BY <4>1, <1>1, Taken
    <3>. QED
      BY <3>2, <3>3, <2>2, <2>3, <1>1 DEF DataOnce
  <2>12. Passing(lcursor', lorder', k + 1, lpass', lseen')
    <3>1. lcursor'.list = l /\ lcursor'.node = n /\ lcursor'.held = TRUE /\ n # NoNode
      BY <2>1, <2>2, ListConstants DEF NoNode
    <3>2. k + 1 \in 0 .. Len(lorder[l]) /\ k + 1 # 0
      BY <1>5, <2>2
    <3>3. lpass \subseteq ToSet(lseen) \cup Ahead(lorder, l, k)
          /\ ToSet(lseen) \cap Ahead(lorder, l, k) = {}
      BY <1>3, <1>4 DEF Passing
    <3>. QED
      BY <3>1, <3>2, <3>3, <2>1, <2>8, <2>9, <2>10, <2>11, <1>2, <1>7 DEF Passing
  <2>13. CursorStands'
    <3>1. lcursor'.list # NoNode
      BY <2>1, ListConstants DEF NoNode
    <3>2. ~NoCursor'
      BY <3>1 DEF NoCursor, NoPass
    <3>. QED
      BY <3>2, <2>12 DEF CursorStands
  <2>14. DOMAIN lcursor' = DOMAIN NoPass
    BY <2>1 DEF NoPass
  <2>. QED
    BY <2>8, <2>13, <2>14, <1>1, <1>2, <1>8 DEF ListIInv
<1>. QED
  BY <1>9, <1>10

(* One round of eclist_splice: the entry leaves its list for the end of    *)
(* the other one, and the loop stands on what was behind it.               *)
LEMMA SpliceStepStep ==
  ASSUME ListIInv, SpliceStep
  PROVE  ListIInv'
<1>1. Ringed(lring, lorder) /\ lcount \in Nat /\ DataOnce(lring, lcount)
  BY DEF ListIInv
<1>2. /\ ~Calm /\ NoCursor /\ lsplice.node # lsplice.list /\ FreeNodes # {}
      /\ UNCHANGED <<lcursor, lcount, lpass, lseen>>
  BY DEF SpliceStep, ListIInv, SpliceStands
<1>3. PICK l \in LLists : l = lsplice.list
  BY <1>2 DEF ListIInv, SpliceStands
<1>4. PICK dest \in LLists : dest = lsplice.dest /\ l # dest
  BY <1>2, <1>3 DEF ListIInv, SpliceStands
<1>5. PICK n : n = lsplice.node
  OBVIOUS
<1>6. PICK k \in 1 .. Len(lorder[l]) :
        n = Stop(lorder, l, k) /\ Place(l, n) = k /\ lorder[l][k].node = n
  <2>1. PICK h \in 0 .. Len(lorder[l]) : n = Stop(lorder, l, h)
    BY <1>2, <1>3, <1>5 DEF ListIInv, SpliceStands
  <2>2. DOMAIN lorder[l] = 1 .. Len(lorder[l])
    BY <1>1, Circled
  <2>3. n \in Members(l)
    BY <2>1, <2>2, <1>2, <1>3, <1>5 DEF Stop, Members
  <2>. QED
    BY <2>3, <1>1, PlaceOf
<1>7. PICK x \in LNodes : x = FreshNode /\ lring.next[x] = NoNode
  BY <1>2, FreshIsFree
<1>8. PICK d \in Nat : d = lring.data[n] /\ d = lorder[l][k].data
  <2>1. lorder[l][k] \in Entries
    BY <1>1, <1>6, Circled
  <2>. QED
    BY <2>1, <1>1, <1>6 DEF Ringed, Carried, Entries
<1>9. PICK last \in 0 .. Len(lorder[dest]) :
        last = Len(lorder[dest]) /\ lring.forw[dest] = Stop(lorder, dest, last)
  <2>1. PICK len \in Nat :
          /\ len = Len(lorder[dest])
          /\ Around(lring.next, lring.forw, Stops(lorder, dest), len)
          /\ \A i \in 0 .. len + 1 : Stops(lorder, dest)[i] = Stop(lorder, dest, i)
    BY <1>1, Circled
  <2>2. lring.forw[Stops(lorder, dest)[len + 1]] = Stops(lorder, dest)[len]
    BY <2>1 DEF Around
  <2>3. Stop(lorder, dest, len + 1) = dest
    BY <2>1 DEF Stop
  <2>. QED
    BY <2>1, <2>2, <2>3
<1>10. PICK mid : mid = InsertBehind(lring, Stop(lorder, dest, last), x, d)
  OBVIOUS
<1>11. PICK omid : omid = [lorder EXCEPT ![dest] = InsertAt(@, last + 1, Entry(x, d))]
  OBVIOUS
<1>12. /\ lring' = Unlink(mid, n)
       /\ lsplice' = [lsplice EXCEPT !.node = lring'.next[EraseAnswer(mid, n)]]
       /\ lorder' = [lorder EXCEPT ![l] = RemoveAt(@, k), ![dest] = Append(@, Entry(x, d))]
  BY <1>3, <1>4, <1>5, <1>6, <1>7, <1>8, <1>9, <1>10 DEF SpliceStep
<1>13. Grown(lring, lorder, dest, last, Entry(x, d), mid, omid)
  BY <1>1, <1>7, <1>10, <1>11, InsertKeeps
<1>14. lorder' = [omid EXCEPT ![l] = RemoveAt(@, k)]
  <2>1. DOMAIN lorder = LLists /\ lorder[dest] \in Seq(Entries) /\ Entry(x, d) \in Entries
    BY <1>1 DEF Ringed, Orders, Entry, Entries
  <2>2. PICK s : s = Append(lorder[dest], Entry(x, d))
    OBVIOUS
  <2>3. /\ s \in Seq(Entries) /\ Len(s) = last + 1 /\ s[last + 1] = Entry(x, d)
        /\ \A i \in 1 .. last : s[i] = lorder[dest][i]
    BY <2>1, <2>2, <1>9, AppendProperties
  <2>4. /\ omid[dest] \in Seq(Entries) /\ Len(omid[dest]) = last + 1
        /\ omid[dest][last + 1] = Entry(x, d)
        /\ \A i \in 1 .. last : omid[dest][i] = lorder[dest][i]
    BY <1>9, <1>13 DEF Grown, Ringed, Orders
  <2>5. \A i \in 1 .. Len(s) : s[i] = omid[dest][i]
    BY <2>1, <2>3, <2>4, <1>9
  <2>6. s = omid[dest]
    BY <2>3, <2>4, <2>5, SeqEqual
  <2>7. omid = [lorder EXCEPT ![dest] = Append(@, Entry(x, d))]
    <3>1. omid = [lorder EXCEPT ![dest] = omid[dest]]
      BY <2>1, <1>11
    <3>. QED
      BY <3>1, <2>2, <2>6
  <2>. QED
    BY <2>1, <2>7, <1>4, <1>12
<1>15. /\ Ringed(mid, omid) /\ omid[l] = lorder[l]
       /\ \A m \in LNodes : mid.next[m] # NoNode <=> (m = x \/ lring.next[m] # NoNode)
       /\ mid.data = [lring.data EXCEPT ![x] = d]
  BY <1>4, <1>13 DEF Grown, Entry
<1>16. Shrunk(mid, omid, l, k, lring', lorder')
  <2>1. k \in 1 .. Len(omid[l]) /\ n = omid[l][k].node
    BY <1>6, <1>15
  <2>. QED
    BY <2>1, <1>12, <1>14, <1>15, EraseKeeps
<1>17. /\ Ringed(lring', lorder')
       /\ Len(lorder'[l]) = Len(lorder[l]) - 1
       /\ \A i \in 1 .. k - 1 : lorder'[l][i] = lorder[l][i]
       /\ \A m \in LNodes : lring'.next[m] # NoNode <=> (m # n /\ mid.next[m] # NoNode)
       /\ lring'.data = [mid.data EXCEPT ![n] = NoData]
       /\ EraseAnswer(mid, n) = Stop(omid, l, k - 1)
  BY <1>6, <1>15, <1>16 DEF Shrunk
<1>18. DataOnce(lring', lcount)
  <2>1. lring.data \in [RingNodes -> Nat] /\ LNodes \subseteq RingNodes
    BY <1>1 DEF Ringed, Rings, RingNodes
  <2>2. n \in LNodes /\ lring.next[n] # NoNode /\ n # x
    <3>1. lorder[l][k] \in Entries /\ k \in 0 .. Len(lorder[l]) + 1
      BY <1>1, <1>6, Circled
    <3>2. lring.next[n] # NoNode
      BY <3>1, <1>1, <1>6, Taken
    <3>. QED
      BY <3>1, <3>2, <1>6, <1>7 DEF Entries
  <2>3. \A m \in LNodes : m # n => lring'.data[m] = IF m = x THEN d ELSE lring.data[m]
    BY <2>1, <2>2, <1>15, <1>17
  <2>4. \A m \in LNodes : lring'.next[m] # NoNode <=> (m # n /\ (m = x \/ lring.next[m] # NoNode))
    BY <1>15, <1>17
  <2>5. \A m \in LNodes : lring'.next[m] # NoNode => lring'.data[m] \in 1 .. lcount
    BY <2>2, <2>3, <2>4, <1>1, <1>8 DEF DataOnce
  <2>6. ASSUME NEW m \in LNodes, NEW o \in LNodes, lring'.next[m] # NoNode, lring'.next[o] # NoNode,
               lring'.data[m] = lring'.data[o]
        PROVE  m = o
    BY <2>2, <2>3, <2>4, <2>6, <1>1, <1>8 DEF DataOnce
  <2>. QED
    BY <2>5, <2>6 DEF DataOnce
<1>19. lsplice'.node = Stop(lorder', l, k)
  <2>1. PICK len \in Nat :
          /\ len = Len(lorder'[l]) /\ k - 1 \in 0 .. len
          /\ Around(lring'.next, lring'.forw, Stops(lorder', l), len)
          /\ \A i \in 0 .. len + 1 : Stops(lorder', l)[i] = Stop(lorder', l, i)
    <3>1. PICK r, o : r = lring' /\ o = lorder' /\ Ringed(r, o)
      BY <1>17
    <3>2. /\ Len(o[l]) \in Nat /\ Around(r.next, r.forw, Stops(o, l), Len(o[l]))
          /\ \A i \in 0 .. Len(o[l]) + 1 : Stops(o, l)[i] = Stop(o, l, i)
      BY <3>1, Circled
    <3>. QED
      BY <3>1, <3>2, <1>6, <1>17
  <2>2. Stop(omid, l, k - 1) = Stop(lorder', l, k - 1)
    <3>1. k - 1 \in 0 .. Len(lorder[l]) /\ Len(lorder[l]) \in Nat
      BY <1>1, <1>6, Circled
    <3>. QED
      BY <3>1, <1>15, <1>17 DEF Stop
  <2>3. (k - 1) + 1 = k /\ k \in 0 .. len + 1 /\ k - 1 \in 0 .. len + 1
    BY <2>1, <1>6
  <2>4. lring'.next[Stop(lorder', l, k - 1)] = Stop(lorder', l, k)
    BY <2>1, <2>3 DEF Around
  <2>5. lsplice'.node = lring'.next[EraseAnswer(mid, n)]
    <3>1. "node" \in DOMAIN lsplice
      BY DEF ListIInv, NoSplice
    <3>. QED
      BY <3>1, <1>12
  <2>. QED
    BY <2>2, <2>4, <2>5, <1>17
<1>20. /\ DOMAIN lsplice' = DOMAIN NoSplice
       /\ lsplice'.list = l /\ lsplice'.dest = dest
  <2>1. DOMAIN lsplice = DOMAIN NoSplice
    BY DEF ListIInv
  <2>2. "list" \in DOMAIN NoSplice /\ "node" \in DOMAIN NoSplice /\ "dest" \in DOMAIN NoSplice
    BY DEF NoSplice
  <2>. QED
    BY <2>1, <2>2, <1>3, <1>4, <1>12
<1>21. SpliceStands'
  <2>1. \E h \in 0 .. Len(lorder'[l]) : lsplice'.node = Stop(lorder', l, h)
    <3>1. Len(lorder[l]) \in Nat
      BY <1>1, Circled
    <3>2. CASE k \in 0 .. Len(lorder'[l])
      BY <3>2, <1>19
    <3>3. CASE k \notin 0 .. Len(lorder'[l])
      <4>1. Stop(lorder', l, k) = l /\ Stop(lorder', l, 0) = l /\ 0 \in 0 .. Len(lorder'[l])
        BY <3>1, <3>3, <1>6, <1>17 DEF Stop
      <4>. QED
        BY <4>1, <1>19
    <3>. QED
      BY <3>2, <3>3
  <2>. QED
    BY <2>1, <1>2, <1>4, <1>20 DEF SpliceStands, NoCursor
<1>22. CursorStands'
  BY <1>2 DEF ListIInv, CursorStands, NoCursor
<1>. QED
  BY <1>2, <1>17, <1>18, <1>20, <1>21, <1>22 DEF ListIInv

(* At first every list is its end node alone.                              *)
LEMMA ListStarts ==
  ASSUME ListInit
  PROVE  ListIInv
<1>1. PICK o : o = lorder /\ o = [l \in LLists |-> <<>>]
  BY DEF ListInit
<1>2. /\ o \in Orders
      /\ \A l \in LLists : o[l] = <<>> /\ Len(o[l]) = 0 /\ 1 .. Len(o[l]) = {}
  BY <1>1 DEF Orders
<1>3. lring \in Rings
  BY ListConstants DEF ListInit, Rings, RingNodes, NoNode, NoData
<1>4. Linked(lring, o)
  <2>. SUFFICES ASSUME NEW l \in LLists
                PROVE  Around(lring.next, lring.forw, Stops(o, l), Len(o[l]))
    BY DEF Linked
  <2>1. Len(o[l]) = 0 /\ Stop(o, l, 0) = l /\ Stop(o, l, 1) = l
    BY <1>2 DEF Stop
  <2>2. Stops(o, l)[0] = l /\ Stops(o, l)[1] = l
    BY <2>1 DEF Stops
  <2>3. lring.next[l] = l /\ lring.forw[l] = l
    BY DEF ListInit, RingNodes
  <2>4. \A i \in 0 .. 0 : i = 0 /\ i + 1 = 1
    OBVIOUS
  <2>. QED
    BY <2>1, <2>2, <2>3, <2>4 DEF Around
<1>5. \A n \in LNodes : lring.next[n] = NoNode
  BY ListConstants DEF ListInit, RingNodes
<1>6. Apart(o) /\ Carried(lring, o) /\ Used(lring, o)
  BY <1>2, <1>5 DEF Apart, Carried, Used
<1>7. Ringed(lring, lorder)
  BY <1>1, <1>2, <1>3, <1>4, <1>6 DEF Ringed
<1>8. DataOnce(lring, lcount)
  BY <1>5 DEF DataOnce
<1>9. Calm /\ NoCursor /\ lcount = 0 /\ lseen = <<>> /\ lcursor = NoPass /\ lsplice = NoSplice
  BY DEF ListInit, Calm, NoCursor
<1>10. lseen \in Seq(1 .. lcount) /\ IsInjective(lseen)
  BY <1>9 DEF IsInjective
<1>. QED
  BY <1>7, <1>8, <1>9, <1>10 DEF ListIInv, SpliceStands, CursorStands

(* Every operation keeps it.                                               *)
LEMMA ListSteps ==
  ASSUME ListIInv, [ListNext]_listVars
  PROVE  ListIInv'
<1>1. ASSUME NEW l \in LLists, ListAppend(l) PROVE ListIInv'
  BY <1>1, ListInsertStep DEF ListAppend
<1>2. ASSUME NEW l \in LLists, NEW d \in 1 .. LMaxData, ListRemove(l, d) PROVE ListIInv'
  BY <1>2, ListEraseStep DEF ListRemove
<1>3. ASSUME NEW l \in LLists, ListClear(l) \/ CursorStart(l) PROVE ListIInv'
  BY <1>3, ListClearStep, CursorStartStep
<1>4. ASSUME NEW l \in LLists, NEW n \in RingNodes,
             ListInsert(l, n) \/ ListSet(l, n) \/ ListErase(l, n)
      PROVE  ListIInv'
  BY <1>4, ListInsertStep, ListSetStep, ListEraseStep
<1>5. ASSUME NEW l \in LLists, NEW n \in RingNodes, NEW m \in RingNodes, ListSwap(l, n, m)
      PROVE  ListIInv'
  BY <1>5, ListSwapStep
<1>6. ASSUME NEW l \in LLists, NEW n \in RingNodes, NEW m \in RingNodes, NEW dest \in LLists,
             SpliceStart(l, n, m, dest)
      PROVE  ListIInv'
  BY <1>6, SpliceStartStep
<1>7. ASSUME SpliceStep \/ SpliceEnd PROVE ListIInv'
  BY <1>7, SpliceStepStep, SpliceEndStep
<1>8. ASSUME CursorNext \/ CursorErase PROVE ListIInv'
  BY <1>8, CursorNextStep, CursorEraseStep
<1>9. ASSUME UNCHANGED listVars PROVE ListIInv'
  <2>1. /\ lring' = lring /\ lcursor' = lcursor /\ lsplice' = lsplice /\ lcount' = lcount
        /\ lorder' = lorder /\ lpass' = lpass /\ lseen' = lseen
    BY <1>9 DEF listVars
  <2>. QED
    BY <2>1 DEF ListIInv, SpliceStands, CursorStands, Calm, NoCursor
<1>. QED
  BY <1>1, <1>2, <1>3, <1>4, <1>5, <1>6, <1>7, <1>8, <1>9 DEF ListNext

(* A walk that starts and ends at the end node meets the stops.            *)
LEMMA Walk ==
  ASSUME NEW r, NEW o, Ringed(r, o), NEW l \in LLists,
         NEW s, s = <<l>> \o [i \in DOMAIN o[l] |-> o[l][i].node] \o <<l>>
  PROVE  /\ Len(s) = Len(o[l]) + 2
         /\ \A i \in 1 .. Len(o[l]) + 2 : s[i] = Stop(o, l, i - 1)
<1>1. PICK len \in Nat : len = Len(o[l]) /\ DOMAIN o[l] = 1 .. len
  BY Circled
<1>2. \A i \in 1 .. len : o[l][i].node \in LNodes
  BY <1>1, Circled DEF Entries
<1>3. PICK m : m = [i \in 1 .. len |-> o[l][i].node]
  OBVIOUS
<1>4. m \in Seq(RingNodes) /\ Len(m) = len /\ \A i \in 1 .. len : m[i] = o[l][i].node
  <2>1. m \in [1 .. len -> RingNodes]
    BY <1>2, <1>3 DEF RingNodes
  <2>. QED
    BY <2>1, <1>3
<1>5. <<l>> \in Seq(RingNodes) /\ Len(<<l>>) = 1 /\ <<l>>[1] = l
  BY DEF RingNodes
<1>6. PICK t : t = <<l>> \o m
  OBVIOUS
<1>7. /\ t \in Seq(RingNodes) /\ Len(t) = len + 1 /\ t[1] = l
      /\ \A i \in 1 .. len : t[1 + i] = m[i]
  BY <1>4, <1>5, <1>6
<1>8. PICK e, u : u = s /\ e = <<l>> /\ u = t \o e /\ e \in Seq(RingNodes) /\ Len(e) = 1 /\ e[1] = l
  BY <1>1, <1>3, <1>5, <1>6
<1>9. /\ Len(u) = len + 2 /\ u[len + 2] = l
      /\ \A i \in 1 .. len + 1 : u[i] = t[i]
  <2>1. t \in Seq(RingNodes) /\ e \in Seq(RingNodes) /\ Len(t) = len + 1 /\ Len(e) = 1
    BY <1>7, <1>8
  <2>2. /\ Len(t \o e) = Len(t) + Len(e)
        /\ \A i \in 1 .. Len(t) + Len(e) : (t \o e)[i] = IF i <= Len(t) THEN t[i] ELSE e[i - Len(t)]
    BY <2>1, ConcatProperties
  <2>3. /\ Len(u) = Len(t) + Len(e)
        /\ \A i \in 1 .. Len(t) + Len(e) : u[i] = IF i <= Len(t) THEN t[i] ELSE e[i - Len(t)]
    BY <2>2, <1>8, Zenon
  <2>4. Len(u) = len + 2 /\ \A i \in 1 .. len + 1 : u[i] = t[i]
    BY <2>1, <2>3
  <2>5. u[len + 2] = e[1]
    <3>1. len + 2 \in 1 .. Len(t) + Len(e) /\ ~(len + 2 <= Len(t)) /\ len + 2 - Len(t) = 1
      BY <2>1
    <3>. QED
      BY <3>1, <2>3
  <2>. QED
    BY <2>4, <2>5, <1>8
<1>10. ASSUME NEW i \in 1 .. len + 2 PROVE u[i] = Stop(o, l, i - 1)
  <2>1. CASE i = 1
    BY <2>1, <1>7, <1>9 DEF Stop
  <2>2. CASE i = len + 2
    BY <2>2, <1>1, <1>9 DEF Stop
  <2>3. CASE i # 1 /\ i # len + 2
    <3>1. PICK j \in 1 .. len : i = 1 + j /\ i \in 1 .. len + 1
      <4>1. i - 1 \in 1 .. len /\ i = 1 + (i - 1) /\ i \in 1 .. len + 1
        BY <2>3
      <4>. QED
        BY <4>1
    <3>2. u[i] = o[l][j].node
      BY <3>1, <1>4, <1>7, <1>9
    <3>3. i - 1 = j
      BY <3>1
    <3>. QED
      BY <3>1, <3>2, <3>3, <1>1 DEF Stop
  <2>. QED
    BY <2>1, <2>2, <2>3
<1>. QED
  BY <1>1, <1>8, <1>9, <1>10, Zenon

(* Both ways around, a list is what it should hold.                        *)
LEMMA RingsFollow ==
  ASSUME ListIInv
  PROVE  ListsAreRings
<1>1. Ringed(lring, lorder)
  BY DEF ListIInv
<1>2. ASSUME NEW l \in LLists
      PROVE  LET s == <<l>> \o [i \in DOMAIN lorder[l] |-> lorder[l][i].node] \o <<l>>
             IN  \A i \in 1 .. Len(s) - 1 :
                   lring.next[s[i]] = s[i + 1] /\ lring.forw[s[i + 1]] = s[i]
  <2>1. PICK s : s = <<l>> \o [i \in DOMAIN lorder[l] |-> lorder[l][i].node] \o <<l>>
    OBVIOUS
  <2>2. PICK len \in Nat :
          /\ len = Len(lorder[l])
          /\ Around(lring.next, lring.forw, Stops(lorder, l), len)
          /\ \A i \in 0 .. len + 1 : Stops(lorder, l)[i] = Stop(lorder, l, i)
    BY <1>1, Circled
  <2>3. Len(s) = len + 2 /\ \A i \in 1 .. len + 2 : s[i] = Stop(lorder, l, i - 1)
    BY <1>1, <2>1, <2>2, Walk
  <2>4. ASSUME NEW i \in 1 .. Len(s) - 1
        PROVE  lring.next[s[i]] = s[i + 1] /\ lring.forw[s[i + 1]] = s[i]
    <3>1. PICK j \in 0 .. len : i = j + 1 /\ j + 1 \in 0 .. len + 1 /\ j \in 0 .. len + 1
      <4>1. i - 1 \in 0 .. len /\ i = (i - 1) + 1 /\ i \in 0 .. len + 1 /\ i - 1 \in 0 .. len + 1
        BY <2>2, <2>3
      <4>. QED
        BY <4>1
    <3>2. s[i] = Stop(lorder, l, j) /\ s[i + 1] = Stop(lorder, l, j + 1)
      <4>1. i \in 1 .. len + 2 /\ i + 1 \in 1 .. len + 2 /\ i - 1 = j /\ (i + 1) - 1 = j + 1
        BY <3>1
      <4>2. s[i] = Stop(lorder, l, i - 1) /\ s[i + 1] = Stop(lorder, l, (i + 1) - 1)
        BY <4>1, <2>3
      <4>. QED
        BY <4>1, <4>2
    <3>. QED
      BY <3>1, <3>2, <2>2 DEF Around
  <2>. QED
    BY <2>1, <2>4
<1>3. \A l \in LLists : \A i \in DOMAIN lorder[l] : lring.data[lorder[l][i].node] = lorder[l][i].data
  BY <1>1, Circled DEF Ringed, Carried
<1>4. \A l \in LLists : DOMAIN lorder[l] = 1 .. Len(lorder[l])
  BY <1>1, Circled
<1>5. \A l, k \in LLists : l # k => Members(l) \cap Members(k) = {}
  BY <1>1, <1>4 DEF Ringed, Apart, Members
<1>6. FreeNodes = LNodes \ UNION {Members(l) : l \in LLists}
  <2>1. ASSUME NEW n \in LNodes, lring.next[n] = NoNode, NEW l \in LLists, n \in Members(l)
        PROVE  FALSE
    <3>1. PICK i \in 1 .. Len(lorder[l]) : lorder[l][i].node = n
      BY <2>1, <1>4 DEF Members
    <3>2. i \in 0 .. Len(lorder[l]) + 1 /\ n = Stop(lorder, l, i)
      BY <1>1, <3>1, Circled DEF Stop
    <3>. QED
      BY <3>2, <1>1, <2>1, Taken
  <2>2. ASSUME NEW n \in LNodes, lring.next[n] # NoNode PROVE \E l \in LLists : n \in Members(l)
    BY <2>2, <1>1, <1>4 DEF Ringed, Used, Members
  <2>. QED
    BY <2>1, <2>2 DEF FreeNodes
<1>. QED
  BY <1>2, <1>3, <1>5, <1>6 DEF ListsAreRings

(* A pass gives everything once and skips nothing.                         *)
LEMMA CoverFollows ==
  ASSUME ListIInv
  PROVE  CursorCovers
<1>1. Ringed(lring, lorder) /\ IsInjective(lseen)
  BY DEF ListIInv
<1>2. CASE NoCursor
  BY <1>1, <1>2 DEF CursorCovers, NoCursor
<1>3. CASE ~NoCursor
  <2>1. PICK k \in Nat : Passing(lcursor, lorder, k, lpass, lseen)
    BY <1>3 DEF ListIInv, CursorStands
  <2>2. PICK l \in LLists : l = lcursor.list
    BY <2>1 DEF Passing
  <2>3. Len(lorder[l]) \in Nat /\ k \in 0 .. Len(lorder[l]) /\ k \in 0 .. Len(lorder[l]) + 1
    BY <1>1, <2>1, <2>2, Circled DEF Passing
  <2>4. Stop(lorder, l, k) # NoNode
    <3>1. Stop(lorder, l, k) \in RingNodes
      BY <1>1, <2>3, Taken
    <3>. QED
      BY <3>1, ListConstants DEF RingNodes, NoNode
  <2>5. (IF lcursor.node = NoNode THEN 0 ELSE Place(l, lcursor.node)) = k
    <3>1. CASE lcursor.node = NoNode
      BY <3>1, <2>1, <2>2, <2>4 DEF Passing
    <3>2. CASE lcursor.node # NoNode
      <4>1. lcursor.node = Stop(lorder, l, k)
        BY <3>2, <2>1, <2>2 DEF Passing
      <4>2. DOMAIN lorder[l] = 1 .. Len(lorder[l])
        BY <1>1, Circled
      <4>3. lcursor.node \in Members(l) \cup {l}
        BY <4>1, <4>2, <2>3 DEF Stop, Members
      <4>4. PICK h \in 0 .. Len(lorder[l]) :
              lcursor.node = Stop(lorder, l, h) /\ Place(l, lcursor.node) = h
        BY <4>3, <1>1, PlaceOf
      <4>5. h = k
        <5>1. Stop(lorder, l, h) = Stop(lorder, l, k) /\ k \in 0 .. Len(lorder[l])
          BY <4>1, <4>4, <2>3
        <5>. QED
          BY <5>1, <1>1, StopsApart
      <4>. QED
        BY <3>2, <4>4, <4>5
    <3>. QED
      BY <3>1, <3>2
  <2>6. lpass \subseteq ToSet(lseen) \cup {lorder[l][i].data : i \in k + 1 .. Len(lorder[l])}
    BY <2>1, <2>2 DEF Passing, Ahead
  <2>. QED
    BY <2>2, <2>5, <2>6, <1>1 DEF CursorCovers
<1>. QED
  BY <1>2, <1>3

-----------------------------------------------------------------------------
(* Induction up to m, over the set of the numbers where a fact holds.      *)
LEMMA Inductive ==
  ASSUME NEW S, NEW m \in Nat, 0 \in S, \A k \in 0 .. m - 1 : k \in S => k + 1 \in S
  PROVE  \A k \in 0 .. m : k \in S
<1> DEFINE D == {k \in 0 .. m : k \notin S}
           R == OpToRel(<, Nat)
<1>1. ASSUME D # {} PROVE FALSE
  <2>1. IsWellFoundedOn(R, Nat)
    BY NatLessThanWellFounded, Zenon
  <2>2. PICK x \in D : \A y \in D : ~(<<y, x>> \in R)
    <3>1. D \subseteq Nat
      OBVIOUS
    <3> HIDE DEF D, R
    <3> QED
      BY <1>1, <2>1, <3>1, WFMin
  <2>3. x \in 0 .. m /\ x \notin S /\ x # 0
    OBVIOUS
  <2>4. x - 1 \in 0 .. m - 1 /\ (x - 1) + 1 = x
    BY <2>3
  <2>5. x - 1 \in D
    BY <2>3, <2>4
  <2>6. <<x - 1, x>> \in R
    BY <2>3, <2>4 DEF OpToRel
  <2>. QED
    BY <2>2, <2>5, <2>6
<1>. QED
  BY <1>1

(* A function that is given at 0, and by its value at k - 1 for each k up  *)
(* to m, exists; F is what happens from one to the next.                   *)
Moves(F, T, m) == \A x \in T, k \in 1 .. m : F[x][k] \in T
Iterates(f, F, T, base, m) ==
  f \in [0 .. m -> T] /\ f[0] = base /\ \A k \in 1 .. m : f[k] = F[f[k - 1]][k]

(* What goes on for n steps goes on for one more.                          *)
LEMMA OneMore ==
  ASSUME NEW T, NEW base \in T, NEW m \in Nat, NEW F, Moves(F, T, m),
         NEW n \in 0 .. m - 1, NEW f, Iterates(f, F, T, base, n)
  PROVE  \E g : Iterates(g, F, T, base, n + 1)
<1> DEFINE g == [k \in 0 .. n + 1 |-> IF k = n + 1 THEN F[f[n]][n + 1] ELSE f[k]]
<1>1. n \in Nat /\ n + 1 \in 1 .. m /\ n \in 0 .. n
  OBVIOUS
<1>2. f \in [0 .. n -> T] /\ f[0] = base /\ \A k \in 1 .. n : f[k] = F[f[k - 1]][k]
  BY DEF Iterates
<1>3. F[f[n]][n + 1] \in T
  BY <1>1, <1>2 DEF Moves
<1>4. \A k \in 0 .. n : g[k] = f[k]
  BY <1>1
<1>5. g[n + 1] = F[f[n]][n + 1]
  BY <1>1
<1>6. g \in [0 .. n + 1 -> T]
  BY <1>1, <1>2, <1>3
<1> HIDE DEF g
<1>7. ASSUME NEW k \in 1 .. n + 1 PROVE g[k] = F[g[k - 1]][k]
  <2>1. CASE k = n + 1
    <3>1. g[n] = f[n] /\ k - 1 = n
      BY <1>1, <1>4, <2>1
    <3>. QED
      BY <2>1, <3>1, <1>5
  <2>2. CASE k # n + 1
    <3>1. k \in 1 .. n /\ k \in 0 .. n /\ k - 1 \in 0 .. n
      BY <1>1, <2>2
    <3>. QED
      BY <3>1, <1>2, <1>4
  <2>. QED
    BY <2>1, <2>2
<1>8. g[0] = base
  BY <1>1, <1>2, <1>4
<1>9. Iterates(g, F, T, base, n + 1)
  BY <1>6, <1>7, <1>8 DEF Iterates
<1>. QED
  BY <1>9

(* A loop that moves within T can be run as often as one likes.            *)
LEMMA Iterated ==
  ASSUME NEW T, NEW base \in T, NEW m \in Nat, NEW F, Moves(F, T, m)
  PROVE  \E f : Iterates(f, F, T, base, m)
<1> DEFINE S == {n \in 0 .. m : \E f : Iterates(f, F, T, base, n)}
<1>1. 0 \in S
  <2> DEFINE f == [k \in 0 .. 0 |-> base]
  <2>1. 0 \in 0 .. 0 /\ \A k \in 1 .. 0 : FALSE
    OBVIOUS
  <2>2. Iterates(f, F, T, base, 0)
    BY <2>1 DEF Iterates
  <2>. QED
    <3> HIDE DEF f
    <3> QED
      BY <2>2
<1>2. ASSUME NEW n \in 0 .. m - 1, n \in S PROVE n + 1 \in S
  <2>1. PICK f : Iterates(f, F, T, base, n)
    BY <1>2
  <2>2. \E g : Iterates(g, F, T, base, n + 1)
    BY <2>1, OneMore
  <2>3. n + 1 \in 0 .. m
    OBVIOUS
  <2>. QED
    BY <2>2, <2>3
<1>3. m \in 0 .. m /\ \A n \in 0 .. m : n \in S
  <2>1. \A n \in 0 .. m - 1 : n \in S => n + 1 \in S
    BY <1>2
  <2> HIDE DEF S
  <2> QED
    BY <1>1, <2>1, Inductive
<1>. QED
  BY <1>3

-----------------------------------------------------------------------------
(* A sequence cut in two.                                                  *)
LEMMA CutInTwo ==
  ASSUME NEW S, NEW s \in Seq(S), NEW k \in 0 .. Len(s)
  PROVE  /\ SubSeq(s, 1, k) \in Seq(S) /\ Len(SubSeq(s, 1, k)) = k
         /\ SubSeq(s, k + 1, Len(s)) \in Seq(S) /\ Len(SubSeq(s, k + 1, Len(s))) = Len(s) - k
         /\ SubSeq(s, 1, k) \o SubSeq(s, k + 1, Len(s)) = s
<1>1. Len(s) \in Nat /\ k \in Nat /\ \A i \in 1 .. Len(s) : s[i] \in S
  OBVIOUS
<1>2. /\ SubSeq(s, 1, k) \in Seq(S) /\ Len(SubSeq(s, 1, k)) = IF 1 <= k THEN k - 1 + 1 ELSE 0
      /\ \A i \in 1 .. k - 1 + 1 : SubSeq(s, 1, k)[i] = s[1 + i - 1]
  <2>1. 1 \in Int /\ k \in Int /\ \A i \in 1 .. k : s[i] \in S
    BY <1>1
  <2>. QED
    BY <2>1, SubSeqProperties
<1>3. /\ SubSeq(s, k + 1, Len(s)) \in Seq(S)
      /\ Len(SubSeq(s, k + 1, Len(s))) = IF k + 1 <= Len(s) THEN Len(s) - (k + 1) + 1 ELSE 0
      /\ \A i \in 1 .. Len(s) - (k + 1) + 1 : SubSeq(s, k + 1, Len(s))[i] = s[k + 1 + i - 1]
  <2>1. k + 1 \in Int /\ Len(s) \in Int /\ \A i \in k + 1 .. Len(s) : s[i] \in S
    BY <1>1
  <2>. QED
    BY <2>1, SubSeqProperties
<1>4. Len(SubSeq(s, 1, k)) = k /\ Len(SubSeq(s, k + 1, Len(s))) = Len(s) - k
  BY <1>1, <1>2, <1>3
<1>5. PICK a \in Seq(S) : a = SubSeq(s, 1, k)
  BY <1>2
<1>6. PICK b \in Seq(S) : b = SubSeq(s, k + 1, Len(s))
  BY <1>3
<1>7. /\ a \o b \in Seq(S) /\ Len(a \o b) = Len(a) + Len(b)
      /\ \A i \in 1 .. Len(a) + Len(b) : (a \o b)[i] = IF i <= Len(a) THEN a[i] ELSE b[i - Len(a)]
  BY ConcatProperties
<1>8. Len(a) = k /\ Len(b) = Len(s) - k /\ Len(a \o b) = Len(s)
  <2>1. Len(a) = k /\ Len(b) = Len(s) - k
    BY <1>4, <1>5, <1>6
  <2>2. Len(a) + Len(b) = Len(s)
    BY <1>1, <2>1
  <2>. QED
    BY <1>7, <2>1, <2>2
<1>9. ASSUME NEW i \in 1 .. Len(s) PROVE (a \o b)[i] = s[i]
  <2>1. CASE i <= k
    <3>1. i \in 1 .. k - 1 + 1 /\ 1 + i - 1 = i
      BY <1>1, <2>1
    <3>2. a[i] = s[i]
      BY <1>2, <1>5, <3>1
    <3>. QED
      BY <1>1, <1>7, <1>8, <2>1, <3>2
  <2>2. CASE ~(i <= k)
    <3>1. i - k \in 1 .. Len(s) - (k + 1) + 1 /\ k + 1 + (i - k) - 1 = i
      BY <1>1, <2>2
    <3>2. b[i - k] = s[i]
      BY <1>3, <1>6, <3>1
    <3>. QED
      BY <1>1, <1>7, <1>8, <2>2, <3>2
  <2>. QED
    BY <2>1, <2>2
<1>10. a \o b = s
  BY <1>7, <1>8, <1>9, SeqEqual
<1>. QED
  BY <1>2, <1>3, <1>4, <1>5, <1>6, <1>10

(* Bytes in a row.                                                         *)
LEMMA BytesInRow ==
  ASSUME NEW a \in Nat, NEW n \in Nat
  PROVE  /\ BytesFrom(a, n) \in Seq(Nat) /\ Len(BytesFrom(a, n)) = n
         /\ \A i \in 1 .. n : BytesFrom(a, n)[i] = a + i
<1>1. \A i \in 1 .. n : a + i \in Nat
  OBVIOUS
<1>2. BytesFrom(a, n) \in [1 .. n -> Nat]
  BY <1>1 DEF BytesFrom
<1>3. DOMAIN BytesFrom(a, n) = 1 .. n
  BY DEF BytesFrom
<1>4. BytesFrom(a, n) \in Seq(Nat)
  BY <1>2
<1>. QED
  BY <1>3, <1>4 DEF BytesFrom

(* Bytes in a row and the ones behind them are bytes in a row.             *)
LEMMA BytesGoOn ==
  ASSUME NEW a \in Nat, NEW n \in Nat, NEW m \in Nat
  PROVE  BytesFrom(a, n) \o BytesFrom(a + n, m) = BytesFrom(a, n + m)
<1>0. a + n \in Nat /\ n + m \in Nat
  OBVIOUS
<1>1. PICK b \in Seq(Nat) : b = BytesFrom(a, n)
  BY BytesInRow
<1>2. PICK c \in Seq(Nat) : c = BytesFrom(a + n, m)
  BY <1>0, BytesInRow
<1>3. PICK d \in Seq(Nat) : d = BytesFrom(a, n + m)
  BY <1>0, BytesInRow
<1>4. Len(b) = n /\ \A i \in 1 .. n : b[i] = a + i
  BY <1>1, BytesInRow
<1>5. Len(c) = m /\ \A i \in 1 .. m : c[i] = a + n + i
  BY <1>0, <1>2, BytesInRow
<1>6. Len(d) = n + m /\ \A i \in 1 .. n + m : d[i] = a + i
  BY <1>0, <1>3, BytesInRow
<1>7. /\ b \o c \in Seq(Nat) /\ Len(b \o c) = n + m
      /\ \A i \in 1 .. n + m : (b \o c)[i] = IF i <= n THEN b[i] ELSE c[i - n]
  BY <1>4, <1>5, ConcatProperties
<1>8. ASSUME NEW i \in 1 .. n + m PROVE (b \o c)[i] = d[i]
  <2>1. CASE i <= n
    BY <2>1, <1>4, <1>6, <1>7
  <2>2. CASE ~(i <= n)
    <3>1. i - n \in 1 .. m
      BY <2>2
    <3>2. c[i - n] = a + n + (i - n)
      BY <3>1, <1>5
    <3>3. (b \o c)[i] = c[i - n] /\ d[i] = a + i
      BY <2>2, <1>6, <1>7
    <3>4. a + n + (i - n) = a + i
      BY <1>0
    <3>. QED
      BY <3>2, <3>3, <3>4
  <2>. QED
    BY <2>1, <2>2
<1>9. b \o c = d
  BY <1>6, <1>7, <1>8, SeqEqual
<1>. QED
  BY <1>1, <1>2, <1>3, <1>9

-----------------------------------------------------------------------------
(* EcStream: the buffer is always longer than its contents, and its size   *)
(* never comes near to what a uint_t counts.                               *)
StreamSizes ==
  /\ ggave \in Nat /\ ggave <= GMaxBytes
  /\ gdata \in Seq(Nat) /\ Len(gdata) <= ggave
  /\ gsize \in Nat /\ Len(gdata) < gsize /\ gsize <= galloc /\ galloc \in Nat
  /\ gsize <= GSize + 3 * GMaxBytes
StreamPlaces == \A i \in 1 .. Len(gdata) : gdata[i] = Hole \/ gdata[i] = ggave - Len(gdata) + i
StreamIInv == StreamSizes /\ StreamPlaces

(* An empty stream has room.                                               *)
LEMMA StreamStarts == StreamInit => StreamIInv
BY StreamConstants DEF StreamInit, StreamIInv, StreamSizes, StreamPlaces

(* The unsigned difference does not wrap.                                  *)
LEMMA CheckMakesRoom ==
  ASSUME StreamSizes, NEW n \in GChunks, ggave + n <= GMaxBytes, Check(n)
  PROVE  /\ gsize' \in Nat /\ galloc' \in Nat
         /\ Len(gdata) + n < gsize' /\ gsize' <= galloc'
         /\ gsize' <= GSize + 3 * GMaxBytes
<1>1. /\ n \in Nat /\ n > 0 /\ GMaxBytes \in Nat /\ GSize \in Nat /\ GSize > 0 /\ GWidth \in Nat
      /\ 4 * (GMaxBytes + GSize) < GWidth
  BY StreamConstants
<1>2. Len(gdata) \in Nat /\ ggave \in Nat /\ gsize \in Nat /\ galloc \in Nat
  BY DEF StreamSizes
<1>3. gsize - Len(gdata) - 1 \in 0 .. GWidth - 1 /\ Len(gdata) + n \in 0 .. GWidth - 1
  BY <1>1, <1>2 DEF StreamSizes
<1>4. \A x \in 0 .. GWidth - 1 : x % GWidth = x
  BY <1>1
<1>5. (gsize - Len(gdata) - 1) % GWidth = gsize - Len(gdata) - 1 /\ (Len(gdata) + n) % GWidth = Len(gdata) + n
  BY <1>3, <1>4
<1>6. CASE Len(gdata) + n > gsize - Len(gdata) - 1
  <2>1. gsize' = Len(gdata) + n + gsize /\ galloc' = Len(gdata) + n + gsize
    BY <1>5, <1>6 DEF Check
  <2>. QED
    BY <1>1, <1>2, <1>6, <2>1 DEF StreamSizes
<1>7. CASE ~(Len(gdata) + n > gsize - Len(gdata) - 1)
  <2>1. gsize' = gsize /\ galloc' = galloc
    BY <1>5, <1>7 DEF Check
  <2>. QED
    BY <1>1, <1>2, <1>7, <2>1 DEF StreamSizes
<1>. QED
  BY <1>6, <1>7

(* What is appended, bytes or room for them, comes behind the rest.        *)
LEMMA StreamGrows ==
  ASSUME StreamIInv, NEW n \in GChunks, ggave + n <= GMaxBytes, Check(n), ggave' = ggave + n,
         NEW new \in Seq(Nat), Len(new) = n, \A i \in 1 .. n : new[i] = Hole \/ new[i] = ggave + i,
         gdata' = gdata \o new
  PROVE  StreamIInv'
<1>1. /\ n \in Nat /\ GMaxBytes \in Nat /\ gdata \in Seq(Nat) /\ Len(gdata) \in Nat
      /\ ggave \in Nat /\ Len(gdata) <= ggave
  BY StreamConstants DEF StreamIInv, StreamSizes
<1>2. /\ gdata' \in Seq(Nat) /\ Len(gdata') = Len(gdata) + n
      /\ \A i \in 1 .. Len(gdata) + n : gdata'[i] = IF i <= Len(gdata) THEN gdata[i] ELSE new[i - Len(gdata)]
  BY <1>1, ConcatProperties
<1>3. StreamSizes'
  <2>1. /\ gsize' \in Nat /\ galloc' \in Nat
        /\ Len(gdata) + n < gsize' /\ gsize' <= galloc'
        /\ gsize' <= GSize + 3 * GMaxBytes
    BY CheckMakesRoom DEF StreamIInv
  <2>. QED
    BY <1>1, <1>2, <2>1 DEF StreamSizes
<1>4. StreamPlaces'
  <2>. SUFFICES ASSUME NEW i \in 1 .. Len(gdata) + n
                PROVE  gdata'[i] = Hole \/ gdata'[i] = (ggave + n) - (Len(gdata) + n) + i
    BY <1>2 DEF StreamPlaces
  <2>1. CASE i <= Len(gdata)
    <3>1. i \in 1 .. Len(gdata) /\ gdata'[i] = gdata[i]
      BY <1>1, <1>2, <2>1
    <3>2. gdata[i] = Hole \/ gdata[i] = ggave - Len(gdata) + i
      BY <3>1 DEF StreamIInv, StreamPlaces
    <3>. QED
      BY <1>1, <3>1, <3>2
  <2>2. CASE ~(i <= Len(gdata))
    <3>1. i - Len(gdata) \in 1 .. n /\ gdata'[i] = new[i - Len(gdata)]
      BY <1>1, <1>2, <2>2
    <3>2. new[i - Len(gdata)] = Hole \/ new[i - Len(gdata)] = ggave + (i - Len(gdata))
      BY <3>1
    <3>. QED
      BY <1>1, <3>1, <3>2
  <2>. QED
    BY <2>1, <2>2
<1>. QED
  BY <1>3, <1>4 DEF StreamIInv

(* Appending checks for room first and puts the new bytes last.            *)
LEMMA StreamSteps == StreamIInv /\ [StreamNext]_streamVars => StreamIInv'
<1> SUFFICES ASSUME StreamIInv, [StreamNext]_streamVars PROVE StreamIInv'
  OBVIOUS
<1>0. /\ GMaxBytes \in Nat /\ gdata \in Seq(Nat) /\ Len(gdata) \in Nat
      /\ ggave \in Nat /\ Len(gdata) <= ggave
  BY StreamConstants DEF StreamIInv, StreamSizes
<1>1. ASSUME NEW n \in GChunks, StreamAppend(n) PROVE StreamIInv'
  <2>1. n \in Nat
    BY StreamConstants
  <2>2. PICK new \in Seq(Nat) : new = BytesFrom(ggave, n)
    BY <1>0, <2>1, BytesInRow
  <2>3. Len(new) = n /\ \A i \in 1 .. n : new[i] = ggave + i
    BY <1>0, <2>1, <2>2, BytesInRow
  <2>. QED
    BY <1>1, <2>2, <2>3, StreamGrows DEF StreamAppend
<1>2. ASSUME NEW n \in GChunks, StreamReserve(n) PROVE StreamIInv'
  <2>1. n \in Nat
    BY StreamConstants
  <2>2. PICK new : new = [i \in 1 .. n |-> Hole]
    OBVIOUS
  <2>3. new \in Seq(Nat) /\ Len(new) = n /\ \A i \in 1 .. n : new[i] = Hole
    BY <2>1, <2>2 DEF Hole
  <2>. QED
    BY <1>2, <2>2, <2>3, StreamGrows DEF StreamReserve
<1>3. ASSUME NEW n \in GChunks, NEW at \in 0 .. GMaxBytes, StreamFill(at, n) PROVE StreamIInv'
  <2>1. n \in Nat /\ at \in Nat
    BY <1>0, StreamConstants
  <2>2. gdata' = [i \in 1 .. Len(gdata) |-> IF i \in at + 1 .. at + n THEN ggave - Len(gdata) + i ELSE gdata[i]]
    BY <1>0, <1>3 DEF StreamFill
  <2>3. ASSUME NEW i \in 1 .. Len(gdata)
        PROVE  /\ gdata'[i] = gdata[i] \/ gdata'[i] = ggave - Len(gdata) + i
               /\ gdata'[i] \in Nat
    BY <1>0, <2>2
  <2>4. gdata' \in [1 .. Len(gdata) -> Nat]
    BY <2>2, <2>3
  <2>5. gdata' \in Seq(Nat) /\ Len(gdata') = Len(gdata)
    BY <1>0, <2>4
  <2>6. UNCHANGED <<gsize, galloc, ggave>>
    BY <1>3 DEF StreamFill
  <2>7. StreamSizes'
    BY <2>5, <2>6 DEF StreamIInv, StreamSizes
  <2>8. StreamPlaces'
    BY <2>3, <2>5, <2>6 DEF StreamIInv, StreamPlaces
  <2>. QED
    BY <2>7, <2>8 DEF StreamIInv
<1>4. CASE StreamClear
  <2>1. gdata' = <<>> /\ Len(gdata') = 0 /\ UNCHANGED <<gsize, galloc, ggave>>
    BY <1>4 DEF StreamClear
  <2>2. StreamSizes' /\ StreamPlaces'
    BY <1>0, <2>1 DEF StreamIInv, StreamSizes, StreamPlaces
  <2>. QED
    BY <2>2 DEF StreamIInv
<1>5. CASE UNCHANGED streamVars
  BY <1>5 DEF streamVars, StreamIInv, StreamSizes, StreamPlaces
<1>. QED
  BY <1>1, <1>2, <1>3, <1>4, <1>5 DEF StreamNext

(* What ecstream_buffer shows is what was appended.                        *)
LEMMA StreamFollows == StreamIInv => StreamHolds
<1> SUFFICES ASSUME StreamIInv PROVE StreamHolds
  OBVIOUS
<1>1. Len(gdata) < galloc
  BY DEF StreamIInv, StreamSizes
<1>2. DOMAIN gdata = 1 .. Len(gdata)
  BY DEF StreamIInv, StreamSizes
<1>. QED
  BY <1>1, <1>2 DEF StreamIInv, StreamPlaces, StreamHolds

-----------------------------------------------------------------------------
(* Sequences of bytes and their concatenation, for steps that need no more *)
(* of them than the lemmas about them say.                                 *)
Bytes == Seq(Nat)
Cat(s, t) == s \o t
Front1(s, k) == SubSeq(s, 1, k)
Rest1(s, k) == SubSeq(s, k + 1, Len(s))

(* The length of two pieces.                                               *)
LEMMA CatBytes == ASSUME NEW s \in Bytes, NEW t \in Bytes PROVE Cat(s, t) \in Bytes /\ Len(Cat(s, t)) = Len(s) + Len(t)
BY ConcatProperties DEF Bytes, Cat

(* Three pieces are joined in either order.                                *)
LEMMA CatAssociates ==
  ASSUME NEW s \in Bytes, NEW t \in Bytes, NEW u \in Bytes
  PROVE  Cat(Cat(s, t), u) = Cat(s, Cat(t, u))
BY ConcatAssociative DEF Bytes, Cat

(* Joining nothing.                                                        *)
LEMMA CatNothing == ASSUME NEW s \in Bytes PROVE Cat(s, <<>>) = s /\ Cat(<<>>, s) = s
BY ConcatEmptySeq DEF Bytes, Cat

(* Bytes have a length.                                                    *)
LEMMA BytesHave == ASSUME NEW s \in Bytes PROVE Len(s) \in Nat
BY DEF Bytes

(* No bytes at all.                                                        *)
LEMMA NoBytes == <<>> \in Bytes /\ Len(<<>>) = 0 /\ BytesFrom(0, 0) = <<>>
BY BytesInRow, EmptySeq DEF Bytes

(* What is cut in two is whole again when joined.                          *)
LEMMA CatCut ==
  ASSUME NEW s \in Bytes, NEW k \in 0 .. Len(s)
  PROVE  /\ Front1(s, k) \in Bytes /\ Len(Front1(s, k)) = k
         /\ Rest1(s, k) \in Bytes /\ Len(Rest1(s, k)) = Len(s) - k
         /\ Cat(Front1(s, k), Rest1(s, k)) = s
BY CutInTwo DEF Bytes, Cat, Front1, Rest1

(* Bytes in a row from the first one on.                                   *)
LEMMA CatRow ==
  ASSUME NEW a \in Nat, NEW n \in Nat
  PROVE  /\ BytesFrom(a, n) \in Bytes /\ Len(BytesFrom(a, n)) = n
         /\ Cat(BytesFrom(0, a), BytesFrom(a, n)) = BytesFrom(0, a + n)
<1>1. PICK z \in Nat : z = 0
  OBVIOUS
<1>2. BytesFrom(z, a) \o BytesFrom(z + a, n) = BytesFrom(z, a + n)
  BY BytesGoOn
<1>3. z + a = a
  BY <1>1
<1>. QED
  BY <1>1, <1>2, <1>3, BytesInRow DEF Bytes, Cat

(* What goes from one sequence to the one before it keeps its place.       *)
LEMMA MovedAlong ==
  ASSUME NEW s \in Bytes, NEW d \in Bytes, NEW e \in Bytes,
         NEW a \in Bytes, NEW b \in Bytes, Cat(a, b) = Cat(d, e)
  PROVE  Cat(s, a) \in Bytes /\ Cat(Cat(s, a), b) = Cat(Cat(s, d), e)
<1>1. Cat(s, a) \in Bytes
  BY CatBytes
<1>2. Cat(Cat(s, a), b) = Cat(s, Cat(a, b))
  BY CatAssociates
<1>3. Cat(Cat(s, d), e) = Cat(s, Cat(d, e))
  BY CatAssociates
<1>. QED
  BY <1>1, <1>2, <1>3

(* How much of n bytes full buffers take, so that no more than a buffer is *)
(* left.                                                                   *)
LEMMA FullBuffers ==
  ASSUME NEW n \in Nat, n > GBuffer
  PROVE  ((n - 1) \div GBuffer) * GBuffer \in 0 .. n /\ n - ((n - 1) \div GBuffer) * GBuffer <= GBuffer
<1>1. GBuffer \in Nat /\ GBuffer > 0
  BY StreamConstants
<1>2. PICK q \in Int : q = (n - 1) \div GBuffer
  BY <1>1
<1>3. q * GBuffer <= n - 1 /\ n - 1 < q * GBuffer + GBuffer
  BY <1>1, <1>2
<1>4. q >= 0
  BY <1>1, <1>2
<1>5. q * GBuffer \in Int /\ q * GBuffer >= 0
  BY <1>1, <1>4
<1>. QED
  BY <1>1, <1>2, <1>3, <1>5

-----------------------------------------------------------------------------
(* EcDevStream.                                                            *)
DevIInv ==
  /\ dgave \in Nat /\ dout \in Bytes /\ ddata \in Bytes
  /\ Cat(dout, ddata) = BytesFrom(0, dgave) /\ Len(ddata) <= GBuffer

(* A new stream device has nothing.                                        *)
LEMMA DevStarts == DevInit => DevIInv
<1> SUFFICES ASSUME DevInit PROVE DevIInv
  OBVIOUS
<1>1. Cat(<<>>, <<>>) = <<>>
  BY NoBytes, CatNothing
<1>. QED
  BY <1>1, NoBytes, StreamConstants DEF DevInit, DevIInv

(* A full device gives its bytes away before it takes more.                *)
LEMMA DevSteps == DevIInv /\ [DevNext]_devVars => DevIInv'
<1> SUFFICES ASSUME DevIInv, [DevNext]_devVars PROVE DevIInv'
  OBVIOUS
<1>0. /\ GBuffer \in Nat /\ GBuffer > 0 /\ dgave \in Nat /\ dout \in Bytes /\ ddata \in Bytes
      /\ Cat(dout, ddata) = BytesFrom(0, dgave) /\ Len(ddata) <= GBuffer
  BY StreamConstants DEF DevIInv
<1>1. ASSUME NEW n \in GChunks, DevAppend(n) PROVE DevIInv'
  <2>1. n \in Nat
    BY StreamConstants
  <2>2. PICK new \in Bytes : new = BytesFrom(dgave, n)
    BY <1>0, <2>1, CatRow
  <2>3. PICK all \in Bytes : all = Cat(ddata, new)
    BY <1>0, CatBytes
  <2>4. PICK k \in 0 .. Len(all) :
          /\ k = (IF Len(all) <= GBuffer THEN 0 ELSE (Len(all) - 1) \div GBuffer) * GBuffer
          /\ Len(all) - k <= GBuffer
    <3>1. Len(all) \in Nat
      BY BytesHave
    <3>2. CASE Len(all) <= GBuffer
      <4>1. 0 * GBuffer = 0 /\ 0 \in 0 .. Len(all) /\ Len(all) - 0 <= GBuffer
        BY <1>0, <3>1, <3>2
      <4>. QED
        BY <3>2, <4>1
    <3>3. CASE ~(Len(all) <= GBuffer)
      <4>1. /\ ((Len(all) - 1) \div GBuffer) * GBuffer \in 0 .. Len(all)
            /\ Len(all) - ((Len(all) - 1) \div GBuffer) * GBuffer <= GBuffer
        <5>1. Len(all) > GBuffer
          BY <1>0, <3>1, <3>3
        <5>. QED
          BY <3>1, <5>1, FullBuffers
      <4>. QED
        BY <3>3, <4>1
    <3>. QED
      BY <3>2, <3>3
  <2>5. PICK a \in Bytes : a = Front1(all, k)
    BY CatCut
  <2>6. PICK b \in Bytes : b = Rest1(all, k)
    BY CatCut
  <2>7. Cat(a, b) = Cat(ddata, new) /\ Len(b) = Len(all) - k
    BY <2>3, <2>5, <2>6, CatCut
  <2>8. dout' = Cat(dout, a) /\ ddata' = b /\ dgave' = dgave + n
    BY <1>1, <2>2, <2>3, <2>4, <2>5, <2>6, Zenon DEF DevAppend, Cat, Front1, Rest1
  <2>9. Cat(dout, a) \in Bytes /\ Cat(Cat(dout, a), b) = Cat(Cat(dout, ddata), new)
    BY <1>0, <2>7, MovedAlong
  <2>10. Cat(Cat(dout, ddata), new) = BytesFrom(0, dgave + n)
    BY <1>0, <2>1, <2>2, CatRow
  <2>11. dgave' \in Nat
    BY <1>0, <2>1, <2>8
  <2>12. Len(b) <= GBuffer
    BY <2>4, <2>7
  <2>. QED
    BY <2>8, <2>9, <2>10, <2>11, <2>12 DEF DevIInv
<1>2. CASE DevFlush
  <2>1. dout' = Cat(dout, ddata) /\ ddata' = <<>> /\ dgave' = dgave
    BY <1>2 DEF DevFlush, Cat
  <2>2. Cat(dout, ddata) \in Bytes /\ Cat(Cat(dout, ddata), <<>>) = Cat(dout, ddata)
    BY <1>0, CatBytes, CatNothing
  <2>3. Len(<<>>) <= GBuffer /\ <<>> \in Bytes
    BY <1>0, NoBytes
  <2>. QED
    BY <1>0, <2>1, <2>2, <2>3 DEF DevIInv
<1>3. CASE UNCHANGED devVars
  BY <1>3 DEF devVars, DevIInv
<1>. QED
  BY <1>1, <1>2, <1>3 DEF DevNext

(* Given away and kept are what was appended, in order.                    *)
LEMMA DevFollows == DevIInv => DevKeeps
BY DEF DevIInv, DevKeeps, Cat

-----------------------------------------------------------------------------
(* The smart buffer.                                                       *)
SmartIInv ==
  /\ bgave \in Bytes /\ bout \in Bytes /\ bdata \in Bytes
  /\ Cat(bout, bdata) = bgave /\ Len(bdata) <= GBuffer

(* One round of ecsmartbuffer_append, and the rounds that are made.        *)
Fits(s) == Len(s.rest) <= GBuffer - Len(s.data)
Round(s, keep) ==
  LET room == GBuffer - Len(s.data)
      f == Flushed([out |-> s.out, data |-> s.data \o SubSeq(s.rest, 1, room)], keep)
  IN  IF Len(s.rest) <= room THEN s
      ELSE [out |-> f.out, data |-> f.data, rest |-> SubSeq(s.rest, room + 1, Len(s.rest))]
Rounds(run, start, n, keep) ==
  run = [k \in 0 .. n |-> IF k = 0 THEN start ELSE Round(run[k - 1], keep)]
Halves == [out : Bytes, data : {d \in Bytes : Len(d) <= GBuffer}, rest : Bytes]
Whole(s) == Cat(Cat(s.out, s.data), s.rest)

(* The rounds of the copying loop, by their states.                        *)
LEMMA SmartAppends ==
  ASSUME NEW n, NEW keep, SmartAppend(n, keep)
  PROVE  LET new == BytesFrom(Len(bgave), n)
             start == [out |-> bout, data |-> bdata, rest |-> new]
             last == (CHOOSE run : Rounds(run, start, n, keep))[n]
         IN  /\ keep < GBuffer /\ bgave' = Cat(bgave, new)
             /\ bout' = last.out /\ bdata' = Cat(last.data, last.rest)
BY DEF SmartAppend, Rounds, Round, Flushed, Cat

(* A round moves bytes along and loses none; what does not fit leaves the  *)
(* buffer with what is kept.                                               *)
LEMMA RoundMoves ==
  ASSUME NEW s \in Halves, NEW keep \in Nat, keep < GBuffer, ~Fits(s)
  PROVE  /\ Round(s, keep) \in Halves /\ Whole(Round(s, keep)) = Whole(s)
         /\ Len(Round(s, keep).data) = keep
         /\ Len(Round(s, keep).rest) = Len(s.rest) - (GBuffer - Len(s.data))
<1>1. GBuffer \in Nat /\ keep \in Nat
  BY StreamConstants
<1>2. s.out \in Bytes /\ s.data \in Bytes /\ Len(s.data) <= GBuffer /\ s.rest \in Bytes
  BY DEF Halves
<1>3. Len(s.data) \in Nat /\ Len(s.rest) \in Nat
  BY <1>2, BytesHave
<1>4. PICK room \in 0 .. Len(s.rest) : room = GBuffer - Len(s.data)
  <2>1. ~(Len(s.rest) <= GBuffer - Len(s.data))
    BY DEF Fits
  <2>2. PICK i \in Nat : i = Len(s.data)
    BY <1>3
  <2>3. PICK j \in Nat : j = Len(s.rest)
    BY <1>3
  <2>4. i <= GBuffer /\ ~(j <= GBuffer - i)
    BY <1>2, <2>1, <2>2, <2>3
  <2>5. GBuffer - i \in 0 .. j
    BY <1>1, <2>4
  <2>. QED
    BY <2>2, <2>3, <2>5
<1>5. PICK a \in Bytes : a = Front1(s.rest, room)
  BY <1>2, CatCut
<1>6. PICK b \in Bytes : b = Rest1(s.rest, room)
  BY <1>2, CatCut
<1>7. Cat(a, b) = s.rest /\ Len(a) = room /\ Len(b) = Len(s.rest) - room
  BY <1>2, <1>5, <1>6, CatCut
<1>8. PICK full \in Bytes : full = Cat(s.data, a) /\ Len(full) = GBuffer
  <2>1. Cat(s.data, a) \in Bytes /\ Len(Cat(s.data, a)) = Len(s.data) + Len(a)
    BY <1>2, CatBytes
  <2>2. Len(s.data) + Len(a) = GBuffer
    BY <1>1, <1>3, <1>4, <1>7
  <2>. QED
    BY <2>1, <2>2
<1>9. PICK cut \in 0 .. Len(full) : cut = Len(full) - keep
  BY <1>1, <1>8
<1>10. PICK c \in Bytes : c = Front1(full, cut)
  BY CatCut
<1>11. PICK d \in Bytes : d = Rest1(full, cut)
  BY CatCut
<1>12. Cat(c, d) = full /\ Len(d) = Len(full) - cut
  BY <1>10, <1>11, CatCut
<1>13. Len(d) = keep
  BY <1>1, <1>8, <1>9, <1>12
<1>14. Round(s, keep) = [out |-> Cat(s.out, c), data |-> d, rest |-> b]
  <2>1. ~(Len(s.rest) <= GBuffer - Len(s.data))
    BY DEF Fits
  <2>2. Flushed([out |-> s.out, data |-> full], keep) = [out |-> Cat(s.out, c), data |-> d]
    BY <1>9, <1>10, <1>11 DEF Flushed, Cat, Front1, Rest1
  <2>3. s.data \o SubSeq(s.rest, 1, GBuffer - Len(s.data)) = full
    BY <1>4, <1>5, <1>8, Zenon DEF Cat, Front1
  <2>4. SubSeq(s.rest, (GBuffer - Len(s.data)) + 1, Len(s.rest)) = b
    BY <1>4, <1>6, Zenon DEF Rest1
  <2>5. Round(s, keep) =
          [out |-> Flushed([out |-> s.out, data |-> full], keep).out,
           data |-> Flushed([out |-> s.out, data |-> full], keep).data,
           rest |-> b]
    BY <2>1, <2>3, <2>4, Zenon DEF Round
  <2>. QED
    BY <2>2, <2>5
<1>15. Cat(s.out, c) \in Bytes /\ Cat(Cat(s.out, c), d) = Cat(s.out, full)
  <2>1. Cat(s.out, c) \in Bytes
    BY <1>2, CatBytes
  <2>2. Cat(Cat(s.out, c), d) = Cat(s.out, Cat(c, d))
    BY <1>2, CatAssociates
  <2>. QED
    BY <1>12, <2>1, <2>2
<1>16. Round(s, keep) \in Halves
  <2>1. Len(d) <= GBuffer
    BY <1>1, <1>13
  <2>. QED
    BY <1>14, <1>15, <2>1 DEF Halves
<1>17. Cat(Cat(s.out, full), b) = Cat(Cat(s.out, s.data), s.rest)
  <2>1. Cat(s.out, full) = Cat(Cat(s.out, s.data), a)
    BY <1>2, <1>8, CatAssociates
  <2>2. Cat(s.out, s.data) \in Bytes
    BY <1>2, CatBytes
  <2>3. Cat(Cat(Cat(s.out, s.data), a), b) = Cat(Cat(s.out, s.data), Cat(a, b))
    BY <2>2, CatAssociates
  <2>. QED
    BY <1>7, <2>1, <2>3
<1>. QED
  BY <1>4, <1>7, <1>13, <1>14, <1>15, <1>16, <1>17 DEF Whole

(* After the rounds the rest fits: each round but the first one takes a    *)
(* byte at least.                                                          *)
LEMMA RoundsFit ==
  ASSUME NEW start \in Halves, NEW n \in Nat, n > 0, Len(start.rest) = n, NEW keep \in Nat, keep < GBuffer
  PROVE  \E last \in Halves :
           /\ last = (CHOOSE run : Rounds(run, start, n, keep))[n]
           /\ Whole(last) = Whole(start) /\ Fits(last)
<1> DEFINE F == [s \in Halves |-> [k \in Nat |-> Round(s, keep)]]
<1>0. GBuffer \in Nat /\ keep \in Nat
  BY StreamConstants
<1>1. ASSUME NEW s \in Halves PROVE Round(s, keep) \in Halves
  <2>1. CASE Fits(s)
    BY <2>1 DEF Fits, Round
  <2>2. CASE ~Fits(s)
    BY <2>2, RoundMoves
  <2>. QED
    BY <2>1, <2>2
<1>2. \A s \in Halves, k \in Nat : F[s][k] = Round(s, keep)
  OBVIOUS
<1> HIDE DEF F
<1>3. PICK f : Iterates(f, F, Halves, start, n)
  <2>1. \A k \in 1 .. n : k \in Nat
    OBVIOUS
  <2>2. Moves(F, Halves, n)
    BY <1>1, <1>2, <2>1 DEF Moves
  <2>. QED
    BY <2>2, Iterated
<1>4. Rounds(f, start, n, keep)
  <2>1. ASSUME NEW k \in 0 .. n PROVE f[k] = IF k = 0 THEN start ELSE Round(f[k - 1], keep)
    <3>0. /\ f \in [0 .. n -> Halves] /\ f[0] = start
          /\ \A i \in 1 .. n : f[i] = F[f[i - 1]][i]
      BY <1>3 DEF Iterates
    <3>1. CASE k = 0
      BY <3>0, <3>1
    <3>2. CASE k # 0
      <4>1. k \in 1 .. n /\ k \in Nat /\ k - 1 \in 0 .. n
        BY <3>2
      <4>2. f[k - 1] \in Halves
        BY <3>0, <4>1
      <4>. QED
        BY <1>2, <3>0, <3>2, <4>1, <4>2
    <3>. QED
      BY <3>1, <3>2
  <2>2. f = [k \in 0 .. n |-> f[k]]
    BY <1>3 DEF Iterates
  <2>. QED
    BY <2>1, <2>2 DEF Rounds
<1>5. PICK run : run = (CHOOSE r : Rounds(r, start, n, keep)) /\ Rounds(run, start, n, keep)
  BY <1>4
<1>6. /\ run[0] = start
      /\ \A k \in 0 .. n - 1 : run[k + 1] = Round(run[k], keep)
  <2>1. \A k \in 0 .. n : run[k] = IF k = 0 THEN start ELSE Round(run[k - 1], keep)
    BY <1>5 DEF Rounds
  <2>2. 0 \in 0 .. n
    OBVIOUS
  <2>3. ASSUME NEW k \in 0 .. n - 1 PROVE run[k + 1] = Round(run[k], keep)
    <3>1. k + 1 \in 0 .. n /\ k + 1 # 0 /\ (k + 1) - 1 = k
      OBVIOUS
    <3>. QED
      BY <2>1, <3>1
  <2>. QED
    BY <2>1, <2>2, <2>3
<1> DEFINE Now(k) == /\ run[k] \in Halves /\ Whole(run[k]) = Whole(start)
                     /\ Fits(run[k]) \/ Len(run[k].rest) <= n
                     /\ k > 0 => Fits(run[k]) \/ (Len(run[k].data) = keep /\ Len(run[k].rest) <= n - k + 1)
           S == {k \in 0 .. n : Now(k)}
<1>7. 0 \in S
  BY <1>6
<1>8. ASSUME NEW k \in 0 .. n - 1, k \in S PROVE k + 1 \in S
  <2>1. Now(k) /\ k \in Nat /\ k + 1 \in 0 .. n
    BY <1>8
  <2>2. PICK s \in Halves : s = run[k]
    BY <2>1
  <2>3. run[k + 1] = Round(s, keep)
    BY <1>6, <2>2
  <2>4. CASE Fits(s)
    <3>1. Round(s, keep) = s
      BY <2>4 DEF Fits, Round
    <3>2. Now(k + 1)
      BY <2>1, <2>2, <2>3, <2>4, <3>1
    <3>. QED
      BY <2>1, <3>2
  <2>5. CASE ~Fits(s)
    <3>1. /\ Round(s, keep) \in Halves /\ Whole(Round(s, keep)) = Whole(s)
          /\ Len(Round(s, keep).data) = keep
          /\ Len(Round(s, keep).rest) = Len(s.rest) - (GBuffer - Len(s.data))
      BY <2>5, RoundMoves
    <3>2. Len(s.data) \in Nat /\ Len(s.rest) \in Nat /\ Len(s.data) <= GBuffer
      BY BytesHave DEF Halves
    <3>3. Len(s.rest) <= n /\ (k > 0 => Len(s.data) = keep /\ Len(s.rest) <= n - k + 1)
      BY <2>1, <2>2, <2>5
    <3>4. PICK r \in Halves : r = Round(s, keep)
      BY <3>1
    <3>5. Len(r.rest) <= n - (k + 1) + 1 /\ Len(r.rest) <= n
      <4>1. k \in Nat /\ Len(r.rest) = Len(s.rest) - (GBuffer - Len(s.data))
        BY <2>1, <3>1, <3>4
      <4>2. PICK i \in Nat : i = Len(s.data)
        BY <3>2
      <4>3. PICK j \in Nat : j = Len(s.rest)
        BY <3>2
      <4>4. i <= GBuffer /\ j <= n /\ (k > 0 => i = keep /\ j <= n - k + 1)
        BY <3>2, <3>3, <4>2, <4>3
      <4>5. j - (GBuffer - i) <= n - (k + 1) + 1 /\ j - (GBuffer - i) <= n
        BY <1>0, <4>1, <4>4
      <4>. QED
        BY <4>1, <4>2, <4>3, <4>5
    <3>6. r \in Halves /\ Whole(r) = Whole(start) /\ Len(r.data) = keep
      BY <2>1, <2>2, <3>1, <3>4
    <3>7. Now(k + 1)
      BY <2>3, <3>4, <3>5, <3>6
    <3>. QED
      BY <2>1, <3>7
  <2>. QED
    BY <2>4, <2>5
<1>9. Now(n)
  <2>1. \A k \in 0 .. n - 1 : k \in S => k + 1 \in S
    BY <1>8
  <2>2. n \in 0 .. n
    OBVIOUS
  <2>3. n \in S
    <3> HIDE DEF S
    <3> QED
      BY <1>7, <2>1, <2>2, Inductive
  <2>. QED
    BY <2>3
<1>10. Fits(run[n])
  <2>1. CASE ~Fits(run[n])
    <3>1. Len(run[n].data) = keep /\ Len(run[n].rest) <= 1
      BY <1>9, <2>1
    <3>2. Len(run[n].rest) \in Nat
      BY <1>9, BytesHave DEF Halves
    <3>. QED
      BY <1>0, <3>1, <3>2 DEF Fits
  <2>. QED
    BY <2>1
<1>. QED
  BY <1>5, <1>9, <1>10

(* The front of what two sequences make.                                   *)
LEMMA FrontOfCat ==
  ASSUME NEW s \in Bytes, NEW t \in Bytes
  PROVE  Front1(Cat(s, t), Len(s)) = s
<1>1. s \in Seq(Nat) /\ Len(s) \in Nat /\ t \in Seq(Nat) /\ Len(t) \in Nat
  BY DEF Bytes
<1>2. PICK u \in Seq(Nat) : u = s \o t
  BY <1>1, ConcatProperties
<1>3. Len(u) = Len(s) + Len(t) /\ \A i \in 1 .. Len(s) : u[i] = s[i]
  <2>1. \A i \in 1 .. Len(s) + Len(t) : u[i] = IF i <= Len(s) THEN s[i] ELSE t[i - Len(s)]
    BY <1>1, <1>2, ConcatProperties
  <2>2. Len(u) = Len(s) + Len(t)
    BY <1>1, <1>2, ConcatProperties
  <2>3. ASSUME NEW i \in 1 .. Len(s) PROVE i \in 1 .. Len(s) + Len(t) /\ i <= Len(s)
    BY <1>1
  <2>. QED
    BY <2>1, <2>2, <2>3
<1>4. PICK k \in Nat : k = Len(s)
  BY <1>1
<1>5. PICK v : v = SubSeq(u, 1, k)
  OBVIOUS
<1>6. /\ v \in Seq(Nat) /\ Len(v) = IF 1 <= k THEN k - 1 + 1 ELSE 0
      /\ \A i \in 1 .. k - 1 + 1 : v[i] = u[1 + i - 1]
  <2>1. 1 \in Int /\ k \in Int /\ \A i \in 1 .. k : u[i] \in Nat
    BY <1>1, <1>3, <1>4
  <2>. QED
    BY <2>1, <1>5, SubSeqProperties
<1>7. Len(v) = Len(s) /\ \A i \in 1 .. Len(v) : v[i] = s[i]
  <2>1. Len(v) = k
    BY <1>6
  <2>2. ASSUME NEW i \in 1 .. k PROVE v[i] = s[i]
    <3>1. i \in 1 .. k - 1 + 1 /\ 1 + i - 1 = i
      OBVIOUS
    <3>. QED
      BY <3>1, <1>3, <1>4, <1>6
  <2>. QED
    BY <1>4, <2>1, <2>2
<1>8. v = s
  BY <1>1, <1>6, <1>7, SeqEqual
<1>. QED
  BY <1>2, <1>4, <1>5, <1>8 DEF Front1, Cat

(* The front of two pieces that ends in the second.                        *)
LEMMA FrontCut ==
  ASSUME NEW s \in Bytes, NEW t \in Bytes, NEW k \in 0 .. Len(t)
  PROVE  Cat(s, Front1(t, k)) \in Bytes /\ Front1(Cat(s, t), Len(s) + k) = Cat(s, Front1(t, k))
<1>1. PICK a \in Bytes : a = Front1(t, k)
  BY CatCut
<1>2. PICK b \in Bytes : b = Rest1(t, k)
  BY CatCut
<1>3. Cat(a, b) = t /\ Len(a) = k
  BY <1>1, <1>2, CatCut
<1>4. PICK c \in Bytes : c = Cat(s, a) /\ Len(c) = Len(s) + Len(a)
  BY CatBytes
<1>5. Cat(s, t) = Cat(c, b)
  BY <1>3, <1>4, CatAssociates
<1>6. Front1(Cat(c, b), Len(c)) = c
  BY FrontOfCat
<1>. QED
  BY <1>1, <1>3, <1>4, <1>5, <1>6

(* A new smart stream has nothing.                                         *)
LEMMA SmartStarts == SmartInit => SmartIInv
<1> SUFFICES ASSUME SmartInit PROVE SmartIInv
  OBVIOUS
<1>1. Cat(<<>>, <<>>) = <<>>
  BY NoBytes, CatNothing
<1>. QED
  BY <1>1, NoBytes, StreamConstants DEF SmartInit, SmartIInv

(* Every append, reserve and flush keeps the bytes and their order.        *)
LEMMA SmartSteps == SmartIInv /\ [SmartNext]_smartVars => SmartIInv'
<1> SUFFICES ASSUME SmartIInv, [SmartNext]_smartVars PROVE SmartIInv'
  OBVIOUS
<1>0. /\ GBuffer \in Nat /\ GBuffer > 0 /\ bgave \in Bytes /\ bout \in Bytes /\ bdata \in Bytes
      /\ Cat(bout, bdata) = bgave /\ Len(bdata) <= GBuffer
      /\ Len(bgave) \in Nat /\ Len(bout) \in Nat /\ Len(bdata) \in Nat
      /\ Len(bgave) = Len(bout) + Len(bdata)
  BY StreamConstants, BytesHave, CatBytes DEF SmartIInv
<1>1. ASSUME NEW n \in GChunks, NEW keep \in {0} \cup GChunks, SmartAppend(n, keep) PROVE SmartIInv'
  <2>1. n \in Nat /\ n > 0 /\ keep \in Nat
    BY StreamConstants
  <2>2. PICK new \in Bytes : new = BytesFrom(Len(bgave), n) /\ Len(new) = n
    BY <1>0, <2>1, CatRow
  <2>3. PICK start : start = [out |-> bout, data |-> bdata, rest |-> new]
    OBVIOUS
  <2>4. start \in Halves /\ Whole(start) = Cat(bgave, new) /\ Len(start.rest) = n
    BY <1>0, <2>2, <2>3 DEF Halves, Whole
  <2>5. PICK run : run = CHOOSE r : Rounds(r, start, n, keep)
    OBVIOUS
  <2>6. keep < GBuffer /\ bgave' = Cat(bgave, new) /\ bout' = run[n].out /\ bdata' = Cat(run[n].data, run[n].rest)
    BY <1>1, <2>2, <2>3, <2>5, SmartAppends, Zenon
  <2>7. PICK last \in Halves : last = run[n] /\ Whole(last) = Whole(start) /\ Fits(last)
    BY <2>1, <2>4, <2>5, <2>6, RoundsFit
  <2>8. last.out \in Bytes /\ last.data \in Bytes /\ last.rest \in Bytes
    BY DEF Halves
  <2>9. Cat(last.data, last.rest) \in Bytes /\ Len(Cat(last.data, last.rest)) <= GBuffer
    <3>1. /\ Cat(last.data, last.rest) \in Bytes
          /\ Len(Cat(last.data, last.rest)) = Len(last.data) + Len(last.rest)
      BY <2>8, CatBytes
    <3>2. Len(last.data) \in Nat /\ Len(last.rest) \in Nat
      BY <2>8, BytesHave
    <3>3. PICK i \in Nat : i = Len(last.data)
      BY <3>2
    <3>4. PICK j \in Nat : j = Len(last.rest)
      BY <3>2
    <3>5. j <= GBuffer - i
      BY <2>7, <3>3, <3>4 DEF Fits
    <3>6. i + j <= GBuffer
      BY <1>0, <3>5
    <3>. QED
      BY <3>1, <3>3, <3>4, <3>6
  <2>10. Cat(last.out, Cat(last.data, last.rest)) = Cat(bgave, new)
    BY <2>4, <2>7, <2>8, CatAssociates DEF Whole
  <2>11. Cat(bgave, new) \in Bytes
    BY <1>0, CatBytes
  <2>. QED
    BY <2>6, <2>7, <2>8, <2>9, <2>10, <2>11 DEF SmartIInv
<1>2. CASE SmartFlush(0)
  <2>1. PICK k \in 0 .. Len(bdata) : k = Len(bdata)
    BY <1>0
  <2>2. k - 0 = k /\ k - 0 + 1 = k + 1
    BY <2>1
  <2>3. bout' = Cat(bout, Front1(bdata, k)) /\ bdata' = Rest1(bdata, k) /\ bgave' = bgave
    BY <1>2, <2>1, <2>2 DEF SmartFlush, Flushed, Cat, Front1, Rest1
  <2>4. PICK a \in Bytes : a = Front1(bdata, k)
    BY <1>0, CatCut
  <2>5. PICK b \in Bytes : b = Rest1(bdata, k)
    BY <1>0, CatCut
  <2>6. Cat(a, b) = bdata /\ Len(b) = Len(bdata) - k
    BY <1>0, <2>4, <2>5, CatCut
  <2>7. Cat(bout, a) \in Bytes /\ Cat(Cat(bout, a), b) = Cat(bout, Cat(a, b))
    BY <1>0, CatBytes, CatAssociates
  <2>8. Len(b) <= GBuffer
    BY <1>0, <2>1, <2>6
  <2>. QED
    BY <1>0, <2>3, <2>4, <2>5, <2>6, <2>7, <2>8 DEF SmartIInv
<1>3. ASSUME NEW n \in GChunks, SmartReduce(n) PROVE SmartIInv'
  <2>1. n \in Nat
    BY StreamConstants
  <2>2. PICK k \in 0 .. Len(bdata) : k = Len(bdata) - n
    BY <1>0, <1>3, <2>1 DEF SmartReduce
  <2>3. Len(bgave) - n = Len(bout) + k /\ k <= GBuffer
    BY <1>0, <2>1, <2>2
  <2>4. bdata' = Front1(bdata, k) /\ bgave' = Front1(bgave, Len(bout) + k) /\ bout' = bout
    BY <1>3, <2>2, <2>3 DEF SmartReduce, Front1
  <2>5. Cat(bout, Front1(bdata, k)) \in Bytes /\ Front1(bgave, Len(bout) + k) = Cat(bout, Front1(bdata, k))
    BY <1>0, FrontCut
  <2>6. Front1(bdata, k) \in Bytes /\ Len(Front1(bdata, k)) = k
    BY <1>0, CatCut
  <2>. QED
    BY <1>0, <2>3, <2>4, <2>5, <2>6 DEF SmartIInv
<1>4. CASE UNCHANGED smartVars
  BY <1>4 DEF smartVars, SmartIInv
<1>. QED
  BY <1>1, <1>2, <1>3, <1>4 DEF SmartNext

(* Given away and kept are what was appended, in order.                    *)
LEMMA SmartFollows == SmartIInv => SmartKeeps
BY DEF SmartIInv, SmartKeeps, Cat

-----------------------------------------------------------------------------
(* The read buffer.                                                        *)
ReadIInv ==
  /\ rfile \in Nat /\ rread \in Nat /\ rread <= rfile
  /\ rgiven \in Nat /\ rgiven <= rread /\ rread - rgiven <= GBuffer
  /\ rwin = BytesFrom(rgiven, rread - rgiven)

(* A read returns at most what was asked for, and what there is.           *)
LEMMA BunchesFit ==
  ASSUME NEW n \in Nat, ReadIInv, NEW res \in Bunches(n)
  PROVE  res \in Nat /\ res <= n /\ rread + res <= rfile
BY DEF ReadIInv, Bunches, Smaller

(* A window and what is read behind it are one window.                     *)
LEMMA RowGoesOn ==
  ASSUME NEW a \in Nat, NEW n \in Nat, n >= a, NEW m \in Nat
  PROVE  BytesFrom(a, n - a) \o BytesFrom(n, m) = BytesFrom(a, n + m - a)
<1>1. PICK k \in Nat : k = n - a
  OBVIOUS
<1>2. BytesFrom(a, k) \o BytesFrom(a + k, m) = BytesFrom(a, k + m)
  BY BytesGoOn
<1>3. a + k = n /\ k + m = n + m - a
  BY <1>1
<1>. QED
  BY <1>1, <1>2, <1>3

(* A window without its first byte.                                        *)
LEMMA TailOfRow ==
  ASSUME NEW a \in Nat, NEW n \in Nat, BytesFrom(a, n) # <<>>
  PROVE  n > 0 /\ Tail(BytesFrom(a, n)) = BytesFrom(a + 1, n - 1)
<1>1. PICK s \in Seq(Nat) : s = BytesFrom(a, n)
  BY BytesInRow
<1>2. Len(s) = n /\ \A i \in 1 .. n : s[i] = a + i
  BY <1>1, BytesInRow
<1>3. Len(s) > 0
  BY <1>1, EmptySeq
<1>4. a + 1 \in Nat /\ n - 1 \in Nat /\ n > 0
  BY <1>2, <1>3
<1>5. PICK t \in Seq(Nat) : t = BytesFrom(a + 1, n - 1)
  BY <1>4, BytesInRow
<1>6. Len(t) = n - 1 /\ \A i \in 1 .. n - 1 : t[i] = a + 1 + i
  BY <1>4, <1>5, BytesInRow
<1>7. PICK u \in Seq(Nat) : u = Tail(s) /\ Len(u) = n - 1 /\ \A i \in 1 .. n - 1 : u[i] = s[i + 1]
  <2>1. s # <<>>
    BY <1>1
  <2>2. /\ Tail(s) \in Seq(Nat) /\ Len(Tail(s)) = Len(s) - 1
        /\ \A i \in 1 .. Len(Tail(s)) : Tail(s)[i] = s[i + 1]
    BY <2>1, HeadTailProperties
  <2>3. PICK u : u = Tail(s)
    OBVIOUS
  <2>4. u \in Seq(Nat) /\ Len(u) = n - 1 /\ \A i \in 1 .. n - 1 : u[i] = s[i + 1]
    BY <1>2, <2>2, <2>3
  <2>. QED
    BY <2>3, <2>4
<1>8. ASSUME NEW i \in 1 .. n - 1 PROVE u[i] = t[i]
  <2>1. i + 1 \in 1 .. n /\ a + (i + 1) = a + 1 + i
    BY <1>4
  <2>2. s[i + 1] = a + (i + 1)
    BY <1>2, <2>1
  <2>. QED
    BY <1>6, <1>7, <2>1, <2>2
<1>9. u = t
  BY <1>6, <1>7, <1>8, SeqEqual
<1>. QED
  BY <1>1, <1>4, <1>5, <1>7, <1>9

(* Nothing is read at first.                                               *)
LEMMA ReadStarts == ReadInit => ReadIInv
<1> SUFFICES ASSUME ReadInit PROVE ReadIInv
  OBVIOUS
<1>1. rfile \in Nat /\ rread = 0 /\ rgiven = 0 /\ rwin = <<>> /\ GBuffer \in Nat
  BY StreamConstants DEF ReadInit
<1>2. 0 - 0 = 0
  OBVIOUS
<1>. QED
  BY <1>1, <1>2, NoBytes DEF ReadIInv

(* Giving a byte and reading more keep the window.                         *)
LEMMA ReadSteps == ReadIInv /\ [ReadStepNext]_readVars => ReadIInv'
<1> SUFFICES ASSUME ReadIInv, [ReadStepNext]_readVars PROVE ReadIInv'
  OBVIOUS
<1>0. /\ rfile \in Nat /\ rread \in Nat /\ rread <= rfile
      /\ rgiven \in Nat /\ rgiven <= rread /\ rread - rgiven <= GBuffer
      /\ rwin = BytesFrom(rgiven, rread - rgiven) /\ rread - rgiven \in Nat
      /\ Len(rwin) = rread - rgiven /\ GBuffer \in Nat
  <2>1. rread - rgiven \in Nat /\ GBuffer \in Nat
    BY StreamConstants DEF ReadIInv
  <2>2. Len(BytesFrom(rgiven, rread - rgiven)) = rread - rgiven
    BY <2>1, BytesInRow DEF ReadIInv
  <2>. QED
    BY <2>1, <2>2 DEF ReadIInv
<1>1. CASE ReadNextByte
  <2>1. PICK res \in IF rwin = <<>> THEN Bunches(GBuffer) ELSE {0} :
          /\ rwin \o BytesFrom(rread, res) # <<>>
          /\ rwin' = Tail(rwin \o BytesFrom(rread, res))
          /\ rread' = rread + res /\ rgiven' = rgiven + 1 /\ rfile' = rfile
    BY <1>1 DEF ReadNextByte
  <2>2. res \in Nat /\ rread + res <= rfile /\ rread + res - rgiven <= GBuffer
    <3>1. CASE rwin = <<>>
      <4>1. res \in Nat /\ res <= GBuffer /\ rread + res <= rfile
        BY <1>0, <2>1, <3>1, BunchesFit
      <4>2. rread - rgiven = 0
        BY <1>0, <3>1
      <4>. QED
        BY <1>0, <4>1, <4>2
    <3>2. CASE rwin # <<>>
      BY <1>0, <2>1, <3>2
    <3>. QED
      BY <3>1, <3>2
  <2>3. rwin \o BytesFrom(rread, res) = BytesFrom(rgiven, rread + res - rgiven)
    BY <1>0, <2>2, RowGoesOn
  <2>4. PICK n \in Nat : n = rread + res - rgiven
    BY <1>0, <2>2
  <2>5. n > 0 /\ rwin' = BytesFrom(rgiven + 1, n - 1)
    BY <1>0, <2>1, <2>3, <2>4, TailOfRow
  <2>6. n - 1 = rread' - rgiven' /\ rread' \in Nat /\ rgiven' \in Nat /\ rgiven' <= rread' /\ rread' <= rfile'
        /\ rread' - rgiven' <= GBuffer
    BY <1>0, <2>1, <2>2, <2>4, <2>5
  <2>. QED
    BY <1>0, <2>1, <2>5, <2>6 DEF ReadIInv
<1>2. ASSUME NEW n \in GChunks, ReadMore(n) PROVE ReadIInv'
  <2>1. PICK res \in Bunches(GBuffer - Len(rwin)) :
          /\ rwin' = rwin \o BytesFrom(rread, res)
          /\ rread' = rread + res /\ rgiven' = rgiven /\ rfile' = rfile
    BY <1>2 DEF ReadMore
  <2>2. PICK room \in Nat : room = GBuffer - Len(rwin)
    BY <1>0
  <2>3. res \in Nat /\ res <= room /\ rread + res <= rfile
    BY <1>0, <2>1, <2>2, BunchesFit
  <2>4. rwin' = BytesFrom(rgiven, rread + res - rgiven)
    BY <1>0, <2>1, <2>3, RowGoesOn
  <2>5. rread + res \in Nat /\ rgiven <= rread + res /\ rread + res - rgiven <= GBuffer
    BY <1>0, <2>2, <2>3
  <2>. QED
    BY <1>0, <2>1, <2>3, <2>4, <2>5 DEF ReadIInv
<1>3. CASE UNCHANGED readVars
  BY <1>3 DEF readVars, ReadIInv
<1>. QED
  BY <1>1, <1>2, <1>3 DEF ReadStepNext

(* The window has the bytes that come next.                                *)
LEMMA ReadFollows == ReadIInv => ReadKeeps
<1> SUFFICES ASSUME ReadIInv PROVE ReadKeeps
  OBVIOUS
<1>1. rread - rgiven \in Nat
  BY DEF ReadIInv
<1>2. Len(BytesFrom(rgiven, rread - rgiven)) = rread - rgiven
  BY <1>1, BytesInRow DEF ReadIInv
<1>. QED
  BY <1>2 DEF ReadIInv, ReadKeeps

-----------------------------------------------------------------------------
(* Tables of R rows in a segment.                                          *)
Segments(R) == [0 .. TCols * R - 1 -> Nat]
TablesOf(R) ==
  [cols : {TCols}, rows : {R}, fill : Nat, index : Seq(Segments(R) \cup {NoSegment})]
Got(t, s) == s \in 1 .. Len(t.index) /\ t.index[s] # NoSegment
Held(t, row, col) ==   \* what is in a cell, or would be if it were touched
  IF Got(t, SegmentOf(t, row)) THEN t.index[SegmentOf(t, row)][OffsetOf(t, row, col)] ELSE NoValue

(* A cell's row in its segment, and its place.                             *)
LEMMA RowInSegment ==
  ASSUME NEW R \in Nat \ {0}, NEW row \in Nat
  PROVE  row \div R \in Nat /\ row - (row \div R) * R \in 0 .. R - 1
<1>1. PICK q \in Int : q = row \div R
  OBVIOUS
<1>2. q * R <= row /\ row < q * R + R
  BY <1>1
<1>3. q >= 0
  BY <1>1
<1>4. q * R \in Int
  BY <1>1
<1>. QED
  BY <1>1, <1>2, <1>3, <1>4

(* Products grow by a whole factor.                                        *)
LEMMA ProductsGrow ==
  ASSUME NEW a \in Nat, NEW b \in Nat, NEW m \in Nat, a < b
  PROVE  a * m \in Nat /\ b * m \in Nat /\ a * m + m <= b * m
<1>1. PICK d \in Nat : b = a + 1 + d
  <2>1. b - a - 1 \in Nat /\ b = a + 1 + (b - a - 1)
    OBVIOUS
  <2>. QED
    BY <2>1
<1>2. b * m = a * m + m + d * m
  BY <1>1
<1>3. a * m \in Nat /\ b * m \in Nat /\ d * m \in Nat
  OBVIOUS
<1>. QED
  BY <1>2, <1>3

(* Every cell of a segment has a place of its own.                         *)
LEMMA CellPlaces ==
  ASSUME NEW R \in Nat \ {0}, NEW a \in 0 .. R - 1, NEW c \in Columns
  PROVE  /\ a * TCols + c \in 0 .. TCols * R - 1
         /\ \A b \in 0 .. R - 1, d \in Columns : a * TCols + c = b * TCols + d => a = b /\ c = d
<1>0. TCols \in Nat /\ TCols > 0 /\ a \in Nat /\ c \in Nat /\ c < TCols
  BY TableConstants DEF Columns
<1>1. a * TCols \in Nat /\ R * TCols \in Nat /\ a * TCols + TCols <= R * TCols
  BY <1>0, ProductsGrow
<1>2. R * TCols = TCols * R
  BY <1>0
<1>3. a * TCols + c \in 0 .. TCols * R - 1
  <2>1. PICK x \in Nat : x = a * TCols
    BY <1>1
  <2>2. PICK y \in Nat : y = R * TCols
    BY <1>1
  <2>3. x + c \in 0 .. y - 1
    BY <1>0, <1>1, <2>1, <2>2
  <2>. QED
    BY <1>2, <2>1, <2>2, <2>3
<1>4. ASSUME NEW b \in 0 .. R - 1, NEW d \in Columns, a * TCols + c = b * TCols + d
      PROVE  a = b /\ c = d
  <2>0. b \in Nat /\ d \in Nat /\ d < TCols
    BY <1>0 DEF Columns
  <2>1. PICK x \in Nat : x = a * TCols
    BY <1>1
  <2>2. PICK y \in Int : y = b * TCols
    BY <1>0, <2>0
  <2>3. x + c = y + d
    BY <1>4, <2>1, <2>2
  <2>4. CASE a < b
    <3>1. x + TCols <= y
      BY <1>0, <2>0, <2>1, <2>2, <2>4, ProductsGrow
    <3>. QED
      BY <1>0, <2>0, <2>3, <3>1
  <2>5. CASE b < a
    <3>1. y + TCols <= x
      BY <1>0, <2>0, <2>1, <2>2, <2>5, ProductsGrow
    <3>. QED
      BY <1>0, <2>0, <2>3, <3>1
  <2>6. CASE a = b
    <3>1. x = y
      BY <2>1, <2>2, <2>6
    <3>. QED
      BY <1>0, <2>0, <2>3, <2>6, <3>1
  <2>. QED
    BY <1>0, <2>0, <2>4, <2>5, <2>6
<1>. QED
  BY <1>3, <1>4

(* Two cells of a table in R rows are not in one place.                    *)
LEMMA CellsApart ==
  ASSUME NEW R \in Nat \ {0}, NEW t \in TablesOf(R),
         NEW row \in Nat, NEW col \in Columns
  PROVE  /\ SegmentOf(t, row) \in Nat \ {0} /\ OffsetOf(t, row, col) \in 0 .. TCols * R - 1
         /\ \A r \in Nat, c \in Columns :
              SegmentOf(t, row) = SegmentOf(t, r) /\ OffsetOf(t, row, col) = OffsetOf(t, r, c)
                => r = row /\ c = col
<1>0. t.cols = TCols /\ t.rows = R
  BY DEF TablesOf
<1>1. PICK q \in Nat : q = row \div R
  BY RowInSegment
<1>2. PICK a \in 0 .. R - 1 : a = row - q * R
  BY <1>1, RowInSegment
<1>3. SegmentOf(t, row) = 1 + q /\ OffsetOf(t, row, col) = a * TCols + col
  BY <1>0, <1>1, <1>2 DEF SegmentOf, OffsetOf
<1>4. a * TCols + col \in 0 .. TCols * R - 1
  BY CellPlaces
<1>5. ASSUME NEW r \in Nat, NEW c \in Columns,
             SegmentOf(t, row) = SegmentOf(t, r), OffsetOf(t, row, col) = OffsetOf(t, r, c)
      PROVE  r = row /\ c = col
  <2>1. PICK p \in Nat : p = r \div R
    BY RowInSegment
  <2>2. PICK b \in 0 .. R - 1 : b = r - p * R
    BY <2>1, RowInSegment
  <2>3. SegmentOf(t, r) = 1 + p /\ OffsetOf(t, r, c) = b * TCols + c
    BY <1>0, <2>1, <2>2 DEF SegmentOf, OffsetOf
  <2>4. p = q
    BY <1>3, <1>5, <2>3
  <2>5. a = b /\ col = c
    BY <1>3, <1>5, <2>3, CellPlaces
  <2>6. p * R \in Int
    OBVIOUS
  <2>. QED
    BY <1>2, <2>2, <2>4, <2>5, <2>6
<1>. QED
  BY <1>3, <1>4, <1>5

(* A segment that was got is memory for its cells.                         *)
LEMMA SegmentsHave ==
  ASSUME NEW R \in Nat \ {0}
  PROVE  NoSegment \notin Segments(R) /\ [p \in 0 .. TCols * R - 1 |-> NoValue] \in Segments(R)
<1>1. 0 \in 0 .. TCols * R - 1
  <2>1. TCols * R > 0 /\ TCols * R \in Nat
    <3>1. TCols \in Nat /\ TCols > 0 /\ R > 0
      BY TableConstants
    <3>2. PICK z \in Nat : z = 0
      OBVIOUS
    <3>3. z * R + R <= TCols * R /\ z * R = 0 /\ TCols * R \in Nat
      BY <3>1, <3>2, ProductsGrow
    <3>. QED
      BY <3>1, <3>3
  <2>. QED
    BY <2>1
<1>2. NoSegment \notin Segments(R)
  <2>. SUFFICES ASSUME NoSegment \in Segments(R) PROVE FALSE
    OBVIOUS
  <2>1. DOMAIN NoSegment = 0 .. TCols * R - 1
    BY DEF Segments
  <2>2. DOMAIN NoSegment = {}
    BY DEF NoSegment
  <2>. QED
    BY <1>1, <2>1, <2>2
<1>. QED
  BY <1>2 DEF Segments, NoValue

(* Touching allocates a segment and changes no cell.                       *)
LEMMA TouchedKeeps ==
  ASSUME NEW R \in Nat \ {0}, NEW t \in TablesOf(R), NEW row \in Nat,
         NEW u, u = Touched(t, row)
  PROVE  /\ u \in TablesOf(R) /\ u.fill = t.fill
         /\ Got(u, SegmentOf(t, row)) /\ u.index[SegmentOf(t, row)] \in Segments(R)
         /\ \A s \in Nat \ {0} : Got(t, s) => Got(u, s)
         /\ \A r \in Nat, c \in Columns : Held(u, r, c) = Held(t, r, c)
<1>0. /\ t.cols = TCols /\ t.rows = R /\ t.fill \in Nat
      /\ t.index \in Seq(Segments(R) \cup {NoSegment}) /\ Len(t.index) \in Nat
      /\ t = [cols |-> t.cols, rows |-> t.rows, fill |-> t.fill, index |-> t.index]
  BY DEF TablesOf
<1>1. PICK s \in Nat \ {0} : s = SegmentOf(t, row) /\ s = row \div R + 1
  <2>1. row \div R \in Nat
    BY RowInSegment
  <2>. QED
    BY <1>0, <2>1 DEF SegmentOf
<1>2. PICK len \in Nat : len = (IF s <= Len(t.index) THEN Len(t.index) ELSE s) /\ s <= len /\ Len(t.index) <= len
  <2>1. PICK m \in Nat : m = Len(t.index)
    BY <1>0
  <2>2. s \in Nat
    OBVIOUS
  <2>. QED
    BY <2>1, <2>2
<1>3. (row \div R) < Len(t.index) <=> s <= Len(t.index)
  <2>1. row \div R \in Nat
    BY RowInSegment
  <2>. QED
    BY <1>0, <1>1, <2>1
<1> DEFINE segment(i) == IF i <= Len(t.index) THEN t.index[i] ELSE NoSegment
           blank == [p \in 0 .. TCols * R - 1 |-> NoValue]
           index == [i \in 1 .. len |-> IF i = s /\ segment(i) = NoSegment THEN blank ELSE segment(i)]
<1>4. u = [t EXCEPT !.index = index]
  BY <1>0, <1>1, <1>2, <1>3 DEF Touched
<1>5. \A i \in 1 .. len : segment(i) \in Segments(R) \cup {NoSegment}
  BY <1>0
<1>6. blank \in Segments(R) /\ NoSegment \notin Segments(R)
  BY SegmentsHave
<1> HIDE DEF blank, segment
<1>7. \A i \in 1 .. len : index[i] \in Segments(R) \cup {NoSegment}
  BY <1>5, <1>6
<1>8. index \in Seq(Segments(R) \cup {NoSegment}) /\ Len(index) = len
  <2>1. index \in [1 .. len -> Segments(R) \cup {NoSegment}]
    BY <1>7
  <2>2. DOMAIN index = 1 .. len
    OBVIOUS
  <2> HIDE DEF index
  <2> QED
    BY <2>1, <2>2
<1>9. s \in 1 .. len /\ index[s] \in Segments(R) /\ index[s] # NoSegment
  <2>1. s \in 1 .. len
    BY <1>2
  <2>. QED
    BY <2>1, <1>5, <1>6
<1>10. \A i \in 1 .. Len(t.index) : i \in 1 .. len /\ (t.index[i] # NoSegment => index[i] = t.index[i])
  BY <1>2 DEF segment
<1>11. \A i \in 1 .. len : (i \notin 1 .. Len(t.index) \/ t.index[i] = NoSegment)
                              => index[i] = NoSegment \/ index[i] = blank
  BY <1>0 DEF segment
<1> HIDE DEF index
<1>12. u.cols = TCols /\ u.rows = R /\ u.fill = t.fill /\ u.index = index
  BY <1>0, <1>4
<1>13. u \in TablesOf(R)
  BY <1>0, <1>4, <1>8 DEF TablesOf
<1>14. Got(u, s) /\ u.index[s] \in Segments(R)
  BY <1>8, <1>9, <1>12 DEF Got
<1>15. \A i \in Nat \ {0} : Got(t, i) => Got(u, i) /\ u.index[i] = t.index[i]
  BY <1>8, <1>10, <1>12 DEF Got
<1>16. ASSUME NEW r \in Nat, NEW c \in Columns PROVE Held(u, r, c) = Held(t, r, c)
  <2>1. PICK i \in Nat \ {0} : i = SegmentOf(t, r) /\ i = SegmentOf(u, r)
    <3>1. SegmentOf(t, r) \in Nat \ {0}
      BY CellsApart
    <3>2. SegmentOf(t, r) = SegmentOf(u, r)
      BY <1>0, <1>12 DEF SegmentOf
    <3>. QED
      BY <3>1, <3>2
  <2>2. PICK o \in 0 .. TCols * R - 1 : o = OffsetOf(t, r, c) /\ o = OffsetOf(u, r, c)
    <3>1. OffsetOf(t, r, c) \in 0 .. TCols * R - 1
      BY CellsApart
    <3>2. OffsetOf(t, r, c) = OffsetOf(u, r, c)
      BY <1>0, <1>12 DEF OffsetOf
    <3>. QED
      BY <3>1, <3>2
  <2>3. CASE Got(t, i)
    BY <2>1, <2>2, <2>3, <1>15 DEF Held
  <2>4. CASE ~Got(t, i)
    <3>1. Held(t, r, c) = NoValue
      BY <2>1, <2>4 DEF Held
    <3>2. CASE Got(u, i)
      <4>1. i \in 1 .. len /\ index[i] = blank
        BY <3>2, <2>4, <1>8, <1>11, <1>12 DEF Got
      <4>2. index[i][o] = NoValue
        BY <4>1 DEF blank
      <4>. QED
        BY <2>1, <2>2, <3>1, <3>2, <4>2, <1>12 DEF Held
    <3>3. CASE ~Got(u, i)
      BY <2>1, <3>1, <3>3 DEF Held
    <3>. QED
      BY <3>2, <3>3
  <2>. QED
    BY <2>3, <2>4
<1>. QED
  BY <1>1, <1>12, <1>13, <1>14, <1>15, <1>16

(* So ectable_get gives what is held, and ectable_set changes one cell.    *)
LEMMA CellHeld ==
  ASSUME NEW R \in Nat \ {0}, NEW t \in TablesOf(R), NEW row \in Nat, NEW col \in Columns
  PROVE  Cell(t, row, col) = Held(t, row, col) /\ Held(t, row, col) \in Nat
<1>1. PICK u : u = Touched(t, row)
  OBVIOUS
<1>2. /\ u \in TablesOf(R) /\ Got(u, SegmentOf(t, row)) /\ u.index[SegmentOf(t, row)] \in Segments(R)
      /\ Held(u, row, col) = Held(t, row, col)
  BY <1>1, TouchedKeeps
<1>3. SegmentOf(u, row) = SegmentOf(t, row) /\ OffsetOf(u, row, col) = OffsetOf(t, row, col)
  BY <1>2 DEF TablesOf, SegmentOf, OffsetOf
<1>4. OffsetOf(t, row, col) \in 0 .. TCols * R - 1
  BY CellsApart
<1>5. Held(u, row, col) = u.index[SegmentOf(t, row)][OffsetOf(t, row, col)]
  BY <1>2, <1>3 DEF Held
<1>6. Held(u, row, col) \in Nat
  BY <1>2, <1>4, <1>5 DEF Segments
<1>. QED
  BY <1>1, <1>2, <1>5, <1>6 DEF Cell

OneSet(R, t, row, col, v, w) ==
  /\ w \in TablesOf(R) /\ w.fill = (IF row > t.fill THEN row ELSE t.fill)
  /\ \A r \in Nat, c \in Columns :
       Held(w, r, c) = IF r = row /\ c = col THEN v ELSE Held(t, r, c)

(* Setting a cell changes that cell only.                                  *)
LEMMA CellSet ==
  ASSUME NEW R \in Nat \ {0}, NEW t \in TablesOf(R), NEW row \in Nat, NEW col \in Columns,
         NEW v \in Nat
  PROVE  OneSet(R, t, row, col, v, SetCell(t, row, col, v))
<1>0. PICK w : w = SetCell(t, row, col, v)
  OBVIOUS
<1>1. PICK u : u = Touched(t, row)
  OBVIOUS
<1>2. /\ u \in TablesOf(R) /\ u.fill = t.fill
      /\ Got(u, SegmentOf(t, row)) /\ u.index[SegmentOf(t, row)] \in Segments(R)
      /\ \A s \in Nat \ {0} : Got(t, s) => Got(u, s)
      /\ \A r \in Nat, c \in Columns : Held(u, r, c) = Held(t, r, c)
  BY <1>1, TouchedKeeps
<1>3. PICK s \in Nat \ {0} : s = SegmentOf(t, row) /\ s = SegmentOf(u, row)
  <2>1. SegmentOf(t, row) \in Nat \ {0}
    BY CellsApart
  <2>. QED
    BY <1>2, <2>1 DEF TablesOf, SegmentOf
<1>4. PICK o \in 0 .. TCols * R - 1 : o = OffsetOf(u, row, col)
  BY <1>2, CellsApart
<1>5. PICK f \in Nat : f = (IF row > t.fill THEN row ELSE t.fill)
  BY DEF TablesOf
<1>6. PICK index : index = [u.index EXCEPT ![s] = [@ EXCEPT ![o] = v]]
  OBVIOUS
<1>7. /\ u.index \in Seq(Segments(R) \cup {NoSegment}) /\ s \in 1 .. Len(u.index)
      /\ u.index[s] \in Segments(R)
  BY <1>2, <1>3 DEF TablesOf, Got
<1>8. w = [u EXCEPT !.index = index, !.fill = f]
  <2>1. w = [u EXCEPT !.index[s][o] = v, !.fill = f]
    BY <1>0, <1>1, <1>2, <1>3, <1>4, <1>5 DEF SetCell
  <2>. QED
    BY <1>2, <1>6, <1>7, <2>1 DEF TablesOf
<1>9. index[s] = [u.index[s] EXCEPT ![o] = v] /\ index[s] \in Segments(R)
  <2>1. index[s] = [u.index[s] EXCEPT ![o] = v]
    BY <1>6, <1>7
  <2>. QED
    BY <1>7, <2>1 DEF Segments
<1>10. /\ index \in Seq(Segments(R) \cup {NoSegment}) /\ Len(index) = Len(u.index)
       /\ \A i \in 1 .. Len(u.index) : i # s => index[i] = u.index[i]
  BY <1>6, <1>7, <1>9
<1>11. w \in TablesOf(R) /\ w.fill = f /\ w.index = index
  BY <1>2, <1>8, <1>10 DEF TablesOf
<1>12. NoSegment \notin Segments(R)
  BY SegmentsHave
<1>13. \A i \in Nat \ {0} : Got(u, i) <=> Got(w, i)
  BY <1>2, <1>3, <1>9, <1>10, <1>11, <1>12 DEF Got
<1>14. ASSUME NEW r \in Nat, NEW c \in Columns
       PROVE  Held(w, r, c) = IF r = row /\ c = col THEN v ELSE Held(u, r, c)
  <2>1. PICK i \in Nat \ {0} : i = SegmentOf(u, r) /\ i = SegmentOf(w, r)
    <3>1. SegmentOf(u, r) \in Nat \ {0}
      BY <1>2, CellsApart
    <3>2. SegmentOf(u, r) = SegmentOf(w, r)
      BY <1>2, <1>11 DEF SegmentOf, TablesOf
    <3>. QED
      BY <3>1, <3>2
  <2>2. PICK p \in 0 .. TCols * R - 1 : p = OffsetOf(u, r, c) /\ p = OffsetOf(w, r, c)
    <3>1. OffsetOf(u, r, c) \in 0 .. TCols * R - 1
      BY <1>2, CellsApart
    <3>2. OffsetOf(u, r, c) = OffsetOf(w, r, c)
      BY <1>2, <1>11 DEF OffsetOf, TablesOf
    <3>. QED
      BY <3>1, <3>2
  <2>3. i = s /\ p = o <=> r = row /\ c = col
    <3>1. SegmentOf(u, row) = SegmentOf(u, r) /\ OffsetOf(u, row, col) = OffsetOf(u, r, c)
            => r = row /\ c = col
      BY <1>2, CellsApart
    <3>. QED
      BY <1>3, <1>4, <2>1, <2>2, <3>1, Zenon
  <2>4. Got(w, i) <=> Got(u, i)
    BY <1>13
  <2>5. CASE i = s /\ p = o
    <3>1. index[s][o] = v
      BY <1>4, <1>7, <1>9 DEF Segments
    <3>2. Got(w, i)
      BY <1>2, <1>3, <2>4, <2>5
    <3>. QED
      BY <1>11, <2>1, <2>2, <2>3, <2>5, <3>1, <3>2 DEF Held
  <2>6. CASE i = s /\ p # o
    <3>1. index[s][p] = u.index[s][p]
      <4>1. PICK g \in [0 .. TCols * R - 1 -> Nat] : g = u.index[s]
        BY <1>7 DEF Segments
      <4>2. p # o
        BY <2>6
      <4>3. [g EXCEPT ![o] = v][p] = g[p]
        BY <4>1, <4>2
      <4>. QED
        BY <1>9, <4>1, <4>3
    <3>. QED
      BY <1>11, <2>1, <2>2, <2>3, <2>4, <2>6, <3>1 DEF Held
  <2>7. CASE i # s
    <3>1. Got(u, i) => index[i] = u.index[i]
      BY <1>10, <2>7 DEF Got
    <3>. QED
      BY <1>11, <2>1, <2>2, <2>3, <2>4, <2>7, <3>1 DEF Held
  <2>. QED
    BY <2>5, <2>6, <2>7
<1>15. \A r \in Nat, c \in Columns : Held(w, r, c) = IF r = row /\ c = col THEN v ELSE Held(t, r, c)
  BY <1>2, <1>14
<1>. QED
  BY <1>0, <1>5, <1>11, <1>15 DEF OneSet

-----------------------------------------------------------------------------
(* Recursion that goes up to an end.  Two functions agree when at every    *)
(* place they do so if they agree behind it.                               *)
AgreeBehind(f, w, m) ==
  \A i \in 0 .. m : (\A j \in i + 1 .. m : f[j] = w[j]) => f[i] = w[i]
Agree(f, w, m) == \A i \in 0 .. m : f[i] = w[i]

LEMMA FromTheEnd ==
  ASSUME NEW m \in Nat, NEW f, NEW w, AgreeBehind(f, w, m) PROVE Agree(f, w, m)
<1>0. \A i \in 0 .. m : (\A j \in i + 1 .. m : f[j] = w[j]) => f[i] = w[i]
  BY DEF AgreeBehind
<1> DEFINE S == {k \in 0 .. m : \A i \in m - k .. m : f[i] = w[i]}
<1>1. 0 \in S
  <2>1. m \in 0 .. m /\ \A j \in m + 1 .. m : f[j] = w[j]
    OBVIOUS
  <2>2. f[m] = w[m]
    BY <1>0, <2>1
  <2>3. \A i \in m - 0 .. m : i = m
    OBVIOUS
  <2>. QED
    BY <2>2, <2>3
<1>2. ASSUME NEW k \in 0 .. m - 1, k \in S PROVE k + 1 \in S
  <2>1. \A i \in m - k .. m : f[i] = w[i]
    BY <1>2
  <2>2. PICK n \in 0 .. m : n = m - (k + 1) /\ n + 1 = m - k
    <3>1. m - (k + 1) \in 0 .. m /\ (m - (k + 1)) + 1 = m - k
      OBVIOUS
    <3>. QED
      BY <3>1
  <2>3. f[n] = w[n]
    BY <1>0, <2>1, <2>2
  <2>4. ASSUME NEW i \in n .. m PROVE f[i] = w[i]
    <3>1. i = n \/ i \in m - k .. m
      BY <2>2
    <3>. QED
      BY <3>1, <2>1, <2>3
  <2>5. k + 1 \in 0 .. m
    OBVIOUS
  <2>. QED
    BY <2>2, <2>4, <2>5
<1>3. \A k \in 0 .. m - 1 : k \in S => k + 1 \in S
  BY <1>2
<1>4. m \in S
  <2>1. m \in 0 .. m
    OBVIOUS
  <2> HIDE DEF S
  <2> QED
    BY <1>1, <1>3, <2>1, Inductive
<1>5. m - m = 0
  OBVIOUS
<1>. QED
  BY <1>4, <1>5 DEF Agree

(* The first number from k on that is in A; the end e if there is none.    *)
First(A, e, k, j) == j \in k .. e /\ (j = e \/ j \in A) /\ \A i \in k .. j - 1 : i \notin A
Searches(f, A, e, m) ==
  f = [k \in 0 .. m |-> IF k >= e THEN e ELSE IF k \in A THEN k ELSE f[k + 1]]

(* There is one first place.                                               *)
LEMMA OneFirst ==
  ASSUME NEW A, NEW e \in Nat, NEW k \in Nat, NEW i, NEW j, First(A, e, k, i), First(A, e, k, j)
  PROVE  i = j
<1>1. i \in k .. e /\ j \in k .. e /\ i \in Int /\ j \in Int
  BY DEF First
<1>2. CASE i < j
  <2>1. i \in k .. j - 1 /\ i # e
    BY <1>1, <1>2
  <2>. QED
    BY <2>1 DEF First
<1>3. CASE j < i
  <2>1. j \in k .. i - 1 /\ j # e
    BY <1>1, <1>3
  <2>. QED
    BY <2>1 DEF First
<1>. QED
  BY <1>1, <1>2, <1>3

(* A place that is not in A is passed over.                                *)
LEMMA FirstBefore ==
  ASSUME NEW A, NEW e \in Nat, NEW k \in Nat, k < e, k \notin A, NEW j, First(A, e, k + 1, j)
  PROVE  First(A, e, k, j)
<1>1. j \in k + 1 .. e /\ (j = e \/ j \in A) /\ \A i \in k + 1 .. j - 1 : i \notin A
  BY DEF First
<1>2. ASSUME NEW i \in k .. j - 1 PROVE i \notin A
  <2>1. i = k \/ i \in k + 1 .. j - 1
    BY <1>1
  <2>. QED
    BY <2>1, <1>1
<1>3. j \in k .. e
  BY <1>1
<1>. QED
  BY <1>1, <1>2, <1>3 DEF First

(* There is a first place from everywhere.                                 *)
LEMMA SomeFirst ==
  ASSUME NEW A, NEW e \in Nat
  PROVE  \A k \in 0 .. e : \E j : First(A, e, k, j)
<1> DEFINE S == {d \in 0 .. e : \E j : First(A, e, e - d, j)}
<1>0. First(A, e, e, e)
  <2>1. e \in e .. e /\ \A i \in e .. e - 1 : FALSE
    OBVIOUS
  <2>. QED
    BY <2>1 DEF First
<1>1. 0 \in S
  <2>1. e - 0 = e /\ 0 \in 0 .. e
    OBVIOUS
  <2>. QED
    BY <1>0, <2>1
<1>2. ASSUME NEW d \in 0 .. e - 1, d \in S PROVE d + 1 \in S
  <2>1. PICK j : First(A, e, e - d, j)
    BY <1>2
  <2>2. PICK k \in Nat : k = e - (d + 1) /\ k + 1 = e - d /\ k < e /\ d + 1 \in 0 .. e
    <3>1. e - (d + 1) \in Nat /\ (e - (d + 1)) + 1 = e - d /\ e - (d + 1) < e /\ d + 1 \in 0 .. e
      OBVIOUS
    <3>. QED
      BY <3>1
  <2>3. CASE k \in A
    <3>1. k \in k .. e /\ \A i \in k .. k - 1 : FALSE
      BY <2>2
    <3>2. First(A, e, k, k)
      BY <2>3, <3>1 DEF First
    <3>. QED
      BY <2>2, <3>2
  <2>4. CASE k \notin A
    <3>1. First(A, e, k, j)
      BY <2>1, <2>2, <2>4, FirstBefore
    <3>. QED
      BY <2>2, <3>1
  <2>. QED
    BY <2>3, <2>4
<1>3. \A d \in 0 .. e : d \in S
  <2>1. \A d \in 0 .. e - 1 : d \in S => d + 1 \in S
    BY <1>2
  <2> HIDE DEF S
  <2> QED
    BY <1>1, <2>1, Inductive
<1>4. ASSUME NEW k \in 0 .. e PROVE \E j : First(A, e, k, j)
  <2>1. PICK d \in 0 .. e : d = e - k /\ e - d = k
    <3>1. e - k \in 0 .. e /\ e - (e - k) = k
      OBVIOUS
    <3>. QED
      BY <3>1
  <2>. QED
    BY <2>1, <1>3
<1>. QED
  BY <1>4

(* The recursive search finds it.                                          *)
LEMMA SearchFinds ==
  ASSUME NEW A, NEW e \in Nat, NEW m \in Nat, e <= m
  PROVE  /\ \E f : Searches(f, A, e, m)
         /\ \A f : Searches(f, A, e, m) => \A k \in 0 .. e : First(A, e, k, f[k])
<1>0. \A k \in 0 .. e : \E j : First(A, e, k, j)
  BY SomeFirst
<1>00. First(A, e, e, e)
  <2>1. e \in e .. e /\ \A i \in e .. e - 1 : FALSE
    OBVIOUS
  <2>. QED
    BY <2>1 DEF First
<1>1. ASSUME NEW k \in 0 .. e - 1, k \in A PROVE First(A, e, k, k)
  <2>1. k \in k .. e /\ \A i \in k .. k - 1 : FALSE
    OBVIOUS
  <2>. QED
    BY <1>1, <2>1 DEF First
<1>2. \E f : Searches(f, A, e, m)
  <2> DEFINE w == [k \in 0 .. m |-> IF k >= e THEN e ELSE CHOOSE j : First(A, e, k, j)]
  <2>1. \A k \in 0 .. m : w[k] = IF k >= e THEN e ELSE CHOOSE j : First(A, e, k, j)
    OBVIOUS
  <2>2. w = [k \in 0 .. m |-> w[k]]
    OBVIOUS
  <2> HIDE DEF w
  <2>3. ASSUME NEW k \in 0 .. e PROVE k \in 0 .. m /\ First(A, e, k, w[k])
    <3>0. k \in 0 .. m
      OBVIOUS
    <3>1. CASE k >= e
      <4>1. k = e
        BY <3>1
      <4>. QED
        BY <3>0, <3>1, <4>1, <2>1, <1>00
    <3>2. CASE ~(k >= e)
      BY <3>0, <3>2, <2>1, <1>0
    <3>. QED
      BY <3>1, <3>2
  <2>4. ASSUME NEW k \in 0 .. m
        PROVE  w[k] = IF k >= e THEN e ELSE IF k \in A THEN k ELSE w[k + 1]
    <3>1. CASE k >= e
      BY <3>1, <2>1
    <3>2. CASE ~(k >= e) /\ k \in A
      <4>1. k \in 0 .. e - 1 /\ k \in 0 .. e /\ k \in Nat
        BY <3>2
      <4>2. w[k] = k
        BY <4>1, <3>2, <1>1, <2>3, OneFirst
      <4>. QED
        BY <3>2, <4>2
    <3>3. CASE ~(k >= e) /\ k \notin A
      <4>1. k \in 0 .. e /\ k + 1 \in 0 .. e /\ k \in Nat /\ k < e
        BY <3>3
      <4>2. First(A, e, k + 1, w[k + 1])
        BY <4>1, <2>3
      <4>3. First(A, e, k, w[k + 1])
        BY <3>3, <4>1, <4>2, FirstBefore
      <4>4. w[k] = w[k + 1]
        BY <4>1, <4>3, <2>3, OneFirst
      <4>. QED
        BY <3>3, <4>4
    <3>. QED
      BY <3>1, <3>2, <3>3
  <2>5. Searches(w, A, e, m)
    BY <2>2, <2>4 DEF Searches
  <2>. QED
    BY <2>5
<1>3. ASSUME NEW f, Searches(f, A, e, m) PROVE \A k \in 0 .. e : First(A, e, k, f[k])
  <2>1. \A k \in 0 .. m : f[k] = IF k >= e THEN e ELSE IF k \in A THEN k ELSE f[k + 1]
    BY <1>3 DEF Searches
  <2> DEFINE S == {d \in 0 .. e : First(A, e, e - d, f[e - d])}
  <2>2. 0 \in S
    <3>1. e - 0 = e /\ 0 \in 0 .. e /\ e \in 0 .. m /\ e >= e
      OBVIOUS
    <3>2. f[e] = e
      BY <2>1, <3>1
    <3>. QED
      BY <1>00, <3>1, <3>2
  <2>3. ASSUME NEW d \in 0 .. e - 1, d \in S PROVE d + 1 \in S
    <3>1. First(A, e, e - d, f[e - d])
      BY <2>3
    <3>2. PICK k \in Nat : k = e - (d + 1) /\ k + 1 = e - d /\ k < e /\ d + 1 \in 0 .. e
      <4>1. e - (d + 1) \in Nat /\ (e - (d + 1)) + 1 = e - d /\ e - (d + 1) < e /\ d + 1 \in 0 .. e
        OBVIOUS
      <4>. QED
        BY <4>1
    <3>3. k \in 0 .. m /\ ~(k >= e) /\ k \in 0 .. e - 1
      BY <3>2
    <3>4. CASE k \in A
      BY <3>2, <3>3, <3>4, <2>1, <1>1
    <3>5. CASE k \notin A
      <4>1. f[k] = f[k + 1]
        BY <3>3, <3>5, <2>1
      <4>2. First(A, e, k, f[k + 1])
        BY <3>1, <3>2, <3>5, FirstBefore
      <4>. QED
        BY <3>2, <4>1, <4>2
    <3>. QED
      BY <3>4, <3>5
  <2>4. \A d \in 0 .. e : d \in S
    <3>1. \A d \in 0 .. e - 1 : d \in S => d + 1 \in S
      BY <2>3
    <3> HIDE DEF S
    <3> QED
      BY <2>2, <3>1, Inductive
  <2>5. ASSUME NEW k \in 0 .. e PROVE First(A, e, k, f[k])
    <3>1. PICK d \in 0 .. e : d = e - k /\ e - d = k
      <4>1. e - k \in 0 .. e /\ e - (e - k) = k
        OBVIOUS
      <4>. QED
        BY <4>1
    <3>. QED
      BY <3>1, <2>4
  <2>. QED
    BY <2>5
<1>. QED
  BY <1>2, <1>3

(* What lies behind the first is what lies from there on.                  *)
LEMMA FirstSplits ==
  ASSUME NEW A, NEW e \in Nat, NEW k \in 0 .. e, NEW j, First(A, e, k, j)
  PROVE  /\ j \in k .. e
         /\ j = e => \A i \in k .. e - 1 : i \notin A
         /\ j # e => /\ j \in A /\ j \in k .. e - 1
                     /\ \A i \in k .. e - 1 : i \in A <=> i = j \/ (i \in A /\ i \in j + 1 .. e - 1)
<1>1. j \in k .. e /\ (j = e \/ j \in A) /\ \A i \in k .. j - 1 : i \notin A
  BY DEF First
<1>2. ASSUME j # e PROVE /\ j \in A /\ j \in k .. e - 1
                     /\ \A i \in k .. e - 1 : i \in A <=> i = j \/ (i \in A /\ i \in j + 1 .. e - 1)
  <2>1. j \in A /\ j \in k .. e - 1
    BY <1>1, <1>2
  <2>2. ASSUME NEW i \in k .. e - 1 PROVE i \in k .. j - 1 \/ i = j \/ i \in j + 1 .. e - 1
    BY <1>1
  <2>. QED
    BY <1>1, <2>1, <2>2
<1>. QED
  BY <1>1, <1>2

-----------------------------------------------------------------------------
(* The rows of a table whose segment was allocated, and the two searches   *)
(* of ectable_next and of the walk as the model writes them.               *)
RowsGot(t) == {i \in 0 .. t.fill : t.index[SegmentOf(t, i)] # NoSegment}
RowSearch(t, f) ==
  f = [i \in 0 .. t.fill + 1 |->
        IF i > t.fill THEN t.fill + 1
        ELSE IF t.index[SegmentOf(t, i)] # NoSegment THEN i ELSE f[i + 1]]
RowWalk(t, f) ==
  f = [i \in 0 .. t.fill + 1 |-> IF i = RowEnd(t) THEN {} ELSE {i} \cup f[RowAfter(t, i)]]

(* The search for the next row, by its function.                           *)
LEMMA RowSearched == ASSUME NEW t, NEW n PROVE RowAfter(t, n) = (CHOOSE f : RowSearch(t, f))[n + 1]
BY DEF RowAfter, RowSearch

(* The walk over the rows, by its function.                                *)
LEMMA RowWalked == ASSUME NEW t PROVE RowsMet(t) = (CHOOSE f : RowWalk(t, f))[0]
BY DEF RowsMet, RowWalk

(* The next row is the first one behind that was touched.                  *)
LEMMA NextRow ==
  ASSUME NEW t, t.fill \in Nat, NEW n \in 0 .. t.fill
  PROVE  First(RowsGot(t), t.fill + 1, n + 1, RowAfter(t, n))
<1>1. PICK e \in Nat : e = t.fill + 1
  OBVIOUS
<1>2. PICK A : A = RowsGot(t)
  OBVIOUS
<1>3. ASSUME NEW f PROVE Searches(f, A, e, e) <=> RowSearch(t, f)
  <2>1. ASSUME NEW i \in 0 .. e
        PROVE  (IF i >= e THEN e ELSE IF i \in A THEN i ELSE f[i + 1])
               = (IF i > t.fill THEN t.fill + 1
                  ELSE IF t.index[SegmentOf(t, i)] # NoSegment THEN i ELSE f[i + 1])
    <3>1. i >= e <=> i > t.fill
      BY <1>1
    <3>2. ~(i > t.fill) => (i \in A <=> t.index[SegmentOf(t, i)] # NoSegment)
      <4>1. ~(i > t.fill) => i \in 0 .. t.fill
        OBVIOUS
      <4>. QED
        BY <1>2, <4>1 DEF RowsGot
    <3>. QED
      BY <1>1, <3>1, <3>2
  <2>. QED
    BY <2>1, <1>1 DEF Searches, RowSearch
<1>4. PICK f : f = (CHOOSE g : RowSearch(t, g)) /\ RowSearch(t, f)
  <2>1. \E g : Searches(g, A, e, e)
    BY SearchFinds
  <2>. QED
    BY <1>3, <2>1
<1>5. n + 1 \in 0 .. e
  BY <1>1
<1>6. First(A, e, n + 1, f[n + 1])
  BY <1>3, <1>4, <1>5, SearchFinds
<1>. QED
  BY <1>1, <1>2, <1>4, <1>6, RowSearched

(* A walk over a table meets every row whose segment was allocated.        *)
LEMMA RowsAreMet ==
  ASSUME NEW t, t.fill \in Nat, t.fill > 0, NEW r \in RowsGot(t)
  PROVE  r \in RowsMet(t)
<1>1. PICK e \in Nat : e = t.fill + 1 /\ e > 0
  OBVIOUS
<1>2. PICK A : A = RowsGot(t) /\ A \subseteq 0 .. e - 1
  <2>1. \A i \in 0 .. t.fill : i \in 0 .. e - 1
    BY <1>1
  <2>2. RowsGot(t) \subseteq 0 .. e - 1
    BY <2>1 DEF RowsGot
  <2>. QED
    BY <2>2
<1>3. RowEnd(t) = e
  BY <1>1 DEF RowEnd
<1> DEFINE w == [i \in 0 .. e |-> IF i = e THEN {} ELSE {i} \cup {j \in A : j \in i + 1 .. e - 1}]
<1>4. \A i \in 0 .. e : w[i] = IF i = e THEN {} ELSE {i} \cup {j \in A : j \in i + 1 .. e - 1}
  OBVIOUS
<1>5. w = [i \in 0 .. e |-> w[i]]
  OBVIOUS
<1> HIDE DEF w
<1>6. ASSUME NEW i \in 0 .. e - 1
      PROVE  RowAfter(t, i) \in i + 1 .. e /\ w[i] = {i} \cup w[RowAfter(t, i)]
  <2>1. i \in 0 .. t.fill /\ i + 1 \in 0 .. e /\ i \in 0 .. e /\ i # e
    BY <1>1
  <2>2. PICK n : n = RowAfter(t, i) /\ First(A, e, i + 1, n)
    BY <1>1, <1>2, <2>1, NextRow
  <2>3. /\ n \in i + 1 .. e
        /\ n = e => \A j \in i + 1 .. e - 1 : j \notin A
        /\ n # e => /\ n \in A /\ n \in i + 1 .. e - 1
                    /\ \A j \in i + 1 .. e - 1 : j \in A <=> j = n \/ (j \in A /\ j \in n + 1 .. e - 1)
    BY <2>1, <2>2, FirstSplits
  <2>4. n \in 0 .. e
    BY <2>1, <2>3
  <2>5. CASE n = e
    <3>1. w[n] = {}
      BY <1>4, <2>4, <2>5
    <3>2. {j \in A : j \in i + 1 .. e - 1} = {}
      BY <2>3, <2>5
    <3>. QED
      BY <1>4, <2>1, <2>2, <2>3, <3>1, <3>2
  <2>6. CASE n # e
    <3>1. w[n] = {n} \cup {j \in A : j \in n + 1 .. e - 1}
      BY <1>4, <2>4, <2>6
    <3>2. \A j : j \in n + 1 .. e - 1 => j \in i + 1 .. e - 1
      BY <2>3
    <3>3. {j \in A : j \in i + 1 .. e - 1} = w[n]
      BY <2>3, <2>6, <3>1, <3>2
    <3>. QED
      BY <1>4, <2>1, <2>2, <2>3, <3>3
  <2>. QED
    BY <2>5, <2>6
<1>7. ASSUME NEW f
      PROVE  RowWalk(t, f) <=> f = [i \in 0 .. e |-> IF i = e THEN {} ELSE {i} \cup f[RowAfter(t, i)]]
  BY <1>1, <1>3 DEF RowWalk
<1>8. RowWalk(t, w)
  <2>1. ASSUME NEW i \in 0 .. e
        PROVE  w[i] = IF i = e THEN {} ELSE {i} \cup w[RowAfter(t, i)]
    <3>1. CASE i = e
      BY <3>1, <1>4
    <3>2. CASE i # e
      <4>1. i \in 0 .. e - 1
        BY <3>2
      <4>. QED
        BY <3>2, <4>1, <1>6
    <3>. QED
      BY <3>1, <3>2
  <2>. QED
    BY <1>5, <1>7, <2>1
<1>9. PICK f : f = (CHOOSE g : RowWalk(t, g)) /\ RowWalk(t, f)
  BY <1>8
<1>10. \A i \in 0 .. e : f[i] = IF i = e THEN {} ELSE {i} \cup f[RowAfter(t, i)]
  BY <1>7, <1>9
<1>11. ASSUME NEW i \in 0 .. e, \A j \in i + 1 .. e : f[j] = w[j]
       PROVE  f[i] = w[i]
  <2>1. CASE i = e
    BY <2>1, <1>4, <1>10
  <2>2. CASE i # e
    <3>1. i \in 0 .. e - 1
      BY <2>2
    <3>. QED
      BY <2>2, <3>1, <1>6, <1>10, <1>11
  <2>. QED
    BY <2>1, <2>2
<1>12. f[0] = w[0]
  <2> HIDE DEF w
  <2>1. \A i \in 0 .. e : f[i] = w[i]
    <3>1. AgreeBehind(f, w, e)
      BY <1>11 DEF AgreeBehind
    <3>2. Agree(f, w, e)
      BY <3>1, FromTheEnd
    <3>. QED
      BY <3>2 DEF Agree
  <2>. QED
    BY <2>1
<1>13. r \in w[0]
  <2>0. PICK z \in 0 .. e : z = 0 /\ z # e
    BY <1>1
  <2>1. w[z] = {z} \cup {j \in A : j \in z + 1 .. e - 1}
    BY <1>4, <2>0
  <2>2. r \in A /\ (r = z \/ r \in z + 1 .. e - 1)
    BY <1>2, <2>0
  <2>. QED
    BY <2>0, <2>1, <2>2
<1>. QED
  BY <1>9, <1>12, <1>13, RowWalked

-----------------------------------------------------------------------------
(* The table on its own.                                                   *)
TableIInv ==
  /\ ttable \in TablesOf(TRows) /\ tset \in [0 .. TMaxRow -> [Columns -> Nat]]
  /\ \A r \in 0 .. TMaxRow, c \in Columns :
       Held(ttable, r, c) = tset[r][c] /\ (tset[r][c] # NoValue => r <= ttable.fill)

(* Nothing is held where no segment is.                                    *)
LEMMA NothingHeld ==
  ASSUME NEW t, \A s \in 1 .. Len(t.index) : t.index[s] = NoSegment
  PROVE  \A r, c : Held(t, r, c) = NoValue
BY DEF Held, Got

(* A new table is empty.                                                   *)
LEMMA NewTables ==
  ASSUME NEW R \in Nat \ {0}
  PROVE  NewTable(TCols, R) \in TablesOf(R) /\ NewTable(TCols, R).fill = 0
         /\ \A r, c : Held(NewTable(TCols, R), r, c) = NoValue
<1>1. PICK t : t = NewTable(TCols, R)
  OBVIOUS
<1>2. t.cols = TCols /\ t.rows = R /\ t.fill = 0 /\ t.index = <<NoSegment>>
  BY <1>1 DEF NewTable
<1>3. <<NoSegment>> \in Seq(Segments(R) \cup {NoSegment}) /\ Len(<<NoSegment>>) = 1 /\ <<NoSegment>>[1] = NoSegment
  OBVIOUS
<1>4. t \in TablesOf(R)
  BY <1>1, <1>3 DEF NewTable, TablesOf
<1>5. \A s \in 1 .. Len(t.index) : t.index[s] = NoSegment
  BY <1>2, <1>3
<1>. QED
  BY <1>1, <1>2, <1>4, <1>5, NothingHeld

(* The table starts empty.                                                 *)
LEMMA TableStarts == TableInit => TableIInv
<1> SUFFICES ASSUME TableInit PROVE TableIInv
  OBVIOUS
<1>1. TRows \in Nat \ {0} /\ TMaxRow \in Nat
  BY TableConstants
<1>2. ttable = NewTable(TCols, TRows) /\ tset = [r \in 0 .. TMaxRow |-> [c \in Columns |-> NoValue]]
  BY DEF TableInit
<1>3. ttable \in TablesOf(TRows) /\ \A r, c : Held(ttable, r, c) = NoValue
  BY <1>1, <1>2, NewTables
<1>4. tset \in [0 .. TMaxRow -> [Columns -> Nat]] /\ \A r \in 0 .. TMaxRow, c \in Columns : tset[r][c] = NoValue
  BY <1>2 DEF NoValue
<1>. QED
  BY <1>3, <1>4 DEF TableIInv

(* Setting, adding and clearing keep the cells that were set.              *)
LEMMA TableSteps == TableIInv /\ [TableNext]_tableVars => TableIInv'
<1> SUFFICES ASSUME TableIInv, [TableNext]_tableVars PROVE TableIInv'
  OBVIOUS
<1>0. /\ TRows \in Nat \ {0} /\ TMaxRow \in Nat
      /\ ttable \in TablesOf(TRows) /\ tset \in [0 .. TMaxRow -> [Columns -> Nat]]
      /\ \A r \in 0 .. TMaxRow, c \in Columns :
           Held(ttable, r, c) = tset[r][c] /\ (tset[r][c] # NoValue => r <= ttable.fill)
      /\ \A r \in 0 .. TMaxRow : r \in Nat
  BY TableConstants DEF TableIInv
<1>1. ASSUME NEW row \in 0 .. TMaxRow, TableGet(row) PROVE TableIInv'
  <2>1. ttable' = Touched(ttable, row) /\ tset' = tset
    BY <1>1 DEF TableGet
  <2>2. ttable' \in TablesOf(TRows) /\ ttable'.fill = ttable.fill
    BY <1>0, <2>1, TouchedKeeps
  <2>3. \A r \in Nat, c \in Columns : Held(ttable', r, c) = Held(ttable, r, c)
    BY <1>0, <2>1, TouchedKeeps
  <2>. QED
    BY <1>0, <2>1, <2>2, <2>3 DEF TableIInv
<1>2. ASSUME NEW row \in 0 .. TMaxRow, NEW col \in Columns, TableSet(row, col) PROVE TableIInv'
  <2>1. PICK v \in Nat : v = 1 + (tset[row][col] % 2)
    BY <1>0
  <2>2. ttable' = SetCell(ttable, row, col, v) /\ tset' = [tset EXCEPT ![row][col] = v]
    BY <1>2, <2>1 DEF TableSet
  <2>0. row \in Nat
    BY <1>0
  <2>3. OneSet(TRows, ttable, row, col, v, ttable')
    BY <1>0, <2>0, <2>2, CellSet
  <2>4. /\ ttable' \in TablesOf(TRows)
        /\ ttable'.fill = (IF row > ttable.fill THEN row ELSE ttable.fill)
        /\ \A r \in Nat, c \in Columns :
             Held(ttable', r, c) = IF r = row /\ c = col THEN v ELSE Held(ttable, r, c)
    BY <2>3 DEF OneSet
  <2>5. tset' \in [0 .. TMaxRow -> [Columns -> Nat]]
    BY <1>0, <2>2
  <2>6. \A r \in 0 .. TMaxRow, c \in Columns :
          tset'[r][c] = IF r = row /\ c = col THEN v ELSE tset[r][c]
    BY <1>0, <2>2
  <2>7. ttable.fill \in Nat /\ row \in Nat
    BY <1>0 DEF TablesOf
  <2>8. ttable'.fill >= row /\ ttable'.fill >= ttable.fill /\ ttable'.fill \in Nat
    BY <2>4, <2>7
  <2>9. ASSUME NEW r \in 0 .. TMaxRow, NEW c \in Columns
        PROVE  Held(ttable', r, c) = tset'[r][c] /\ (tset'[r][c] # NoValue => r <= ttable'.fill)
    <3>1. r \in Nat
      OBVIOUS
    <3>2. Held(ttable', r, c) = tset'[r][c]
      BY <1>0, <2>4, <2>6, <3>1
    <3>3. CASE r = row
      BY <2>8, <3>2, <3>3
    <3>4. CASE r # row
      <4>1. tset'[r][c] = tset[r][c]
        BY <2>6, <3>4
      <4>2. tset[r][c] # NoValue => r <= ttable.fill
        BY <1>0
      <4>. QED
        BY <2>7, <2>8, <3>1, <3>2, <4>1, <4>2
    <3>. QED
      BY <3>3, <3>4
  <2>. QED
    BY <2>4, <2>5, <2>9 DEF TableIInv
<1>3. CASE TableClear
  <2>1. ttable' = [ttable EXCEPT !.index = [i \in DOMAIN ttable.index |-> NoSegment]]
    BY <1>3 DEF TableClear
  <2>2. tset' = [r \in 0 .. TMaxRow |-> [c \in Columns |-> NoValue]]
    BY <1>3 DEF TableClear
  <2>3. PICK index : index = [i \in DOMAIN ttable.index |-> NoSegment]
    OBVIOUS
  <2>4. ttable.index \in Seq(Segments(TRows) \cup {NoSegment})
    BY <1>0 DEF TablesOf
  <2>5. /\ index \in Seq(Segments(TRows) \cup {NoSegment})
        /\ \A i \in 1 .. Len(index) : index[i] = NoSegment
    BY <2>3, <2>4
  <2>6. ttable' \in TablesOf(TRows) /\ ttable'.index = index
    BY <1>0, <2>1, <2>3, <2>5 DEF TablesOf
  <2>7. \A r, c : Held(ttable', r, c) = NoValue
    BY <2>5, <2>6, NothingHeld
  <2>8. /\ tset' \in [0 .. TMaxRow -> [Columns -> Nat]]
        /\ \A r \in 0 .. TMaxRow, c \in Columns : tset'[r][c] = NoValue
    BY <2>2 DEF NoValue
  <2>. QED
    BY <2>6, <2>7, <2>8 DEF TableIInv
<1>4. CASE UNCHANGED tableVars
  BY <1>4 DEF tableVars, TableIInv
<1>. QED
  BY <1>1, <1>2, <1>3, <1>4 DEF TableNext

(* A cell shows what was set last, and a walk meets every row once.        *)
LEMMA TableFollows == TableIInv => TableKeeps
<1> SUFFICES ASSUME TableIInv PROVE TableKeeps
  OBVIOUS
<1>0. /\ TRows \in Nat \ {0} /\ TMaxRow \in Nat
      /\ ttable \in TablesOf(TRows)
      /\ \A r \in 0 .. TMaxRow, c \in Columns :
           Held(ttable, r, c) = tset[r][c] /\ (tset[r][c] # NoValue => r <= ttable.fill)
  BY TableConstants DEF TableIInv
<1>1. ASSUME NEW r \in 0 .. TMaxRow, NEW c \in Columns PROVE Cell(ttable, r, c) = tset[r][c]
  <2>1. r \in Nat
    OBVIOUS
  <2>. QED
    BY <1>0, <2>1, CellHeld
<1>2. ASSUME ttable.fill > 0, NEW r \in 1 .. TMaxRow, NEW c \in Columns, tset[r][c] # NoValue
      PROVE  r \in RowsMet(ttable)
  <2>1. r \in 0 .. TMaxRow /\ ttable.fill \in Nat
    BY <1>0 DEF TablesOf
  <2>2. r <= ttable.fill /\ Held(ttable, r, c) # NoValue
    BY <1>0, <1>2, <2>1
  <2>3. Got(ttable, SegmentOf(ttable, r))
    BY <2>2 DEF Held
  <2>4. r \in RowsGot(ttable)
    BY <2>1, <2>2, <2>3 DEF RowsGot, Got
  <2>. QED
    BY <1>2, <2>1, <2>4, RowsAreMet
<1>. QED
  BY <1>1, <1>2 DEF TableKeeps

-----------------------------------------------------------------------------
(* The cursor.  A row is filled cell by cell, and the table row by row.    *)
CellsFill(x, r, k, g) ==
  g = [c \in 0 .. TCols |-> IF c = 0 THEN x ELSE SetCell(g[c - 1], r, c - 1, Field(k + r, c - 1))]
RowFill(x, r, k) == (CHOOSE g : CellsFill(x, r, k, g))[TCols]
RowsFill(t, n, k, f) == f = [r \in 0 .. n |-> IF r = 0 THEN t ELSE RowFill(f[r - 1], r, k)]

(* The rows a fetch fills, by their function.                              *)
LEMMA TableFilled == ASSUME NEW t, NEW n PROVE Filled(t, n) = (CHOOSE f : RowsFill(t, n, ctaken, f))[n]
BY DEF Filled, RowsFill, RowFill, CellsFill

(* What the result has is a value.                                         *)
LEMMA FieldIs == ASSUME NEW row \in Nat, NEW c \in Columns PROVE Field(row, c) \in Nat
<1>1. TCols \in Nat /\ c \in Nat
  BY TableConstants DEF Columns
<1>2. row * TCols \in Nat
  BY <1>1
<1>. QED
  BY <1>1, <1>2 DEF Field

OneRow(R, x, r, k, w, n) ==   \* n cells of row r
  /\ w \in TablesOf(R)
  /\ \A p \in Nat, c \in Columns :
       Held(w, p, c) = IF p = r /\ c < n THEN Field(k + r, c) ELSE Held(x, p, c)

(* Filling a row sets its cells and no others.                             *)
LEMMA CellsFilled ==
  ASSUME NEW R \in Nat \ {0}, NEW x \in TablesOf(R), NEW r \in Nat, NEW k \in Nat
  PROVE  OneRow(R, x, r, k, RowFill(x, r, k), TCols)
<1>0. TCols \in Nat /\ TCols > 0 /\ k + r \in Nat /\ \A c \in 1 .. TCols : c - 1 \in Columns /\ c \in Nat
  BY TableConstants DEF Columns
<1> DEFINE T == TablesOf(R)
           F == [y \in T |-> [c \in 1 .. TCols |-> SetCell(y, r, c - 1, Field(k + r, c - 1))]]
<1>1. ASSUME NEW y \in T, NEW c \in 1 .. TCols
      PROVE  OneSet(R, y, r, c - 1, Field(k + r, c - 1), F[y][c])
  <2>1. c - 1 \in Columns /\ Field(k + r, c - 1) \in Nat
    BY <1>0, FieldIs
  <2>2. OneSet(R, y, r, c - 1, Field(k + r, c - 1), SetCell(y, r, c - 1, Field(k + r, c - 1)))
    BY <2>1, CellSet
  <2>. QED
    BY <2>2
<1>2. \A y \in T, c \in 1 .. TCols : F[y][c] = SetCell(y, r, c - 1, Field(k + r, c - 1))
  OBVIOUS
<1> HIDE DEF F
<1>3. Moves(F, T, TCols)
  BY <1>1 DEF Moves, OneSet
<1>4. PICK f : Iterates(f, F, T, x, TCols)
  BY <1>0, <1>3, Iterated
<1>5. CellsFill(x, r, k, f)
  <2>1. f \in [0 .. TCols -> T] /\ f[0] = x /\ \A c \in 1 .. TCols : f[c] = F[f[c - 1]][c]
    BY <1>4 DEF Iterates
  <2>2. ASSUME NEW c \in 0 .. TCols
        PROVE  f[c] = IF c = 0 THEN x ELSE SetCell(f[c - 1], r, c - 1, Field(k + r, c - 1))
    <3>1. CASE c = 0
      BY <2>1, <3>1
    <3>2. CASE c # 0
      <4>1. c \in 1 .. TCols /\ c - 1 \in 0 .. TCols
        BY <1>0, <3>2
      <4>2. f[c - 1] \in T
        BY <2>1, <4>1
      <4>. QED
        BY <1>2, <2>1, <3>2, <4>1, <4>2
    <3>. QED
      BY <3>1, <3>2
  <2>3. f = [c \in 0 .. TCols |-> f[c]]
    BY <2>1
  <2>. QED
    BY <2>2, <2>3 DEF CellsFill
<1>6. PICK g : g = (CHOOSE h : CellsFill(x, r, k, h)) /\ CellsFill(x, r, k, g)
  BY <1>5
<1>7. \A c \in 0 .. TCols : g[c] = IF c = 0 THEN x ELSE SetCell(g[c - 1], r, c - 1, Field(k + r, c - 1))
  BY <1>6 DEF CellsFill
<1> DEFINE S == {n \in 0 .. TCols : OneRow(R, x, r, k, g[n], n)}
<1>8. 0 \in S
  <2>1. g[0] = x /\ 0 \in 0 .. TCols
    BY <1>0, <1>7
  <2>2. \A c \in Columns : ~(c < 0)
    BY DEF Columns
  <2>3. OneRow(R, x, r, k, x, 0)
    BY <2>2 DEF OneRow
  <2>. QED
    BY <2>1, <2>3
<1>9. ASSUME NEW n \in 0 .. TCols - 1, n \in S PROVE n + 1 \in S
  <2>1. OneRow(R, x, r, k, g[n], n) /\ n + 1 \in 0 .. TCols /\ n \in Columns /\ n + 1 # 0 /\ (n + 1) - 1 = n
    <3>1. n + 1 \in 0 .. TCols /\ n \in Columns /\ n + 1 # 0 /\ (n + 1) - 1 = n
      BY <1>0 DEF Columns
    <3>. QED
      BY <1>9, <3>1
  <2>2. PICK y \in TablesOf(R) : y = g[n]
    BY <2>1 DEF OneRow
  <2>3. g[n + 1] = SetCell(y, r, n, Field(k + r, n))
    BY <1>7, <2>1, <2>2
  <2>4. OneSet(R, y, r, n, Field(k + r, n), g[n + 1])
    <3>1. Field(k + r, n) \in Nat
      BY <1>0, <2>1, FieldIs
    <3>. QED
      BY <2>1, <2>3, <3>1, CellSet
  <2>5. ASSUME NEW p \in Nat, NEW c \in Columns
        PROVE  Held(g[n + 1], p, c) = IF p = r /\ c < n + 1 THEN Field(k + r, c) ELSE Held(x, p, c)
    <3>1. Held(g[n + 1], p, c) = IF p = r /\ c = n THEN Field(k + r, n) ELSE Held(y, p, c)
      BY <2>4 DEF OneSet
    <3>2. Held(y, p, c) = IF p = r /\ c < n THEN Field(k + r, c) ELSE Held(x, p, c)
      BY <2>1, <2>2 DEF OneRow
    <3>3. c < n + 1 <=> c < n \/ c = n
      BY <1>0 DEF Columns
    <3>. QED
      BY <3>1, <3>2, <3>3
  <2>6. OneRow(R, x, r, k, g[n + 1], n + 1)
    BY <2>4, <2>5 DEF OneRow, OneSet
  <2>. QED
    BY <2>1, <2>6
<1>10. TCols \in S
  <2>1. \A n \in 0 .. TCols - 1 : n \in S => n + 1 \in S
    BY <1>9
  <2>2. TCols \in 0 .. TCols
    BY <1>0
  <2> HIDE DEF S
  <2> QED
    BY <1>0, <1>8, <2>1, <2>2, Inductive
<1>. QED
  BY <1>6, <1>10 DEF RowFill

Rows(R, t, k, w, n) ==   \* n rows, from row 1 on
  /\ w \in TablesOf(R)
  /\ \A p \in 1 .. n, c \in Columns : Held(w, p, c) = Field(k + p, c)

(* A fetch puts the next rows of the result into the table.                *)
LEMMA FilledHolds ==
  ASSUME NEW R \in Nat \ {0}, NEW t \in TablesOf(R), NEW n \in Nat, ctaken \in Nat
  PROVE  Rows(R, t, ctaken, Filled(t, n), n)
<1>0. PICK k \in Nat : k = ctaken
  OBVIOUS
<1> DEFINE T == TablesOf(R)
           F == [y \in T |-> [r \in 1 .. n |-> RowFill(y, r, k)]]
<1>1. ASSUME NEW y \in T, NEW r \in 1 .. n PROVE F[y][r] = RowFill(y, r, k) /\ RowFill(y, r, k) \in T
  <2>1. r \in Nat
    OBVIOUS
  <2>. QED
    BY <2>1, CellsFilled DEF OneRow
<1> HIDE DEF F
<1>2. Moves(F, T, n)
  BY <1>1 DEF Moves
<1>3. PICK f : Iterates(f, F, T, t, n)
  BY <1>2, Iterated
<1>4. RowsFill(t, n, k, f)
  <2>1. f \in [0 .. n -> T] /\ f[0] = t /\ \A r \in 1 .. n : f[r] = F[f[r - 1]][r]
    BY <1>3 DEF Iterates
  <2>2. ASSUME NEW r \in 0 .. n PROVE f[r] = IF r = 0 THEN t ELSE RowFill(f[r - 1], r, k)
    <3>1. CASE r = 0
      BY <2>1, <3>1
    <3>2. CASE r # 0
      <4>1. r \in 1 .. n /\ r - 1 \in 0 .. n
        BY <3>2
      <4>2. f[r - 1] \in T
        BY <2>1, <4>1
      <4>. QED
        BY <1>1, <2>1, <3>2, <4>1, <4>2
    <3>. QED
      BY <3>1, <3>2
  <2>3. f = [r \in 0 .. n |-> f[r]]
    BY <2>1
  <2>. QED
    BY <2>2, <2>3 DEF RowsFill
<1>5. PICK g : g = (CHOOSE h : RowsFill(t, n, k, h)) /\ RowsFill(t, n, k, g)
  BY <1>4
<1>6. \A r \in 0 .. n : g[r] = IF r = 0 THEN t ELSE RowFill(g[r - 1], r, k)
  BY <1>5 DEF RowsFill
<1> DEFINE S == {i \in 0 .. n : Rows(R, t, k, g[i], i)}
<1>7. 0 \in S
  <2>1. g[0] = t /\ 0 \in 0 .. n
    BY <1>6
  <2>2. Rows(R, t, k, t, 0)
    BY DEF Rows
  <2>. QED
    BY <2>1, <2>2
<1>8. ASSUME NEW i \in 0 .. n - 1, i \in S PROVE i + 1 \in S
  <2>1. Rows(R, t, k, g[i], i) /\ i + 1 \in 0 .. n /\ i + 1 # 0 /\ i + 1 \in Nat /\ (i + 1) - 1 = i
    BY <1>8
  <2>2. PICK y \in TablesOf(R) : y = g[i]
    BY <2>1 DEF Rows
  <2>3. g[i + 1] = RowFill(y, i + 1, k)
    BY <1>6, <2>1, <2>2
  <2>4. OneRow(R, y, i + 1, k, g[i + 1], TCols)
    BY <2>1, <2>3, CellsFilled
  <2>5. ASSUME NEW p \in 1 .. i + 1, NEW c \in Columns PROVE Held(g[i + 1], p, c) = Field(k + p, c)
    <3>1. p \in Nat /\ c < TCols
      BY TableConstants DEF Columns
    <3>2. Held(g[i + 1], p, c) = IF p = i + 1 THEN Field(k + (i + 1), c) ELSE Held(y, p, c)
      BY <2>4, <3>1 DEF OneRow
    <3>3. p # i + 1 => p \in 1 .. i
      OBVIOUS
    <3>. QED
      BY <2>1, <2>2, <3>2, <3>3 DEF Rows
  <2>6. Rows(R, t, k, g[i + 1], i + 1)
    BY <2>4, <2>5 DEF Rows, OneRow
  <2>. QED
    BY <2>1, <2>6
<1>9. n \in S
  <2>1. \A i \in 0 .. n - 1 : i \in S => i + 1 \in S
    BY <1>8
  <2>2. n \in 0 .. n
    OBVIOUS
  <2> HIDE DEF S
  <2> QED
    BY <1>7, <2>1, <2>2, Inductive
<1>. QED
  BY <1>0, <1>5, <1>9, TableFilled

-----------------------------------------------------------------------------
(* What was read is the result so far, and the table has the rows that     *)
(* come next.                                                              *)
CursorSizes ==
  /\ cresult \in Nat /\ ctaken \in Nat /\ ctaken <= cresult
  /\ cmax \in Nat /\ cmax <= ctaken /\ cpos \in Nat
  /\ cdata \in BOOLEAN /\ (cdata <=> cmax > 0) /\ cdone \in BOOLEAN
  /\ cdone => ctaken = cresult
RowsGiven(s) == s \in Seq([Columns -> Nat]) /\ \A i \in 1 .. Len(s) : s[i] = ResultRow(i)
CursorGave ==
  /\ RowsGiven(cgiven)
  /\ cmax > 0 => cpos < cmax /\ Len(cgiven) = ctaken - cmax + cpos + 1
  /\ cmax = 0 => Len(cgiven) = ctaken
  /\ cstate = "end" => cmax = 0 /\ ctaken = cresult
CursorIInv ==
  /\ CursorSizes /\ CursorGave
  /\ ctable \in TablesOf(TPrefetch + 1)
  /\ \A p \in 1 .. cmax, c \in Columns : Held(ctable, p, c) = Field(ctaken - cmax + p, c)
  /\ cstate \in {"open", "end", "gone"}
  /\ cdeletes = IF cstate = "gone" THEN (IF cdata THEN 2 ELSE 1) ELSE 0

(* A cursor starts with nothing taken.                                     *)
LEMMA CursorStarts == CursorInit => CursorIInv
<1> SUFFICES ASSUME CursorInit PROVE CursorIInv
  OBVIOUS
<1>0. TPrefetch + 1 \in Nat \ {0} /\ TResults \subseteq Nat
  BY TableConstants
<1>1. /\ cresult \in Nat /\ cpos = 0 /\ cmax = 0 /\ cdata = FALSE /\ cdone = FALSE
      /\ ctable = NewTable(TCols, TPrefetch + 1) /\ ctaken = 0 /\ cgiven = <<>>
      /\ cstate = "open" /\ cdeletes = 0
  BY <1>0 DEF CursorInit
<1>2. CursorSizes
  <2>1. cdata \in BOOLEAN /\ cdone \in BOOLEAN /\ ~cdata /\ ~cdone
    BY <1>1
  <2>2. ctaken \in Nat /\ ctaken <= cresult /\ cmax \in Nat /\ cmax <= ctaken /\ cpos \in Nat /\ ~(cmax > 0)
    BY <1>1
  <2>. QED
    BY <1>1, <2>1, <2>2 DEF CursorSizes
<1>3. CursorGave
  BY <1>1 DEF CursorGave, RowsGiven
<1>4. ctable \in TablesOf(TPrefetch + 1)
  BY <1>0, <1>1, NewTables
<1>. QED
  BY <1>1, <1>2, <1>3, <1>4 DEF CursorIInv

(* A row that holds a row of the result is given as that row.              *)
LEMMA RowRead ==
  ASSUME NEW t \in TablesOf(TPrefetch + 1), NEW p \in Nat, NEW n \in Nat,
         \A c \in Columns : Held(t, p, c) = Field(n, c)
  PROVE  [c \in Columns |-> Cell(t, p, c)] = ResultRow(n) /\ ResultRow(n) \in [Columns -> Nat]
<1>1. TPrefetch + 1 \in Nat \ {0}
  BY TableConstants
<1>2. \A c \in Columns : Cell(t, p, c) = Field(n, c)
  BY <1>1, CellHeld
<1>3. \A c \in Columns : Field(n, c) \in Nat
  BY FieldIs
<1>. QED
  BY <1>2, <1>3 DEF ResultRow

(* One more row is read.                                                   *)
LEMMA RowGiven ==
  ASSUME NEW s, RowsGiven(s), ResultRow(Len(s) + 1) \in [Columns -> Nat]
  PROVE  RowsGiven(Append(s, ResultRow(Len(s) + 1))) /\ Len(Append(s, ResultRow(Len(s) + 1))) = Len(s) + 1
<1>0. s \in Seq([Columns -> Nat]) /\ \A i \in 1 .. Len(s) : s[i] = ResultRow(i)
  BY DEF RowsGiven
<1>00. PICK row \in [Columns -> Nat] : row = ResultRow(Len(s) + 1)
  OBVIOUS
<1>000. PICK u : u = Append(s, row)
  OBVIOUS
<1>1. /\ u \in Seq([Columns -> Nat]) /\ Len(u) = Len(s) + 1 /\ Len(s) \in Nat
      /\ \A i \in 1 .. Len(s) : u[i] = s[i]
      /\ u[Len(s) + 1] = row
  BY <1>0, <1>000, AppendProperties
<1>2. ASSUME NEW i \in 1 .. Len(s) + 1 PROVE u[i] = ResultRow(i)
  <2>1. i \in 1 .. Len(s) \/ i = Len(s) + 1
    BY <1>1
  <2>. QED
    BY <2>1, <1>0, <1>00, <1>1
<1>. QED
  BY <1>00, <1>000, <1>1, <1>2 DEF RowsGiven

(* Fetching and giving keep the rows in the order of the result.           *)
LEMMA CursorSteps == CursorIInv /\ [RowNext]_cursorVars => CursorIInv'
<1> SUFFICES ASSUME CursorIInv, [RowNext]_cursorVars PROVE CursorIInv'
  OBVIOUS
<1>0. TPrefetch \in Nat /\ TPrefetch > 0 /\ TPrefetch + 1 \in Nat \ {0}
  BY TableConstants
<1>00. /\ cresult \in Nat /\ ctaken \in Nat /\ ctaken <= cresult
       /\ cmax \in Nat /\ cmax <= ctaken /\ cpos \in Nat
       /\ cdata \in BOOLEAN /\ (cdata <=> cmax > 0) /\ cdone \in BOOLEAN
       /\ cdone => ctaken = cresult
       /\ ctable \in TablesOf(TPrefetch + 1)
       /\ \A p \in 1 .. cmax, c \in Columns : Held(ctable, p, c) = Field(ctaken - cmax + p, c)
       /\ RowsGiven(cgiven) /\ Len(cgiven) \in Nat
       /\ cmax > 0 => cpos < cmax /\ Len(cgiven) = ctaken - cmax + cpos + 1
       /\ cmax = 0 => Len(cgiven) = ctaken
  BY DEF CursorIInv, CursorSizes, CursorGave, RowsGiven
<1>000. PICK l \in Nat : l = Len(cgiven)
  BY <1>00
<1>1. CASE CursorStep /\ cpos + 1 < cmax
  <2>1. /\ cpos' = cpos + 1 /\ UNCHANGED <<cmax, cdata, cdone, ctable, ctaken, cstate, cresult, cdeletes>>
        /\ cstate = "open"
    BY <1>1 DEF CursorStep
  <2>2. cgiven' = Append(cgiven, [c \in Columns |-> Cell(ctable', cpos' + 1, c)])
    BY <1>1, <2>1 DEF CursorStep
  <2>3. PICK p \in 1 .. cmax : p = cpos' + 1 /\ p \in Nat /\ ctaken - cmax + p = Len(cgiven) + 1
    <3>1. cpos + 2 \in 1 .. cmax /\ cpos' + 1 = cpos + 2 /\ cpos + 2 \in Nat
      BY <1>00, <1>1, <2>1
    <3>2. ctaken - cmax + (cpos + 2) = Len(cgiven) + 1
      <4>1. l = ctaken - cmax + cpos + 1
        BY <1>00, <1>000, <1>1
      <4>2. ctaken - cmax + (cpos + 2) = l + 1
        BY <1>00, <4>1
      <4>. QED
        BY <1>000, <4>2
    <3>. QED
      BY <3>1, <3>2
  <2>4. Len(cgiven) + 1 \in Nat
    BY <1>00
  <2>5. [c \in Columns |-> Cell(ctable, p, c)] = ResultRow(Len(cgiven) + 1) /\ ResultRow(Len(cgiven) + 1) \in [Columns -> Nat]
    <3>1. \A c \in Columns : Held(ctable, p, c) = Field(Len(cgiven) + 1, c)
      BY <1>00, <2>3
    <3>. QED
      BY <1>00, <2>3, <2>4, <3>1, RowRead
  <2>6. cgiven' = Append(cgiven, ResultRow(Len(cgiven) + 1))
    BY <2>1, <2>2, <2>3, <2>5
  <2>7. RowsGiven(cgiven') /\ Len(cgiven') = Len(cgiven) + 1
    BY <1>00, <2>5, <2>6, RowGiven
  <2>8. CursorSizes'
    BY <1>00, <2>1 DEF CursorSizes
  <2>9. CursorGave'
    <3>1. cpos' < cmax' /\ Len(cgiven') = ctaken' - cmax' + cpos' + 1 /\ cmax' # 0
      <4>1. l = ctaken - cmax + cpos + 1
        BY <1>00, <1>000, <1>1
      <4>2. l + 1 = ctaken - cmax + (cpos + 1) + 1
        BY <1>00, <4>1
      <4>. QED
        BY <1>00, <1>000, <1>1, <2>1, <2>7, <4>2
    <3>. QED
      BY <2>1, <2>7, <3>1 DEF CursorGave
  <2>. QED
    BY <2>1, <2>8, <2>9 DEF CursorIInv
<1>2. CASE CursorStep /\ ~(cpos + 1 < cmax)
  <2>1. CursorFill /\ cstate = "open" /\ cresult' = cresult /\ cdeletes' = cdeletes
    BY <1>2 DEF CursorStep
  <2>2. PICK n \in Nat : n = (IF cdone THEN 0 ELSE IF cresult - ctaken >= TPrefetch THEN TPrefetch ELSE cresult - ctaken)
    <3>1. PICK d \in Nat : d = cresult - ctaken
      BY <1>00
    <3>. QED
      BY <1>0, <3>1
  <2>3. /\ ctable' = Filled(ctable, n) /\ ctaken' = ctaken + n
        /\ cdone' = (cdone \/ n < TPrefetch) /\ cmax' = n /\ cdata' = (n > 0)
    BY <2>1, <2>2 DEF CursorFill
  <2>4. Rows(TPrefetch + 1, ctable, ctaken, ctable', n)
    BY <1>0, <1>00, <2>3, FilledHolds
  <2>5. /\ ctable' \in TablesOf(TPrefetch + 1)
        /\ \A p \in 1 .. n, c \in Columns : Held(ctable', p, c) = Field(ctaken + p, c)
    BY <2>4 DEF Rows
  <2>6. n <= cresult - ctaken /\ (n < TPrefetch => n = cresult - ctaken)
    BY <1>0, <1>00, <2>2
  <2>7. Len(cgiven) = ctaken
    BY <1>00, <1>2
  <2>8. ctaken' - cmax' = ctaken
    BY <1>00, <2>3
  <2>9. \A p \in 1 .. cmax', c \in Columns : Held(ctable', p, c) = Field(ctaken' - cmax' + p, c)
    BY <2>3, <2>5, <2>8
  <2>10. CursorSizes' \/ cpos' \notin Nat
    <3>1. cdata' \in BOOLEAN /\ (cdata' <=> cmax' > 0)
      <4>1. cdata' \in BOOLEAN
        BY <2>3
      <4>2. cdata' <=> n > 0
        BY <2>3
      <4>3. cmax' = n
        BY <2>3
      <4>. QED
        BY <4>1, <4>2, <4>3
    <3>2. cdone' \in BOOLEAN /\ (cdone' <=> cdone \/ n < TPrefetch)
      BY <1>00, <2>3
    <3>3. ctaken' \in Nat /\ ctaken' <= cresult' /\ cmax' \in Nat /\ cmax' <= ctaken' /\ cresult' \in Nat
      BY <1>00, <2>1, <2>3, <2>6
    <3>4. cdone' => ctaken' = cresult'
      <4>1. cdone => n = 0
        BY <2>2
      <4>. QED
        BY <1>00, <2>1, <2>3, <2>6, <3>2, <4>1
    <3>. QED
      BY <3>1, <3>2, <3>3, <3>4 DEF CursorSizes
  <2>11. CASE n > 0
    <3>1. cpos' = 0 /\ cstate' = "open" /\ cmax' > 0
      BY <1>2, <2>3, <2>11 DEF CursorStep
    <3>2. cgiven' = Append(cgiven, [c \in Columns |-> Cell(ctable', cpos' + 1, c)])
      BY <1>2, <3>1 DEF CursorStep
    <3>3. PICK p \in 1 .. n : p = cpos' + 1 /\ p = 1
      BY <2>11, <3>1
    <3>4. ctaken + p = Len(cgiven) + 1 /\ Len(cgiven) + 1 \in Nat /\ p \in Nat
      BY <1>00, <2>7, <3>3
    <3>5. [c \in Columns |-> Cell(ctable', p, c)] = ResultRow(Len(cgiven) + 1) /\ ResultRow(Len(cgiven) + 1) \in [Columns -> Nat]
      <4>1. \A c \in Columns : Held(ctable', p, c) = Field(Len(cgiven) + 1, c)
        BY <2>5, <3>4
      <4>. QED
        BY <2>5, <3>4, <4>1, RowRead
    <3>6. cgiven' = Append(cgiven, ResultRow(Len(cgiven) + 1))
      BY <3>2, <3>3, <3>5
    <3>7. RowsGiven(cgiven') /\ Len(cgiven') = Len(cgiven) + 1
      BY <1>00, <3>5, <3>6, RowGiven
    <3>8. CursorSizes'
      BY <2>10, <3>1
    <3>9. CursorGave'
      <4>1. cpos' < cmax' /\ Len(cgiven') = ctaken' - cmax' + cpos' + 1 /\ cmax' # 0 /\ cstate' # "end"
        BY <1>00, <2>7, <2>8, <2>11, <3>1, <3>7, <2>3
      <4>. QED
        BY <3>7, <4>1 DEF CursorGave
    <3>. QED
      BY <2>1, <2>5, <2>9, <3>1, <3>8, <3>9 DEF CursorIInv
  <2>12. CASE ~(n > 0)
    <3>1. cpos' = cpos + 1 /\ cstate' = "end" /\ cmax' = 0 /\ n = 0
      BY <1>2, <2>3, <2>12 DEF CursorStep
    <3>2. cgiven' = cgiven
      BY <1>2, <3>1 DEF CursorStep
    <3>3. CursorSizes'
      BY <1>00, <2>10, <3>1
    <3>4. ctaken' = ctaken /\ ctaken = cresult
      BY <1>0, <1>00, <2>3, <2>6, <3>1
    <3>5. CursorGave'
      BY <1>00, <2>1, <2>7, <3>1, <3>2, <3>4 DEF CursorGave
    <3>6. cdeletes = 0
      BY <2>1 DEF CursorIInv
    <3>. QED
      BY <2>1, <2>5, <2>9, <3>1, <3>3, <3>5, <3>6 DEF CursorIInv
  <2>. QED
    BY <2>11, <2>12
<1>3. CASE CursorDestroy
  <2>1. /\ cstate # "gone" /\ cstate' = "gone" /\ cdeletes' = cdeletes + (IF cdata THEN 2 ELSE 1)
        /\ UNCHANGED <<cpos, cmax, cdata, cdone, ctable, cresult, ctaken, cgiven>>
    BY <1>3 DEF CursorDestroy
  <2>2. cdeletes = 0
    BY <2>1 DEF CursorIInv
  <2>3. cdeletes' = IF cdata THEN 2 ELSE 1
    BY <2>1, <2>2
  <2>. QED
    BY <2>1, <2>3 DEF CursorIInv, CursorSizes, CursorGave
<1>4. CASE UNCHANGED cursorVars
  BY <1>4 DEF cursorVars, CursorIInv, CursorSizes, CursorGave
<1>. QED
  BY <1>1, <1>2, <1>3, <1>4 DEF RowNext

(* The rows given are the first of the result, in the end all of them.     *)
LEMMA CursorFollows == CursorIInv => CursorReadsResult
<1> SUFFICES ASSUME CursorIInv PROVE CursorReadsResult
  OBVIOUS
<1>1. cgiven \in Seq([Columns -> Nat]) /\ \A i \in 1 .. Len(cgiven) : cgiven[i] = ResultRow(i)
  BY DEF CursorIInv, CursorGave, RowsGiven
<1>2. cgiven = [i \in 1 .. Len(cgiven) |-> ResultRow(i)]
  <2>1. cgiven = [i \in 1 .. Len(cgiven) |-> cgiven[i]]
    BY <1>1
  <2>. QED
    BY <1>1, <2>1
<1>3. cstate = "end" => Len(cgiven) = cresult
  BY DEF CursorIInv, CursorGave
<1>4. cmax = 0 => cdeletes <= 1
  BY DEF CursorIInv, CursorSizes
<1>. QED
  BY <1>2, <1>3, <1>4 DEF CursorReadsResult

-----------------------------------------------------------------------------
(* The slots of ecchain.c.                                                 *)
SlotSizes ==
  /\ slength \in Nat \ {0} /\ sbuffer \in [0 .. slength - 1 -> Nat]
  /\ snextempty \in Nat /\ snextempty <= slength
  /\ sadds \in Nat /\ sowner \in Seq(Int) /\ Len(sowner) = sadds
SlotOwners ==   \* what a caller was told has its pointer, and nobody else's
  /\ \A p \in 1 .. sadds : sowner[p] # GivenBack => sowner[p] \in 0 .. snextempty - 1 /\ sbuffer[sowner[p]] = p
  /\ \A i \in 0 .. snextempty - 1 :
       sbuffer[i] # NoPointer => sbuffer[i] \in 1 .. sadds /\ sowner[sbuffer[i]] = i
SlotStack ==    \* slots given back are free, and each is noted once
  /\ sstack \in Seq(Nat)
  /\ \A k \in 1 .. Len(sstack) : sstack[k] < snextempty /\ sbuffer[sstack[k]] = NoPointer
  /\ \A j, k \in 1 .. Len(sstack) : sstack[j] = sstack[k] => j = k
SlotIInv == SlotSizes /\ SlotOwners /\ SlotStack

(* No slot is in use at first.                                             *)
LEMMA SlotStarts == SlotInit => SlotIInv
<1> SUFFICES ASSUME SlotInit PROVE SlotIInv
  OBVIOUS
<1>1. /\ slength \in Nat \ {0} /\ sbuffer \in [0 .. slength - 1 -> Nat] /\ snextempty = 0
      /\ sstack = <<>> /\ sadds = 0 /\ sowner = <<>>
  BY SlotConstants DEF SlotInit, EmptySlots, NoPointer
<1>2. SlotSizes
  BY <1>1 DEF SlotSizes
<1>3. SlotOwners
  BY <1>1 DEF SlotOwners
<1>4. SlotStack
  BY <1>1 DEF SlotStack
<1>. QED
  BY <1>2, <1>3, <1>4 DEF SlotIInv

(* The next index: a slot that was given back, or a new one.               *)
NextFits(x) ==
  /\ x.length \in Nat \ {0} /\ x.buffer \in [0 .. x.length - 1 -> Nat]
  /\ x.next \in Nat /\ x.next <= x.length /\ x.next >= snextempty
  /\ x.pos \in Nat /\ x.pos < x.next
  /\ \A i \in 0 .. snextempty - 1 : x.buffer[i] = sbuffer[i]
  /\ \A i \in 0 .. x.next - 1 : i # x.pos => i < snextempty
  /\ x.pos < snextempty => sbuffer[x.pos] = NoPointer
  /\ x.stack \in Seq(Nat)
  /\ \A k \in 1 .. Len(x.stack) :
       x.stack[k] < snextempty /\ sbuffer[x.stack[k]] = NoPointer /\ x.stack[k] # x.pos
  /\ \A j, k \in 1 .. Len(x.stack) : x.stack[j] = x.stack[k] => j = k

(* The next index is free, and is not on the stack any more.               *)
LEMMA NextIndexFits == ASSUME SlotIInv PROVE NextFits(NextIndex)
<1>0. /\ slength \in Nat /\ slength > 0 /\ sbuffer \in [0 .. slength - 1 -> Nat]
      /\ snextempty \in Nat /\ snextempty <= slength
      /\ sstack \in Seq(Nat)
      /\ \A k \in 1 .. Len(sstack) : sstack[k] < snextempty /\ sbuffer[sstack[k]] = NoPointer
      /\ \A j, k \in 1 .. Len(sstack) : sstack[j] = sstack[k] => j = k
  BY DEF SlotIInv, SlotSizes, SlotStack
<1>1. PICK x : x = NextIndex
  OBVIOUS
<1>2. CASE sstack # <<>>
  <2>1. PICK t : t = Tail(sstack)
    OBVIOUS
  <2>2. /\ t \in Seq(Nat) /\ Len(t) = Len(sstack) - 1 /\ Len(sstack) \in Nat
        /\ \A k \in 1 .. Len(t) : t[k] = sstack[k + 1]
        /\ Head(sstack) = sstack[1] /\ Len(sstack) > 0
    BY <1>0, <1>2, <2>1, HeadTailProperties, EmptySeq
  <2>3. /\ x.pos = sstack[1] /\ x.stack = t /\ x.next = snextempty /\ x.length = slength /\ x.buffer = sbuffer
    BY <1>1, <1>2, <2>1, <2>2 DEF NextIndex
  <2>4. 1 \in 1 .. Len(sstack) /\ sstack[1] \in Nat
    BY <1>0, <2>2
  <2>5. x.pos \in Nat /\ x.pos < snextempty /\ sbuffer[x.pos] = NoPointer
    BY <1>0, <2>3, <2>4
  <2>6. ASSUME NEW k \in 1 .. Len(t) PROVE k + 1 \in 1 .. Len(sstack) /\ k + 1 # 1 /\ k \in Nat
    BY <2>2
  <2>7. ASSUME NEW k \in 1 .. Len(t) PROVE t[k] < snextempty /\ sbuffer[t[k]] = NoPointer /\ t[k] # x.pos
    <3>1. t[k] = sstack[k + 1] /\ k + 1 \in 1 .. Len(sstack) /\ k + 1 # 1
      BY <2>2, <2>6
    <3>2. sstack[k + 1] # sstack[1]
      BY <1>0, <2>4, <3>1
    <3>. QED
      BY <1>0, <2>3, <3>1, <3>2
  <2>8. ASSUME NEW j \in 1 .. Len(t), NEW k \in 1 .. Len(t), t[j] = t[k] PROVE j = k
    <3>1. sstack[j + 1] = sstack[k + 1]
      BY <2>2, <2>8
    <3>2. j + 1 = k + 1
      BY <1>0, <2>6, <3>1
    <3>. QED
      BY <2>6, <3>2
  <2>9. /\ x.length \in Nat \ {0} /\ x.buffer \in [0 .. x.length - 1 -> Nat]
        /\ x.next \in Nat /\ x.next <= x.length /\ x.next >= snextempty
        /\ x.pos \in Nat /\ x.pos < x.next
    BY <1>0, <2>3, <2>5
  <2>10. /\ \A i \in 0 .. snextempty - 1 : x.buffer[i] = sbuffer[i]
         /\ \A i \in 0 .. x.next - 1 : i # x.pos => i < snextempty
         /\ x.pos < snextempty => sbuffer[x.pos] = NoPointer
    BY <1>0, <2>3, <2>5
  <2>11. x.stack \in Seq(Nat) /\ x.stack = t
    BY <2>2, <2>3
  <2> HIDE DEF NextIndex
  <2>. QED
    BY <1>1, <2>7, <2>8, <2>9, <2>10, <2>11 DEF NextFits
<1>3. CASE sstack = <<>>
  <2>1. PICK len \in Nat : len = IF snextempty = slength THEN 2 * slength ELSE slength
    BY <1>0
  <2>2. PICK b : b = [i \in 0 .. len - 1 |-> IF i < slength THEN sbuffer[i] ELSE NoPointer]
    OBVIOUS
  <2>3. x.pos = snextempty /\ x.stack = <<>> /\ x.next = snextempty + 1 /\ x.length = len /\ x.buffer = b
    BY <1>1, <1>3, <2>1, <2>2 DEF NextIndex
  <2>4. len > 0 /\ snextempty + 1 <= len /\ slength <= len
    BY <1>0, <2>1
  <2>5. b \in [0 .. len - 1 -> Nat] /\ \A i \in 0 .. snextempty - 1 : b[i] = sbuffer[i]
    BY <1>0, <2>2, <2>4 DEF NoPointer
  <2>6. Len(x.stack) = 0 /\ x.stack \in Seq(Nat)
    BY <2>3
  <2>7. \A i \in 0 .. x.next - 1 : i # x.pos => i < snextempty
    BY <1>0, <2>3
  <2>. QED
    BY <1>0, <1>1, <2>3, <2>4, <2>5, <2>6, <2>7 DEF NextFits
<1>. QED
  BY <1>2, <1>3

(* Adding takes a free slot, and giving back frees the one that is named.  *)
LEMMA SlotSteps == SlotIInv /\ [SlotNext]_slotVars => SlotIInv'
<1> SUFFICES ASSUME SlotIInv, [SlotNext]_slotVars PROVE SlotIInv'
  OBVIOUS
<1>0. /\ slength \in Nat /\ slength > 0 /\ sbuffer \in [0 .. slength - 1 -> Nat]
      /\ snextempty \in Nat /\ snextempty <= slength
      /\ sadds \in Nat /\ sowner \in Seq(Int) /\ Len(sowner) = sadds
  BY DEF SlotIInv, SlotSizes
<1>00. /\ \A p \in 1 .. sadds : sowner[p] # GivenBack => sowner[p] \in 0 .. snextempty - 1 /\ sbuffer[sowner[p]] = p
       /\ \A i \in 0 .. snextempty - 1 :
            sbuffer[i] # NoPointer => sbuffer[i] \in 1 .. sadds /\ sowner[sbuffer[i]] = i
  BY DEF SlotIInv, SlotOwners
<1>000. /\ sstack \in Seq(Nat) /\ Len(sstack) \in Nat
        /\ \A k \in 1 .. Len(sstack) : sstack[k] < snextempty /\ sbuffer[sstack[k]] = NoPointer
        /\ \A j, k \in 1 .. Len(sstack) : sstack[j] = sstack[k] => j = k
  BY DEF SlotIInv, SlotStack
<1>1. CASE SlotAdd
  <2>1. PICK x : x = NextIndex /\ NextFits(x)
    BY NextIndexFits
  <2>2. /\ sadds' = sadds + 1
        /\ sbuffer' = [x.buffer EXCEPT ![x.pos] = sadds + 1]
        /\ sstack' = x.stack /\ snextempty' = x.next /\ slength' = x.length
        /\ sowner' = Append(sowner, x.pos)
    BY <1>1, <2>1 DEF SlotAdd
  <2>3. /\ x.length \in Nat \ {0} /\ x.buffer \in [0 .. x.length - 1 -> Nat]
        /\ x.next \in Nat /\ x.next <= x.length /\ x.next >= snextempty
        /\ x.pos \in Nat /\ x.pos < x.next
        /\ \A i \in 0 .. snextempty - 1 : x.buffer[i] = sbuffer[i]
        /\ \A i \in 0 .. x.next - 1 : i # x.pos => i < snextempty
        /\ x.pos < snextempty => sbuffer[x.pos] = NoPointer
    BY <2>1 DEF NextFits
  <2>4. /\ sowner' \in Seq(Int) /\ Len(sowner') = sadds + 1
        /\ \A p \in 1 .. sadds : sowner'[p] = sowner[p]
        /\ sowner'[sadds + 1] = x.pos
    BY <1>0, <2>2, <2>3, AppendProperties
  <2>5. /\ sbuffer' \in [0 .. x.length - 1 -> Nat] /\ sbuffer'[x.pos] = sadds + 1
        /\ \A i \in 0 .. x.length - 1 : i # x.pos => sbuffer'[i] = x.buffer[i]
    BY <1>0, <2>2, <2>3
  <2>6. \A i \in 0 .. snextempty - 1 : i # x.pos => sbuffer'[i] = sbuffer[i]
    <3>1. \A i \in 0 .. snextempty - 1 : i \in 0 .. x.length - 1
      BY <1>0, <2>3
    <3>. QED
      BY <2>3, <2>5, <3>1
  <2>7. SlotSizes'
    BY <1>0, <2>2, <2>3, <2>4, <2>5 DEF SlotSizes
  <2>8. ASSUME NEW p \in 1 .. sadds + 1, sowner'[p] # GivenBack
        PROVE  sowner'[p] \in 0 .. x.next - 1 /\ sbuffer'[sowner'[p]] = p
    <3>1. CASE p = sadds + 1
      BY <2>3, <2>4, <2>5, <3>1
    <3>2. CASE p # sadds + 1
      <4>1. p \in 1 .. sadds /\ p # 0
        BY <1>0, <3>2
      <4>2. sowner[p] \in 0 .. snextempty - 1 /\ sbuffer[sowner[p]] = p /\ sowner'[p] = sowner[p]
        BY <1>00, <2>4, <2>8, <4>1
      <4>3. sowner[p] # x.pos
        <5>1. sowner[p] < snextempty
          BY <1>0, <4>2
        <5>. QED
          BY <2>3, <4>1, <4>2, <5>1 DEF NoPointer
      <4>4. sowner[p] \in 0 .. x.next - 1
        BY <1>0, <2>3, <4>2
      <4>. QED
        BY <2>6, <4>2, <4>3, <4>4
    <3>. QED
      BY <3>1, <3>2
  <2>9. ASSUME NEW i \in 0 .. x.next - 1, sbuffer'[i] # NoPointer
        PROVE  sbuffer'[i] \in 1 .. sadds + 1 /\ sowner'[sbuffer'[i]] = i
    <3>1. CASE i = x.pos
      BY <1>0, <2>4, <2>5, <3>1
    <3>2. CASE i # x.pos
      <4>1. i \in 0 .. snextempty - 1
        BY <1>0, <2>3, <3>2
      <4>2. sbuffer'[i] = sbuffer[i] /\ sbuffer[i] \in 1 .. sadds /\ sowner[sbuffer[i]] = i
        BY <1>00, <2>6, <2>9, <3>2, <4>1
      <4>. QED
        BY <1>0, <2>4, <4>2
    <3>. QED
      BY <3>1, <3>2
  <2>10. SlotOwners'
    BY <2>2, <2>8, <2>9 DEF SlotOwners
  <2>11. SlotStack'
    <3>1. /\ x.stack \in Seq(Nat)
          /\ \A k \in 1 .. Len(x.stack) :
               x.stack[k] < snextempty /\ sbuffer[x.stack[k]] = NoPointer /\ x.stack[k] # x.pos
          /\ \A j, k \in 1 .. Len(x.stack) : x.stack[j] = x.stack[k] => j = k
      BY <2>1 DEF NextFits
    <3>2. ASSUME NEW k \in 1 .. Len(x.stack)
          PROVE  x.stack[k] < x.next /\ sbuffer'[x.stack[k]] = NoPointer
      <4>1. x.stack[k] \in Nat /\ x.stack[k] < snextempty /\ sbuffer[x.stack[k]] = NoPointer /\ x.stack[k] # x.pos
        BY <3>1
      <4>2. x.stack[k] \in 0 .. snextempty - 1 /\ x.stack[k] < x.next
        BY <1>0, <2>3, <4>1
      <4>. QED
        BY <2>6, <4>1, <4>2
    <3>. QED
      BY <2>2, <3>1, <3>2 DEF SlotStack
  <2>. QED
    BY <2>7, <2>10, <2>11 DEF SlotIInv
<1>2. CASE SlotClear
  <2>1. /\ sbuffer' = [i \in 0 .. slength - 1 |-> NoPointer] /\ snextempty' = 0 /\ sstack' = <<>>
        /\ sowner' = [p \in DOMAIN sowner |-> GivenBack] /\ slength' = slength /\ sadds' = sadds
    BY <1>2 DEF SlotClear, EmptySlots
  <2>2. sowner' \in Seq(Int) /\ Len(sowner') = sadds /\ \A p \in 1 .. sadds : sowner'[p] = GivenBack
    BY <1>0, <2>1 DEF GivenBack
  <2>3. SlotSizes'
    BY <1>0, <2>1, <2>2 DEF SlotSizes, NoPointer
  <2>4. SlotOwners' /\ SlotStack'
    BY <1>0, <2>1, <2>2 DEF SlotOwners, SlotStack
  <2>. QED
    BY <2>3, <2>4 DEF SlotIInv
<1>3. ASSUME NEW q \in 1 .. SMaxAdds, SlotDel(q) PROVE SlotIInv'
  <2>1. /\ q \in DOMAIN sowner /\ sowner[q] # GivenBack
        /\ sstack' = Append(sstack, sowner[q])
        /\ sbuffer' = [sbuffer EXCEPT ![sowner[q]] = NoPointer]
        /\ sowner' = [sowner EXCEPT ![q] = GivenBack]
        /\ slength' = slength /\ snextempty' = snextempty /\ sadds' = sadds
    BY <1>3 DEF SlotDel, HoldsSlot
  <2>2. q \in 1 .. sadds
    BY <1>0, <2>1
  <2>3. PICK i \in 0 .. snextempty - 1 : i = sowner[q] /\ sbuffer[i] = q /\ i \in Nat
    BY <1>00, <2>1, <2>2
  <2>4. /\ sbuffer' \in [0 .. slength - 1 -> Nat] /\ sbuffer'[i] = NoPointer
        /\ \A k \in 0 .. slength - 1 : k # i => sbuffer'[k] = sbuffer[k]
    <3>1. i \in 0 .. slength - 1
      BY <1>0
    <3>. QED
      BY <1>0, <2>1, <2>3, <3>1 DEF NoPointer
  <2>5. /\ sowner' \in Seq(Int) /\ Len(sowner') = sadds /\ sowner'[q] = GivenBack
        /\ \A p \in 1 .. sadds : p # q => sowner'[p] = sowner[p]
    BY <1>0, <2>1, <2>2 DEF GivenBack
  <2>6. \A k \in 0 .. snextempty - 1 : k \in 0 .. slength - 1
    BY <1>0
  <2>7. SlotSizes'
    BY <1>0, <2>1, <2>4, <2>5 DEF SlotSizes
  <2>8. ASSUME NEW p \in 1 .. sadds, sowner'[p] # GivenBack
        PROVE  sowner'[p] \in 0 .. snextempty - 1 /\ sbuffer'[sowner'[p]] = p
    <3>1. p # q /\ sowner'[p] = sowner[p]
      BY <2>5, <2>8
    <3>2. sowner[p] \in 0 .. snextempty - 1 /\ sbuffer[sowner[p]] = p
      BY <1>00, <2>8, <3>1
    <3>3. sowner[p] # i
      BY <2>3, <3>1, <3>2
    <3>. QED
      BY <2>4, <2>6, <3>1, <3>2, <3>3
  <2>9. ASSUME NEW k \in 0 .. snextempty - 1, sbuffer'[k] # NoPointer
        PROVE  sbuffer'[k] \in 1 .. sadds /\ sowner'[sbuffer'[k]] = k
    <3>1. k # i /\ sbuffer'[k] = sbuffer[k]
      BY <2>4, <2>6, <2>9
    <3>2. sbuffer[k] \in 1 .. sadds /\ sowner[sbuffer[k]] = k
      BY <1>00, <2>9, <3>1
    <3>3. sbuffer[k] # q
      BY <2>3, <3>1, <3>2
    <3>. QED
      BY <2>5, <3>1, <3>2, <3>3
  <2>10. SlotOwners'
    BY <2>1, <2>8, <2>9 DEF SlotOwners
  <2>11. SlotStack'
    <3>1. /\ sstack' \in Seq(Nat) /\ Len(sstack') = Len(sstack) + 1
          /\ \A k \in 1 .. Len(sstack) : sstack'[k] = sstack[k]
          /\ sstack'[Len(sstack) + 1] = i
      BY <1>000, <2>1, <2>3, AppendProperties
    <3>2. ASSUME NEW k \in 1 .. Len(sstack)
          PROVE  sstack'[k] < snextempty /\ sbuffer'[sstack'[k]] = NoPointer /\ sstack'[k] # i
      <4>1. sstack[k] \in Nat /\ sstack[k] < snextempty /\ sbuffer[sstack[k]] = NoPointer /\ sstack'[k] = sstack[k]
        BY <1>000, <3>1
      <4>2. sstack[k] \in 0 .. slength - 1
        BY <1>0, <4>1
      <4>3. sstack[k] # i
        BY <2>2, <2>3, <4>1 DEF NoPointer
      <4>. QED
        BY <2>4, <4>1, <4>2, <4>3
    <3>3. ASSUME NEW k \in 1 .. Len(sstack) + 1
          PROVE  sstack'[k] < snextempty /\ sbuffer'[sstack'[k]] = NoPointer
      <4>1. k \in 1 .. Len(sstack) \/ k = Len(sstack) + 1
        BY <1>000
      <4>2. i < snextempty
        BY <1>0
      <4>. QED
        BY <2>4, <3>1, <3>2, <4>1, <4>2
    <3>4. ASSUME NEW j \in 1 .. Len(sstack) + 1, NEW k \in 1 .. Len(sstack) + 1, sstack'[j] = sstack'[k]
          PROVE  j = k
      <4>1. (j \in 1 .. Len(sstack) \/ j = Len(sstack) + 1) /\ (k \in 1 .. Len(sstack) \/ k = Len(sstack) + 1)
        BY <1>000
      <4>. QED
        BY <1>000, <3>1, <3>2, <3>4, <4>1
    <3>. QED
      BY <2>1, <3>1, <3>3, <3>4 DEF SlotStack
  <2>. QED
    BY <2>7, <2>10, <2>11 DEF SlotIInv
<1>4. CASE UNCHANGED slotVars
  BY <1>4 DEF slotVars, SlotIInv, SlotSizes, SlotOwners, SlotStack
<1>. QED
  BY <1>1, <1>2, <1>3, <1>4 DEF SlotNext

-----------------------------------------------------------------------------
(* The walk over the slots: the search from a slot on, and its repetition, *)
(* as the model writes them.                                               *)
SlotsInUse == {k \in 0 .. snextempty - 1 : sbuffer[k] # NoPointer}
SlotSearch(f) ==
  f = [k \in 0 .. snextempty + 1 |->
        IF k > snextempty \/ SlotState(k) < 0 THEN snextempty
        ELSE IF SlotState(k) = 1 THEN k ELSE f[k + 1]]
SlotWalk(f) ==
  f = [k \in 0 .. snextempty |->
        IF SlotFrom(k) = snextempty THEN {} ELSE {SlotFrom(k)} \cup f[SlotFrom(k) + 1]]

(* The search for the next slot, by its function.                          *)
LEMMA SlotSearched == ASSUME NEW i PROVE SlotFrom(i) = (CHOOSE f : SlotSearch(f))[i]
BY DEF SlotFrom, SlotSearch

(* The walk over the slots, by its function.                               *)
LEMMA SlotWalked == WalkedSlots = (CHOOSE f : SlotWalk(f))[0]
BY DEF WalkedSlots, SlotWalk

(* The next slot is the first one in use.                                  *)
LEMMA NextSlot ==
  ASSUME snextempty \in Nat, NEW i \in 0 .. snextempty
  PROVE  First(SlotsInUse, snextempty, i, SlotFrom(i))
<1>1. PICK e \in Nat : e = snextempty
  OBVIOUS
<1>2. PICK A : A = SlotsInUse
  OBVIOUS
<1>3. ASSUME NEW f PROVE Searches(f, A, e, e + 1) <=> SlotSearch(f)
  <2>1. ASSUME NEW k \in 0 .. e + 1
        PROVE  (IF k >= e THEN e ELSE IF k \in A THEN k ELSE f[k + 1])
               = (IF k > snextempty \/ SlotState(k) < 0 THEN snextempty
                  ELSE IF SlotState(k) = 1 THEN k ELSE f[k + 1])
    <3>1. CASE k >= e
      <4>1. SlotState(k) < 0
        BY <1>1, <3>1 DEF SlotState
      <4>. QED
        BY <1>1, <3>1, <4>1
    <3>2. CASE ~(k >= e)
      <4>1. k \in 0 .. e - 1 /\ ~(k > snextempty)
        BY <1>1, <3>2
      <4>2. SlotState(k) = IF sbuffer[k] # NoPointer THEN 1 ELSE 0
        BY <1>1, <3>2 DEF SlotState
      <4>3. ~(SlotState(k) < 0) /\ (SlotState(k) = 1 <=> k \in A)
        BY <1>1, <1>2, <4>1, <4>2 DEF SlotsInUse
      <4>. QED
        BY <3>2, <4>1, <4>3
    <3>. QED
      BY <3>1, <3>2
  <2>. QED
    BY <2>1, <1>1 DEF Searches, SlotSearch
<1>4. e + 1 \in Nat /\ e <= e + 1
  OBVIOUS
<1>5. PICK f : f = (CHOOSE g : SlotSearch(g)) /\ SlotSearch(f)
  <2>1. \E g : Searches(g, A, e, e + 1)
    BY <1>4, SearchFinds
  <2>. QED
    BY <1>3, <2>1
<1>6. First(A, e, i, f[i])
  BY <1>1, <1>3, <1>4, <1>5, SearchFinds
<1>. QED
  BY <1>1, <1>2, <1>5, <1>6, SlotSearched

(* A walk meets exactly the slots in use.                                  *)
LEMMA SlotsAreMet == ASSUME snextempty \in Nat PROVE WalkedSlots = SlotsInUse
<1>1. PICK e \in Nat : e = snextempty
  OBVIOUS
<1>2. PICK A : A = SlotsInUse
  OBVIOUS
<1>3. \A j \in A : j \in 0 .. e - 1
  BY <1>1, <1>2 DEF SlotsInUse
<1> DEFINE w == [k \in 0 .. e |-> {j \in A : j \in k .. e - 1}]
<1>4. \A k \in 0 .. e : w[k] = {j \in A : j \in k .. e - 1}
  OBVIOUS
<1>5. w = [k \in 0 .. e |-> w[k]]
  OBVIOUS
<1> HIDE DEF w
<1>6. ASSUME NEW k \in 0 .. e
      PROVE  /\ SlotFrom(k) \in k .. e
             /\ SlotFrom(k) # e => SlotFrom(k) + 1 \in k + 1 .. e
             /\ w[k] = IF SlotFrom(k) = e THEN {} ELSE {SlotFrom(k)} \cup w[SlotFrom(k) + 1]
  <2>1. PICK n : n = SlotFrom(k) /\ First(A, e, k, n)
    BY <1>1, <1>2, NextSlot
  <2>2. /\ n \in k .. e
        /\ n = e => \A j \in k .. e - 1 : j \notin A
        /\ n # e => /\ n \in A /\ n \in k .. e - 1
                    /\ \A j \in k .. e - 1 : j \in A <=> j = n \/ (j \in A /\ j \in n + 1 .. e - 1)
    BY <2>1, FirstSplits
  <2>3. CASE n = e
    <3>1. w[k] = {}
      BY <1>4, <2>2, <2>3
    <3>. QED
      BY <2>1, <2>2, <2>3, <3>1
  <2>4. CASE n # e
    <3>1. n + 1 \in k + 1 .. e /\ n + 1 \in 0 .. e
      BY <2>2, <2>4
    <3>2. w[n + 1] = {j \in A : j \in n + 1 .. e - 1}
      BY <1>4, <3>1
    <3>3. \A j : j \in n + 1 .. e - 1 => j \in k .. e - 1
      BY <2>2
    <3>4. {j \in A : j \in k .. e - 1} = {n} \cup w[n + 1]
      BY <2>2, <2>4, <3>2, <3>3
    <3>. QED
      BY <1>4, <2>1, <2>2, <2>4, <3>1, <3>4
  <2>. QED
    BY <2>3, <2>4
<1>7. ASSUME NEW f
      PROVE  SlotWalk(f) <=> f = [k \in 0 .. e |-> IF SlotFrom(k) = e THEN {} ELSE {SlotFrom(k)} \cup f[SlotFrom(k) + 1]]
  BY <1>1 DEF SlotWalk
<1>8. SlotWalk(w)
  BY <1>5, <1>6, <1>7
<1>9. PICK f : f = (CHOOSE g : SlotWalk(g)) /\ SlotWalk(f)
  BY <1>8
<1>10. \A k \in 0 .. e : f[k] = IF SlotFrom(k) = e THEN {} ELSE {SlotFrom(k)} \cup f[SlotFrom(k) + 1]
  BY <1>7, <1>9
<1>11. ASSUME NEW k \in 0 .. e, \A j \in k + 1 .. e : f[j] = w[j]
       PROVE  f[k] = w[k]
  BY <1>6, <1>10, <1>11
<1>12. f[0] = w[0]
  <2> HIDE DEF w
  <2>1. \A k \in 0 .. e : f[k] = w[k]
    <3>1. AgreeBehind(f, w, e)
      BY <1>11 DEF AgreeBehind
    <3>2. Agree(f, w, e)
      BY <3>1, FromTheEnd
    <3>. QED
      BY <3>2 DEF Agree
  <2>. QED
    BY <2>1
<1>13. w[0] = A
  <2>1. w[0] = {j \in A : j \in 0 .. e - 1}
    BY <1>4
  <2>. QED
    BY <1>3, <2>1
<1>. QED
  BY <1>2, <1>9, <1>12, <1>13, SlotWalked

(* Every pointer is where its owner was told, and a walk meets all of them.*)
LEMMA SlotFollows == SlotIInv => SlotsKeep
<1> SUFFICES ASSUME SlotIInv PROVE SlotsKeep
  OBVIOUS
<1>0. /\ slength \in Nat /\ snextempty \in Nat /\ snextempty <= slength
      /\ sadds \in Nat /\ sowner \in Seq(Int) /\ DOMAIN sowner = 1 .. sadds
      /\ \A p \in 1 .. sadds : sowner[p] # GivenBack => sowner[p] \in 0 .. snextempty - 1 /\ sbuffer[sowner[p]] = p
      /\ \A i \in 0 .. snextempty - 1 :
           sbuffer[i] # NoPointer => sbuffer[i] \in 1 .. sadds /\ sowner[sbuffer[i]] = i
  BY DEF SlotIInv, SlotSizes, SlotOwners
<1>1. ASSUME NEW p \in DOMAIN sowner, HoldsSlot(p)
      PROVE  sowner[p] \in SlotsInUse /\ SlotGet(sowner[p]) = p /\ sbuffer[sowner[p]] = p
  <2>1. sowner[p] \in 0 .. snextempty - 1 /\ sbuffer[sowner[p]] = p /\ p # 0
    BY <1>0, <1>1 DEF HoldsSlot
  <2>2. sowner[p] < slength
    BY <1>0, <2>1
  <2>. QED
    BY <2>1, <2>2 DEF SlotsInUse, SlotGet, NoPointer
<1>2. ASSUME NEW i \in SlotsInUse PROVE \E p \in {q \in DOMAIN sowner : HoldsSlot(q)} : i = sowner[p]
  <2>1. i \in 0 .. snextempty - 1 /\ sbuffer[i] \in 1 .. sadds /\ sowner[sbuffer[i]] = i
    BY <1>0 DEF SlotsInUse
  <2>2. i # GivenBack
    BY <2>1 DEF GivenBack
  <2>. QED
    BY <1>0, <2>1, <2>2 DEF HoldsSlot
<1>3. WalkedSlots = {sowner[p] : p \in {q \in DOMAIN sowner : HoldsSlot(q)}}
  <2>1. WalkedSlots = SlotsInUse
    BY <1>0, SlotsAreMet
  <2>. QED
    BY <1>1, <1>2, <2>1
<1>4. ASSUME NEW p \in DOMAIN sowner, NEW q \in DOMAIN sowner, HoldsSlot(p), sowner[p] = sowner[q] PROVE p = q
  <2>1. HoldsSlot(q)
    BY <1>4 DEF HoldsSlot
  <2>. QED
    BY <1>1, <1>4, <2>1
<1>. QED
  BY <1>1, <1>3, <1>4 DEF SlotsKeep

-----------------------------------------------------------------------------
(* The pointers of ecvector.c, found by the number they were given.        *)
VectorEntries == [index : Nat, data : Nat]
VectorSizes ==
  /\ vlist \in Seq(VectorEntries) /\ vtold \in Seq(Int) /\ vcounter \in Nat
  /\ \A k \in 1 .. Len(vlist) : vlist[k].index > 0 /\ vlist[k].index <= vcounter
VectorTold ==
  /\ \A k \in 1 .. Len(vlist) :
       vlist[k].data \in 1 .. Len(vtold) /\ vtold[vlist[k].data] = vlist[k].index
  /\ \A j, k \in 1 .. Len(vlist) : vlist[j].index = vlist[k].index => j = k
  /\ \A p \in 1 .. Len(vtold) : vtold[p] # GivenBack => \E k \in 1 .. Len(vlist) : vlist[k].data = p
VectorIInv == VectorSizes /\ VectorTold

(* An empty vector.                                                        *)
LEMMA VectorStarts == VectorInit => VectorIInv
BY DEF VectorInit, VectorIInv, VectorSizes, VectorTold

(* ecvector_find finds the one entry of a number.                          *)
LEMMA PlaceFound ==
  ASSUME VectorIInv, NEW i
  PROVE  /\ \A k \in 1 .. Len(vlist) : vlist[k].index = i => VectorPlace(i) = k
         /\ VectorPlace(i) # 0 => VectorPlace(i) \in 1 .. Len(vlist) /\ vlist[VectorPlace(i)].index = i
<1> DEFINE I == {k \in 1 .. Len(vlist) : vlist[k].index = i}
<1>0. \A j, k \in 1 .. Len(vlist) : vlist[j].index = vlist[k].index => j = k
  BY DEF VectorIInv, VectorTold
<1>1. VectorPlace(i) = IF I # {} THEN Min(I) ELSE 0
  BY DEF VectorPlace, SelectInSeq
<1>2. ASSUME NEW k \in I PROVE Min(I) = k
  <2>1. \A j \in I : j = k
    BY <1>0
  <2>2. k <= k
    OBVIOUS
  <2>3. \E x \in I : \A y \in I : x <= y
    BY <2>1, <2>2
  <2>4. Min(I) \in I
    BY <2>3 DEF Min
  <2>. QED
    BY <2>1, <2>4
<1>3. ASSUME NEW k \in 1 .. Len(vlist), vlist[k].index = i PROVE VectorPlace(i) = k
  BY <1>1, <1>2, <1>3
<1>4. ASSUME VectorPlace(i) # 0 PROVE VectorPlace(i) \in 1 .. Len(vlist) /\ vlist[VectorPlace(i)].index = i
  <2>1. PICK k \in I : TRUE
    BY <1>1, <1>4
  <2>2. VectorPlace(i) = k
    BY <1>3, <2>1
  <2>. QED
    BY <2>1, <2>2
<1>. QED
  BY <1>3, <1>4

(* Adding gives a new number, erasing takes its entry only.                *)
LEMMA VectorSteps == VectorIInv /\ [VectorNext]_vectorVars => VectorIInv'
<1> SUFFICES ASSUME VectorIInv, [VectorNext]_vectorVars PROVE VectorIInv'
  OBVIOUS
<1>0. /\ vlist \in Seq(VectorEntries) /\ vtold \in Seq(Int) /\ vcounter \in Nat
      /\ Len(vlist) \in Nat /\ Len(vtold) \in Nat
      /\ \A k \in 1 .. Len(vlist) : vlist[k] \in VectorEntries /\ vlist[k].index > 0 /\ vlist[k].index <= vcounter
  BY DEF VectorIInv, VectorSizes
<1>00. /\ \A k \in 1 .. Len(vlist) :
            vlist[k].data \in 1 .. Len(vtold) /\ vtold[vlist[k].data] = vlist[k].index
       /\ \A j, k \in 1 .. Len(vlist) : vlist[j].index = vlist[k].index => j = k
       /\ \A p \in 1 .. Len(vtold) : vtold[p] # GivenBack => \E k \in 1 .. Len(vlist) : vlist[k].data = p
  BY DEF VectorIInv, VectorTold
<1>1. CASE VectorAdd
  <2>1. PICK n \in Nat : n = Len(vlist)
    BY <1>0
  <2>2. PICK m \in Nat : m = Len(vtold)
    BY <1>0
  <2>3. PICK e \in VectorEntries : e = [index |-> vcounter + 1, data |-> m + 1] /\ e.index = vcounter + 1 /\ e.data = m + 1
    <3>1. PICK a \in Nat : a = vcounter + 1
      BY <1>0
    <3>2. PICK b \in Nat : b = m + 1
      OBVIOUS
    <3>3. PICK x : x = [index |-> a, data |-> b]
      OBVIOUS
    <3>4. x \in VectorEntries /\ x.index = a /\ x.data = b
      BY <3>3 DEF VectorEntries
    <3>. QED
      BY <3>1, <3>2, <3>3, <3>4
  <2>4. vcounter' = vcounter + 1 /\ vlist' = Append(vlist, e) /\ vtold' = Append(vtold, vcounter + 1)
    BY <1>1, <2>2, <2>3 DEF VectorAdd
  <2>5. /\ vlist' \in Seq(VectorEntries) /\ Len(vlist') = n + 1
        /\ \A k \in 1 .. n : vlist'[k] = vlist[k]
        /\ vlist'[n + 1] = e
    BY <1>0, <2>1, <2>4, AppendProperties
  <2>6. /\ vtold' \in Seq(Int) /\ Len(vtold') = m + 1
        /\ \A p \in 1 .. m : vtold'[p] = vtold[p]
        /\ vtold'[m + 1] = vcounter + 1
    BY <1>0, <2>2, <2>4, AppendProperties
  <2>7. \A k \in 1 .. n + 1 : k \in 1 .. n \/ k = n + 1
    OBVIOUS
  <2>8. \A p \in 1 .. m + 1 : p \in 1 .. m \/ p = m + 1
    OBVIOUS
  <2>9. ASSUME NEW k \in 1 .. n + 1
        PROVE  /\ vlist'[k].index > 0 /\ vlist'[k].index <= vcounter'
               /\ vlist'[k].data \in 1 .. m + 1 /\ vtold'[vlist'[k].data] = vlist'[k].index
    <3>1. CASE k = n + 1
      BY <1>0, <2>3, <2>4, <2>5, <2>6, <3>1
    <3>2. CASE k \in 1 .. n
      <4>1. vlist'[k] = vlist[k] /\ vlist[k].index \in Nat /\ vlist[k].index > 0 /\ vlist[k].index <= vcounter
        BY <1>0, <2>1, <2>5, <3>2 DEF VectorEntries
      <4>2. vlist[k].data \in 1 .. m /\ vtold[vlist[k].data] = vlist[k].index
        BY <1>00, <2>1, <2>2, <3>2
      <4>3. vlist[k].data \in 1 .. m + 1
        BY <4>2
      <4>. QED
        BY <1>0, <2>4, <2>6, <4>1, <4>2, <4>3
    <3>. QED
      BY <2>7, <3>1, <3>2
  <2>10. ASSUME NEW j \in 1 .. n + 1, NEW k \in 1 .. n + 1, vlist'[j].index = vlist'[k].index PROVE j = k
    <3>1. \A i \in 1 .. n : vlist'[i] = vlist[i] /\ vlist[i].index \in Nat /\ vlist[i].index <= vcounter
      BY <1>0, <2>1, <2>5 DEF VectorEntries
    <3>2. vlist'[n + 1].index = vcounter + 1
      BY <2>3, <2>5
    <3>3. \A i \in 1 .. n : vlist'[i].index # vcounter + 1
      BY <1>0, <3>1
    <3>. QED
      BY <1>00, <2>1, <2>7, <2>10, <3>1, <3>2, <3>3
  <2>11. ASSUME NEW p \in 1 .. m + 1, vtold'[p] # GivenBack PROVE \E k \in 1 .. n + 1 : vlist'[k].data = p
    <3>1. CASE p = m + 1
      <4>1. n + 1 \in 1 .. n + 1 /\ vlist'[n + 1].data = p
        BY <2>3, <2>5, <3>1
      <4>. QED
        BY <4>1
    <3>2. CASE p \in 1 .. m
      <4>1. vtold[p] # GivenBack
        BY <2>6, <2>11, <3>2
      <4>2. PICK k \in 1 .. n : vlist[k].data = p
        BY <1>00, <2>1, <2>2, <3>2, <4>1
      <4>3. k \in 1 .. n + 1 /\ vlist'[k].data = p
        BY <2>5, <4>2
      <4>. QED
        BY <4>3
    <3>. QED
      BY <2>8, <3>1, <3>2
  <2>12. VectorSizes'
    BY <1>0, <2>4, <2>5, <2>6, <2>9 DEF VectorSizes
  <2>13. VectorTold'
    BY <2>5, <2>6, <2>9, <2>10, <2>11 DEF VectorTold
  <2>. QED
    BY <2>12, <2>13 DEF VectorIInv
<1>2. CASE VectorClear
  <2>1. vlist' = <<>> /\ vcounter' = 0 /\ vtold' = [p \in DOMAIN vtold |-> GivenBack]
    BY <1>2 DEF VectorClear
  <2>2. vtold' \in Seq(Int) /\ Len(vtold') = Len(vtold) /\ \A p \in 1 .. Len(vtold) : vtold'[p] = GivenBack
    BY <1>0, <2>1 DEF GivenBack
  <2>. QED
    BY <2>1, <2>2 DEF VectorIInv, VectorSizes, VectorTold
<1>3. ASSUME NEW i \in 1 .. SMaxAdds, VectorErase(i) PROVE VectorIInv'
  <2>1. PICK n \in Nat : n = Len(vlist)
    BY <1>0
  <2>2. PICK at \in 1 .. n : at = VectorPlace(i) /\ vlist[at].index = i
    BY <1>3, <2>1, PlaceFound DEF VectorErase
  <2>3. PICK q \in 1 .. Len(vtold) : q = vlist[at].data /\ vtold[q] = i
    BY <1>00, <2>1, <2>2
  <2>4. vlist' = RemoveAt(vlist, at) /\ vtold' = [vtold EXCEPT ![q] = GivenBack] /\ vcounter' = vcounter
    <3>1. VectorGet(i) = q
      <4>1. at # 0
        BY <2>2
      <4>. QED
        BY <2>2, <2>3, <4>1 DEF VectorGet
    <3>. QED
      BY <1>3, <2>2, <3>1 DEF VectorErase
  <2>5. /\ vlist' \in Seq(VectorEntries) /\ Len(vlist') = n - 1
        /\ \A k \in 1 .. at - 1 : vlist'[k] = vlist[k]
        /\ \A k \in at .. n - 1 : vlist'[k] = vlist[k + 1]
    <3>1. PICK s \in Seq(VectorEntries) : s = vlist /\ n = Len(s) /\ at \in 1 .. Len(s)
      BY <1>0, <2>1
    <3>2. Removed(VectorEntries, s, at, RemoveAt(s, at))
      BY <3>1, RemovedIs
    <3>. QED
      BY <2>4, <3>1, <3>2 DEF Removed
  <2>6. /\ vtold' \in Seq(Int) /\ Len(vtold') = Len(vtold) /\ vtold'[q] = GivenBack
        /\ \A p \in 1 .. Len(vtold) : p # q => vtold'[p] = vtold[p]
    BY <1>0, <2>3, <2>4 DEF GivenBack
  <2>7. PICK old : old = [k \in 1 .. n - 1 |-> IF k < at THEN k ELSE k + 1]
    OBVIOUS
  <2>8. \A k \in 1 .. n - 1 : /\ old[k] \in 1 .. n /\ old[k] # at /\ vlist'[k] = vlist[old[k]]
                              /\ old[k] = IF k < at THEN k ELSE k + 1
    <3>. TAKE k \in 1 .. n - 1
    <3>1. CASE k < at
      <4>1. old[k] = k /\ k \in 1 .. at - 1 /\ k \in 1 .. n /\ k # at
        BY <2>7, <3>1
      <4>. QED
        BY <2>5, <3>1, <4>1
    <3>2. CASE ~(k < at)
      <4>1. old[k] = k + 1 /\ k \in at .. n - 1 /\ k + 1 \in 1 .. n /\ k + 1 # at
        BY <2>7, <3>2
      <4>. QED
        BY <2>5, <3>2, <4>1
    <3>. QED
      BY <3>1, <3>2
  <2>9. \A j, k \in 1 .. n - 1 : old[j] = old[k] => j = k
    BY <2>8
  <2>10. \A h \in 1 .. n : h # at => \E k \in 1 .. n - 1 : old[k] = h
    <3>. SUFFICES ASSUME NEW h \in 1 .. n, h # at PROVE \E k \in 1 .. n - 1 : old[k] = h
      OBVIOUS
    <3>1. CASE h < at
      <4>1. h \in 1 .. n - 1 /\ old[h] = h
        BY <2>7, <3>1
      <4>. QED
        BY <4>1
    <3>2. CASE ~(h < at)
      <4>1. h - 1 \in 1 .. n - 1 /\ ~(h - 1 < at) /\ (h - 1) + 1 = h
        BY <3>2
      <4>2. old[h - 1] = h
        BY <2>7, <4>1
      <4>. QED
        BY <4>1, <4>2
    <3>. QED
      BY <3>1, <3>2
  <2>11. ASSUME NEW k \in 1 .. n - 1
         PROVE  /\ vlist'[k].index > 0 /\ vlist'[k].index <= vcounter
                /\ vlist'[k].data \in 1 .. Len(vtold) /\ vtold'[vlist'[k].data] = vlist'[k].index
    <3>1. PICK h \in 1 .. n : h = old[k] /\ h # at /\ vlist'[k] = vlist[h]
      BY <2>8
    <3>2. vlist[h].data \in 1 .. Len(vtold) /\ vtold[vlist[h].data] = vlist[h].index /\ vlist[h].index # i
      BY <1>00, <2>1, <2>2, <3>1
    <3>3. vlist[h].data # q
      BY <2>3, <3>2
    <3>. QED
      BY <1>0, <2>1, <2>6, <3>1, <3>2, <3>3
  <2>12. ASSUME NEW j \in 1 .. n - 1, NEW k \in 1 .. n - 1, vlist'[j].index = vlist'[k].index PROVE j = k
    <3>1. PICK g \in 1 .. n : g = old[j] /\ vlist'[j] = vlist[g]
      BY <2>8
    <3>2. PICK h \in 1 .. n : h = old[k] /\ vlist'[k] = vlist[h]
      BY <2>8
    <3>3. vlist[g].index = vlist[h].index
      BY <2>12, <3>1, <3>2
    <3>4. g = h
      BY <1>00, <2>1, <3>3
    <3>. QED
      BY <2>9, <3>1, <3>2, <3>4
  <2>13. ASSUME NEW p \in 1 .. Len(vtold), vtold'[p] # GivenBack
         PROVE  \E k \in 1 .. n - 1 : vlist'[k].data = p
    <3>1. p # q /\ vtold[p] # GivenBack
      BY <2>6, <2>13
    <3>2. PICK h \in 1 .. n : vlist[h].data = p
      BY <1>00, <2>1, <3>1
    <3>3. h # at
      BY <2>3, <3>1, <3>2
    <3>4. PICK k \in 1 .. n - 1 : old[k] = h
      BY <2>10, <3>3
    <3>. QED
      BY <2>8, <3>2, <3>4
  <2>14. VectorSizes'
    BY <1>0, <2>4, <2>5, <2>6, <2>11 DEF VectorSizes
  <2>15. VectorTold'
    BY <2>5, <2>6, <2>11, <2>12, <2>13 DEF VectorTold
  <2>. QED
    BY <2>14, <2>15 DEF VectorIInv
<1>4. CASE UNCHANGED vectorVars
  BY <1>4 DEF vectorVars, VectorIInv, VectorSizes, VectorTold
<1>. QED
  BY <1>1, <1>2, <1>3, <1>4 DEF VectorNext

(* Every number finds its pointer.                                         *)
LEMMA VectorFollows == VectorIInv => VectorKeeps
<1> SUFFICES ASSUME VectorIInv PROVE VectorKeeps
  OBVIOUS
<1>0. /\ vtold \in Seq(Int) /\ DOMAIN vtold = 1 .. Len(vtold) /\ Len(vlist) \in Nat
      /\ \A k \in 1 .. Len(vlist) : vlist[k].index > 0 /\ vlist[k].index \in Nat
  <2>1. /\ vtold \in Seq(Int) /\ DOMAIN vtold = 1 .. Len(vtold) /\ vlist \in Seq(VectorEntries)
        /\ \A k \in 1 .. Len(vlist) : vlist[k].index > 0
    BY DEF VectorIInv, VectorSizes
  <2>2. Len(vlist) \in Nat /\ \A k \in 1 .. Len(vlist) : vlist[k] \in VectorEntries
    BY <2>1
  <2>. QED
    BY <2>1, <2>2 DEF VectorEntries
<1>00. /\ \A k \in 1 .. Len(vlist) :
            vlist[k].data \in 1 .. Len(vtold) /\ vtold[vlist[k].data] = vlist[k].index
       /\ \A j, k \in 1 .. Len(vlist) : vlist[j].index = vlist[k].index => j = k
       /\ \A p \in 1 .. Len(vtold) : vtold[p] # GivenBack => \E k \in 1 .. Len(vlist) : vlist[k].data = p
  BY DEF VectorIInv, VectorTold
<1>1. ASSUME NEW p \in DOMAIN vtold, vtold[p] # GivenBack PROVE VectorGet(vtold[p]) = p
  <2>1. PICK k \in 1 .. Len(vlist) : vlist[k].data = p
    BY <1>0, <1>00, <1>1
  <2>2. vlist[k].index = vtold[p]
    BY <1>00, <2>1
  <2>3. VectorPlace(vtold[p]) = k /\ k # 0
    BY <2>2, PlaceFound
  <2>. QED
    BY <2>1, <2>3 DEF VectorGet
<1>2. PICK n \in Nat : n = Len(vlist)
  BY <1>0
<1> DEFINE P == {p \in DOMAIN vtold : vtold[p] # GivenBack}
           f == [k \in 1 .. n |-> vlist[k].data]
<1>3. f \in Bijection(1 .. n, P)
  <2>1. ASSUME NEW k \in 1 .. n PROVE f[k] \in P /\ vtold[f[k]] = vlist[k].index
    <3>1. vlist[k].data \in 1 .. Len(vtold) /\ vtold[vlist[k].data] = vlist[k].index
      BY <1>00, <1>2
    <3>2. vlist[k].index # GivenBack
      BY <1>0, <1>2 DEF GivenBack
    <3>. QED
      BY <1>0, <3>1, <3>2
  <2>2. f \in [1 .. n -> P]
    BY <2>1
  <2>3. \A j, k \in 1 .. n : f[j] = f[k] => j = k
    <3>. SUFFICES ASSUME NEW j \in 1 .. n, NEW k \in 1 .. n, f[j] = f[k] PROVE j = k
      OBVIOUS
    <3>1. vlist[j].index = vlist[k].index
      BY <2>1
    <3>. QED
      BY <1>00, <1>2, <3>1
  <2>4. \A p \in P : \E k \in 1 .. n : f[k] = p
    BY <1>0, <1>00, <1>2
  <2> HIDE DEF f, P
  <2>5. f \in Injection(1 .. n, P)
    BY <2>2, <2>3 DEF Injection, IsInjective
  <2>6. f \in Surjection(1 .. n, P)
    BY <2>2, <2>4 DEF Surjection
  <2>. QED
    BY <2>5, <2>6 DEF Bijection
<1>4. Cardinality(P) = n
  <2>1. ExistsBijection(1 .. n, P)
    BY <1>3 DEF ExistsBijection
  <2> HIDE DEF P, f
  <2>2. IsFiniteSet(1 .. n) /\ Cardinality(1 .. n) = n
    BY FS_Interval
  <2>. QED
    BY <2>1, <2>2, FS_Bijection
<1>. QED
  BY <1>1, <1>2, <1>4 DEF VectorKeeps

-----------------------------------------------------------------------------
(* The maps.  orderAll rearranges the entries row by row: what is in front *)
(* of a row stays, and the row's smallest key comes to its first place.    *)
MapEntries == [key : Nat, data : Nat]
Rearranged(s) ==
  {t \in Seq(MapEntries) : Len(t) = Len(s) /\ IsInjective(t) /\ ToSet(t) = ToSet(s)}
SortedTo(t, i, n) == \A a \in 1 .. i, b \in 1 .. n : a < b => t[a].key <= t[b].key
RowStep(t, i, g) == g = [j \in 0 .. Len(t) |-> IF j <= i THEN t ELSE Exchanged(g[j - 1], i, j)]
RowsStep(s, f) == f = [i \in 0 .. Len(s) |-> IF i = 0 THEN s ELSE RowOrdered(f[i - 1], i)]

(* The row that is ordered, by its function.                               *)
LEMMA RowByFunction == ASSUME NEW t, NEW i PROVE RowOrdered(t, i) = (CHOOSE g : RowStep(t, i, g))[Len(t)]
BY DEF RowOrdered, RowStep

(* The rows, by their function.                                            *)
LEMMA RowsByFunction == ASSUME NEW s PROVE OrderAll(s) = (CHOOSE f : RowsStep(s, f))[Len(s)]
BY DEF OrderAll, RowsStep

OneExchanged(s, t, i, j, u) ==
  /\ u \in Rearranged(s)
  /\ \A k \in 1 .. Len(t) : k # i /\ k # j => u[k] = t[k]
  /\ (u[i] = t[i] /\ u[j] = t[j]) \/ (u[i] = t[j] /\ u[j] = t[i])
  /\ u[i].key <= u[j].key /\ u[i].key <= t[i].key

(* An exchange keeps the entries and puts the smaller key first.           *)
LEMMA OneExchange ==
  ASSUME NEW s, NEW t \in Rearranged(s), NEW i \in 1 .. Len(t), NEW j \in 1 .. Len(t), i # j
  PROVE  OneExchanged(s, t, i, j, Exchanged(t, i, j))
<1>1. /\ t \in Seq(MapEntries) /\ Len(t) \in Nat /\ DOMAIN t = 1 .. Len(t) /\ Len(t) = Len(s)
      /\ ToSet(t) = ToSet(s) /\ \A k \in 1 .. Len(t) : t[k] \in MapEntries
  BY DEF Rearranged
<1>2. \A k, l \in 1 .. Len(t) : t[k] = t[l] => k = l
  BY <1>1 DEF Rearranged, IsInjective
<1>3. t[i].key \in Nat /\ t[j].key \in Nat
  BY <1>1 DEF MapEntries
<1>4. CASE ~(t[j].key < t[i].key)
  <2>1. Exchanged(t, i, j) = t /\ t[i].key <= t[j].key /\ t[i].key <= t[i].key
    BY <1>3, <1>4 DEF Exchanged
  <2>2. PICK u : u = t
    OBVIOUS
  <2>3. /\ u \in Rearranged(s) /\ u[i] = t[i] /\ u[j] = t[j]
        /\ \A k \in 1 .. Len(t) : k # i /\ k # j => u[k] = t[k]
        /\ u[i].key <= u[j].key /\ u[i].key <= t[i].key
    BY <2>1, <2>2
  <2>4. OneExchanged(s, t, i, j, u)
    BY <2>3 DEF OneExchanged
  <2>. QED
    BY <2>1, <2>2, <2>4
<1>5. CASE t[j].key < t[i].key
  <2>1. PICK u : u = Exchanged(t, i, j) /\ u = [t EXCEPT ![i] = t[j], ![j] = t[i]]
    BY <1>5 DEF Exchanged
  <2>2. /\ u \in Seq(MapEntries) /\ Len(u) = Len(t) /\ DOMAIN u = 1 .. Len(t)
        /\ u[i] = t[j] /\ u[j] = t[i]
        /\ \A k \in 1 .. Len(t) : k # i /\ k # j => u[k] = t[k]
    BY <1>1, <2>1
  <2>3. IsInjective(u)
    BY <1>2, <2>2 DEF IsInjective
  <2>4. ToSet(u) = ToSet(t)
    <3>1. ASSUME NEW x \in ToSet(u) PROVE x \in ToSet(t)
      <4>1. PICK k \in 1 .. Len(t) : u[k] = x
        BY <2>2, <3>1 DEF ToSet
      <4>. QED
        BY <1>1, <2>2, <4>1 DEF ToSet
    <3>2. ASSUME NEW x \in ToSet(t) PROVE x \in ToSet(u)
      <4>1. PICK k \in 1 .. Len(t) : t[k] = x
        BY <1>1, <3>2 DEF ToSet
      <4>. QED
        BY <2>2, <4>1 DEF ToSet
    <3>. QED
      BY <3>1, <3>2
  <2>5. u \in Rearranged(s)
    BY <1>1, <2>2, <2>3, <2>4 DEF Rearranged
  <2>. QED
    BY <1>3, <1>5, <2>1, <2>2, <2>5 DEF OneExchanged
<1>. QED
  BY <1>4, <1>5

SortsRow(s, t, i, n, u) ==
  u \in Rearranged(s) /\ (SortedTo(t, i - 1, n) => SortedTo(u, i, n))
InRow(s, t, i, n, j, u) ==   \* after j exchanges
  /\ u \in Rearranged(s)
  /\ SortedTo(t, i - 1, n) =>
       SortedTo(u, i - 1, n) /\ \A b \in i + 1 .. j : u[i].key <= u[b].key

(* One more exchange in a row.                                             *)
LEMMA RowGoesOnBy ==
  ASSUME NEW s, NEW n \in Nat, n = Len(s), NEW t \in Rearranged(s), NEW i \in 1 .. n,
         NEW j \in 0 .. n - 1, NEW v, InRow(s, t, i, n, j, v)
  PROVE  InRow(s, t, i, n, j + 1, IF j + 1 <= i THEN t ELSE Exchanged(v, i, j + 1))
<1>1. CASE j + 1 <= i
  <2>1. \A b \in i + 1 .. j + 1 : FALSE
    BY <1>1
  <2>. QED
    BY <1>1, <2>1 DEF InRow
<1>2. CASE ~(j + 1 <= i)
  <2>1. PICK k \in 1 .. n : k = j + 1 /\ k > i
    BY <1>2
  <2>2. v \in Rearranged(s) /\ Len(v) = n /\ \A a \in 1 .. n : v[a].key \in Nat
    <3>1. v \in Rearranged(s)
      BY DEF InRow
    <3>2. v \in Seq(MapEntries) /\ Len(v) = n
      BY <3>1 DEF Rearranged
    <3>3. \A a \in 1 .. n : v[a] \in MapEntries
      BY <3>2
    <3>. QED
      BY <3>1, <3>2, <3>3 DEF MapEntries
  <2>3. PICK u : u = Exchanged(v, i, k)
    OBVIOUS
  <2>4. OneExchanged(s, v, i, k, u)
    <3>1. i \in 1 .. Len(v) /\ k \in 1 .. Len(v) /\ i # k
      BY <2>1, <2>2
    <3>. QED
      BY <2>2, <2>3, <3>1, OneExchange
  <2>5. /\ u \in Rearranged(s)
        /\ \A a \in 1 .. n : a # i /\ a # k => u[a] = v[a]
        /\ (u[i] = v[i] /\ u[k] = v[k]) \/ (u[i] = v[k] /\ u[k] = v[i])
        /\ u[i].key <= u[k].key /\ u[i].key <= v[i].key
    BY <2>2, <2>4 DEF OneExchanged
  <2>6. ASSUME SortedTo(t, i - 1, n)
        PROVE  SortedTo(u, i - 1, n) /\ \A b \in i + 1 .. k : u[i].key <= u[b].key
    <3>1. /\ \A a \in 1 .. i - 1, b \in 1 .. n : a < b => v[a].key <= v[b].key
          /\ \A b \in i + 1 .. j : v[i].key <= v[b].key
      BY <2>6 DEF InRow, SortedTo
    <3>2. ASSUME NEW a \in 1 .. i - 1, NEW b \in 1 .. n, a < b PROVE u[a].key <= u[b].key
      <4>1. a \in 1 .. n /\ a # i /\ a # k /\ a < i /\ a < k
        BY <2>1
      <4>2. u[a] = v[a] /\ v[a].key <= v[i].key /\ v[a].key <= v[k].key
        BY <2>1, <2>5, <3>1, <4>1
      <4>3. CASE b = i \/ b = k
        BY <2>5, <4>2, <4>3
      <4>4. CASE b # i /\ b # k
        BY <2>5, <3>1, <3>2, <4>2, <4>4
      <4>. QED
        BY <4>3, <4>4
    <3>3. ASSUME NEW b \in i + 1 .. k PROVE u[i].key <= u[b].key
      <4>1. CASE b = k
        BY <2>5, <4>1
      <4>2. CASE b # k
        <5>1. b \in i + 1 .. j /\ b \in 1 .. n /\ b # i
          BY <2>1, <4>2
        <5>2. u[b] = v[b] /\ v[i].key <= v[b].key
          BY <2>5, <3>1, <4>2, <5>1
        <5>3. u[i].key \in Nat
          BY <2>1, <2>2, <2>5
        <5>. QED
          BY <2>2, <2>5, <5>1, <5>2, <5>3
      <4>. QED
        BY <4>1, <4>2
    <3>. QED
      BY <3>2, <3>3 DEF SortedTo
  <2>7. InRow(s, t, i, n, k, u)
    BY <2>5, <2>6 DEF InRow
  <2>. QED
    BY <1>2, <2>1, <2>3, <2>7
<1>. QED
  BY <1>1, <1>2

(* A row puts the smallest key at its first place.                         *)
LEMMA RowIsOrdered ==
  ASSUME NEW s, Len(s) \in Nat, NEW t \in Rearranged(s), NEW i \in 1 .. Len(s)
  PROVE  SortsRow(s, t, i, Len(s), RowOrdered(t, i))
<1>0. PICK n \in Nat : n = Len(s)
  OBVIOUS
<1>00. Len(t) = n /\ i \in 1 .. n
  BY <1>0 DEF Rearranged
<1> DEFINE T == Rearranged(s)
           F == [y \in T |-> [j \in 1 .. n |-> IF j <= i THEN t ELSE Exchanged(y, i, j)]]
<1>1. ASSUME NEW y \in T, NEW j \in 1 .. n
      PROVE  F[y][j] = (IF j <= i THEN t ELSE Exchanged(y, i, j)) /\ F[y][j] \in T
  <2>1. F[y][j] = IF j <= i THEN t ELSE Exchanged(y, i, j)
    OBVIOUS
  <2>2. ASSUME ~(j <= i) PROVE Exchanged(y, i, j) \in T
    <3>1. Len(y) = n
      BY <1>0 DEF Rearranged
    <3>2. i \in 1 .. Len(y) /\ j \in 1 .. Len(y) /\ i # j
      BY <1>00, <2>2, <3>1
    <3>. QED
      BY <3>2, OneExchange DEF OneExchanged
  <2>. QED
    BY <2>1, <2>2
<1> HIDE DEF F
<1>2. Moves(F, T, n)
  BY <1>1 DEF Moves
<1>3. PICK f : Iterates(f, F, T, t, n)
  BY <1>2, Iterated
<1>4. RowStep(t, i, f)
  <2>1. f \in [0 .. n -> T] /\ f[0] = t /\ \A j \in 1 .. n : f[j] = F[f[j - 1]][j]
    BY <1>3 DEF Iterates
  <2>2. ASSUME NEW j \in 0 .. n PROVE f[j] = IF j <= i THEN t ELSE Exchanged(f[j - 1], i, j)
    <3>1. CASE j = 0
      BY <1>00, <2>1, <3>1
    <3>2. CASE j # 0
      <4>1. j \in 1 .. n /\ j - 1 \in 0 .. n
        BY <3>2
      <4>2. f[j - 1] \in T
        BY <2>1, <4>1
      <4>. QED
        BY <1>1, <2>1, <4>1, <4>2
    <3>. QED
      BY <3>1, <3>2
  <2>3. f = [j \in 0 .. n |-> f[j]]
    BY <2>1
  <2>. QED
    BY <1>00, <2>2, <2>3 DEF RowStep
<1>5. PICK g : g = (CHOOSE h : RowStep(t, i, h)) /\ RowStep(t, i, g)
  BY <1>4
<1>6. \A j \in 0 .. n : g[j] = IF j <= i THEN t ELSE Exchanged(g[j - 1], i, j)
  BY <1>00, <1>5 DEF RowStep
<1> DEFINE S == {j \in 0 .. n : InRow(s, t, i, n, j, g[j])}
<1>7. 0 \in S
  <2>1. g[0] = t /\ 0 \in 0 .. n /\ \A b \in i + 1 .. 0 : FALSE
    BY <1>00, <1>6
  <2>2. InRow(s, t, i, n, 0, t)
    BY <2>1 DEF InRow
  <2>. QED
    BY <2>1, <2>2
<1>8. ASSUME NEW j \in 0 .. n - 1, j \in S PROVE j + 1 \in S
  <2>1. InRow(s, t, i, n, j, g[j]) /\ j + 1 \in 0 .. n /\ (j + 1) - 1 = j
    BY <1>8
  <2>2. PICK v : v = g[j] /\ InRow(s, t, i, n, j, v)
    BY <2>1
  <2>3. InRow(s, t, i, n, j + 1, IF j + 1 <= i THEN t ELSE Exchanged(v, i, j + 1))
    BY <1>0, <1>00, <2>2, RowGoesOnBy
  <2>4. g[j + 1] = IF j + 1 <= i THEN t ELSE Exchanged(v, i, j + 1)
    BY <1>6, <2>1, <2>2
  <2>. QED
    BY <2>1, <2>3, <2>4
<1>9. n \in S
  <2>1. \A j \in 0 .. n - 1 : j \in S => j + 1 \in S
    BY <1>8
  <2>2. n \in 0 .. n
    OBVIOUS
  <2> HIDE DEF S
  <2> QED
    BY <1>7, <2>1, <2>2, Inductive
<1>10. RowOrdered(t, i) = g[n]
  BY <1>00, <1>5, RowByFunction
<1>11. PICK u : u = g[n] /\ InRow(s, t, i, n, n, u)
  BY <1>9
<1>12. ASSUME SortedTo(t, i - 1, n) PROVE SortedTo(u, i, n)
  <2>1. SortedTo(u, i - 1, n) /\ \A b \in i + 1 .. n : u[i].key <= u[b].key
    BY <1>11, <1>12 DEF InRow
  <2>2. ASSUME NEW a \in 1 .. i, NEW b \in 1 .. n, a < b PROVE u[a].key <= u[b].key
    <3>1. CASE a = i
      <4>1. b \in i + 1 .. n
        BY <2>2, <3>1
      <4>. QED
        BY <2>1, <3>1, <4>1
    <3>2. CASE a # i
      <4>1. a \in 1 .. i - 1
        BY <3>2
      <4>. QED
        BY <2>1, <2>2, <4>1 DEF SortedTo
    <3>. QED
      BY <3>1, <3>2
  <2>. QED
    BY <2>2 DEF SortedTo
<1>13. SortsRow(s, t, i, n, u)
  BY <1>11, <1>12 DEF SortsRow, InRow
<1>. QED
  BY <1>0, <1>10, <1>11, <1>13

(* orderAll sorts by key, and no key is parted from its data.              *)
LEMMA AllOrdered ==
  ASSUME NEW s \in Seq(MapEntries), IsInjective(s)
  PROVE  OrderAll(s) \in Rearranged(s) /\ SortedTo(OrderAll(s), Len(s), Len(s))
<1>0. PICK n \in Nat : n = Len(s)
  OBVIOUS
<1>00. s \in Rearranged(s)
  BY DEF Rearranged
<1> DEFINE T == Rearranged(s)
           F == [y \in T |-> [i \in 1 .. n |-> RowOrdered(y, i)]]
<1>1. ASSUME NEW y \in T, NEW i \in 1 .. n
      PROVE  F[y][i] = RowOrdered(y, i) /\ SortsRow(s, y, i, n, RowOrdered(y, i)) /\ RowOrdered(y, i) \in T
  <2>1. F[y][i] = RowOrdered(y, i)
    OBVIOUS
  <2>2. Len(s) \in Nat /\ i \in 1 .. Len(s)
    BY <1>0
  <2>3. SortsRow(s, y, i, Len(s), RowOrdered(y, i))
    BY <2>2, RowIsOrdered
  <2>. QED
    BY <1>0, <2>1, <2>3 DEF SortsRow
<1> HIDE DEF F
<1>2. Moves(F, T, n)
  BY <1>1 DEF Moves
<1>3. PICK f : Iterates(f, F, T, s, n)
  BY <1>00, <1>2, Iterated
<1>4. RowsStep(s, f)
  <2>1. f \in [0 .. n -> T] /\ f[0] = s /\ \A i \in 1 .. n : f[i] = F[f[i - 1]][i]
    BY <1>3 DEF Iterates
  <2>2. ASSUME NEW i \in 0 .. n PROVE f[i] = IF i = 0 THEN s ELSE RowOrdered(f[i - 1], i)
    <3>1. CASE i = 0
      BY <2>1, <3>1
    <3>2. CASE i # 0
      <4>1. i \in 1 .. n /\ i - 1 \in 0 .. n
        BY <3>2
      <4>2. f[i - 1] \in T
        BY <2>1, <4>1
      <4>. QED
        BY <1>1, <2>1, <3>2, <4>1, <4>2
    <3>. QED
      BY <3>1, <3>2
  <2>3. f = [i \in 0 .. n |-> f[i]]
    BY <2>1
  <2>. QED
    BY <1>0, <2>2, <2>3 DEF RowsStep
<1>5. PICK g : g = (CHOOSE h : RowsStep(s, h)) /\ RowsStep(s, g)
  BY <1>4
<1>6. \A i \in 0 .. n : g[i] = IF i = 0 THEN s ELSE RowOrdered(g[i - 1], i)
  BY <1>0, <1>5 DEF RowsStep
<1> DEFINE S == {i \in 0 .. n : g[i] \in T /\ SortedTo(g[i], i, n)}
<1>7. 0 \in S
  <2>1. g[0] = s /\ 0 \in 0 .. n /\ \A a \in 1 .. 0 : FALSE
    BY <1>6
  <2>. QED
    BY <1>00, <2>1 DEF SortedTo
<1>8. ASSUME NEW i \in 0 .. n - 1, i \in S PROVE i + 1 \in S
  <2>1. g[i] \in T /\ SortedTo(g[i], i, n) /\ i + 1 \in 1 .. n /\ i + 1 \in 0 .. n /\ i + 1 # 0 /\ (i + 1) - 1 = i
    BY <1>8
  <2>2. PICK v \in T : v = g[i] /\ SortedTo(v, i, n)
    BY <2>1
  <2>3. PICK k \in 1 .. n : k = i + 1 /\ k - 1 = i
    BY <2>1
  <2>4. SortsRow(s, v, k, n, RowOrdered(v, k))
    BY <1>1
  <2>5. g[k] = RowOrdered(v, k)
    BY <1>6, <2>1, <2>2, <2>3
  <2>6. g[k] \in T /\ SortedTo(g[k], k, n)
    BY <2>2, <2>3, <2>4, <2>5 DEF SortsRow
  <2>. QED
    BY <2>1, <2>3, <2>6
<1>9. n \in S
  <2>1. \A i \in 0 .. n - 1 : i \in S => i + 1 \in S
    BY <1>8
  <2>2. n \in 0 .. n
    OBVIOUS
  <2> HIDE DEF S
  <2> QED
    BY <1>7, <2>1, <2>2, Inductive
<1>. QED
  BY <1>0, <1>5, <1>9, RowsByFunction

-----------------------------------------------------------------------------
(* What a map has: pieces of data of its own, under keys.                  *)
MapSizes ==
  /\ mcount \in Nat /\ mlist \in Seq(MapEntries)
  /\ \A i \in 1 .. Len(mlist) : mlist[i].data <= mcount
MapApart == \A i, j \in 1 .. Len(mlist) : mlist[i].data = mlist[j].data => i = j
MapOrdered ==
  /\ "append" \notin mhow => \A i, j \in 1 .. Len(mlist) : mlist[i].key = mlist[j].key => i = j
  /\ mhow \subseteq {"append"} => \A i, j \in 1 .. Len(mlist) : i < j => mlist[i].data < mlist[j].data
MapIInv == MapSizes /\ MapApart /\ MapOrdered /\ ToSet(mlist) = mstored

(* A new map is empty.                                                     *)
LEMMA MapStarts == MapInit => MapIInv
BY DEF MapInit, MapIInv, MapSizes, MapApart, MapOrdered, ToSet

(* find stops at the first entry with the key.                             *)
LEMMA PlaceOfKey ==
  ASSUME NEW s \in Seq(MapEntries), NEW k
  PROVE  /\ FindPlace(s, k) = 0 => \A i \in 1 .. Len(s) : s[i].key # k
         /\ FindPlace(s, k) # 0 => FindPlace(s, k) \in 1 .. Len(s) /\ s[FindPlace(s, k)].key = k
<1>1. PICK n \in Nat : n = Len(s)
  OBVIOUS
<1>2. PICK hits : hits = {i \in DOMAIN s : s[i].key = k} /\ \A i : i \in hits <=> i \in 1 .. n /\ s[i].key = k
  <2>1. DOMAIN s = 1 .. n
    BY <1>1
  <2>2. \A i : i \in {h \in DOMAIN s : s[h].key = k} <=> i \in 1 .. n /\ s[i].key = k
    BY <2>1
  <2>. QED
    BY <2>2
<1>3. FindPlace(s, k) = IF hits = {} THEN 0 ELSE CHOOSE i \in hits : \A j \in hits : i <= j
  BY <1>2 DEF FindPlace
<1>4. CASE hits = {}
  <2>1. FindPlace(s, k) = 0
    BY <1>3, <1>4
  <2>2. \A i \in 1 .. Len(s) : s[i].key # k
    BY <1>1, <1>2, <1>4
  <2>. QED
    BY <2>1, <2>2
<1>5. CASE hits # {}
  <2>1. PICK m \in Nat : m = n + 1 /\ 1 \in 0 .. m
    OBVIOUS
  <2>2. PICK j : First(hits, m, 1, j)
    BY <2>1, SomeFirst
  <2>3. j \in 1 .. n + 1 /\ (j = n + 1 \/ j \in hits) /\ \A i \in 1 .. j - 1 : i \notin hits
    BY <2>1, <2>2 DEF First
  <2>4. \A i \in hits : j <= i
    BY <1>2, <2>3
  <2>5. j \in hits
    BY <1>2, <1>5, <2>3, <2>4
  <2>6. \E x \in hits : \A y \in hits : x <= y
    BY <2>4, <2>5
  <2>7. PICK at \in hits : at = (CHOOSE i \in hits : \A y \in hits : i <= y)
    BY <2>6
  <2>8. FindPlace(s, k) = at
    BY <1>3, <1>5, <2>7
  <2>9. at \in 1 .. n /\ s[at].key = k
    BY <1>2, <2>7
  <2>10. at # 0
    BY <2>9
  <2>. QED
    BY <1>1, <2>8, <2>9, <2>10
<1>. QED
  BY <1>4, <1>5

(* The elements of a sequence, by places.                                  *)
LEMMA ElementsAt ==
  ASSUME NEW S, NEW s \in Seq(S), NEW x PROVE x \in ToSet(s) <=> \E i \in 1 .. Len(s) : s[i] = x
BY DEF ToSet

(* Appending, replacing, erasing, clearing and ordering keep the entries.  *)
LEMMA MapSteps == MapIInv /\ [MapNext]_mapVars => MapIInv'
<1> SUFFICES ASSUME MapIInv, [MapNext]_mapVars PROVE MapIInv'
  OBVIOUS
<1>0. PICK n \in Nat : n = Len(mlist)
  BY DEF MapIInv, MapSizes
<1>1. PICK s \in Seq(MapEntries) : s = mlist /\ n = Len(s) /\ DOMAIN s = 1 .. n
  BY <1>0 DEF MapIInv, MapSizes
<1>2. PICK c \in Nat : c = mcount
  BY DEF MapIInv, MapSizes
<1>3. /\ \A i \in 1 .. n : s[i] \in MapEntries /\ s[i].data \in Nat /\ s[i].key \in Nat /\ s[i].data <= c
      /\ \A i, j \in 1 .. n : s[i].data = s[j].data => i = j
  <2>1. \A i \in 1 .. n : s[i] \in MapEntries
    BY <1>1
  <2>. QED
    BY <1>1, <1>2, <2>1 DEF MapIInv, MapSizes, MapApart, MapEntries
<1>4. /\ "append" \notin mhow => \A i, j \in 1 .. n : s[i].key = s[j].key => i = j
      /\ mhow \subseteq {"append"} => \A i, j \in 1 .. n : i < j => s[i].data < s[j].data
  BY <1>1 DEF MapIInv, MapOrdered
<1>5. \A x : x \in mstored <=> \E i \in 1 .. n : s[i] = x
  <2>1. \A x : x \in ToSet(s) <=> \E i \in 1 .. n : s[i] = x
    BY <1>1, ElementsAt
  <2>. QED
    BY <1>1, <2>1 DEF MapIInv
<1>6. ASSUME NEW k \in MKeys
      PROVE  /\ MapEntry(k, c + 1) \in MapEntries
             /\ MapEntry(k, c + 1).key = k /\ MapEntry(k, c + 1).data = c + 1
  <2>1. PICK d \in Nat : d = c + 1
    OBVIOUS
  <2>2. k \in Nat
    BY MapConstants
  <2>. QED
    BY <2>1, <2>2 DEF MapEntry, MapEntries
<1>7. ASSUME NEW k \in MKeys,
             mlist' = Append(mlist, MapEntry(k, c + 1)), mcount' = c + 1,
             mstored' = mstored \cup {MapEntry(k, c + 1)},
             mhow \subseteq mhow',
             "append" \in mhow' \/ \A i \in 1 .. n : s[i].key # k
      PROVE  MapIInv'
  <2>1. PICK e \in MapEntries : e = MapEntry(k, c + 1) /\ e.key = k /\ e.data = c + 1
    BY <1>6
  <2>2. PICK t : t = mlist' /\ t = Append(s, e)
    BY <1>1, <1>7, <2>1
  <2>3. /\ t \in Seq(MapEntries) /\ Len(t) = n + 1 /\ t[n + 1] = e
        /\ \A i \in 1 .. n : t[i] = s[i]
    BY <1>1, <2>2, AppendProperties
  <2>4. \A i \in 1 .. n + 1 : i \in 1 .. n \/ i = n + 1
    OBVIOUS
  <2>5. \A i \in 1 .. n + 1 : t[i].data <= c + 1
    BY <1>3, <2>1, <2>3, <2>4
  <2>6. \A i, j \in 1 .. n + 1 : t[i].data = t[j].data => i = j
    BY <1>3, <2>1, <2>3, <2>4
  <2>7. "append" \notin mhow' => \A i, j \in 1 .. n + 1 : t[i].key = t[j].key => i = j
    BY <1>4, <1>7, <2>1, <2>3, <2>4
  <2>8. mhow' \subseteq {"append"} => \A i, j \in 1 .. n + 1 : i < j => t[i].data < t[j].data
    <3>. SUFFICES ASSUME mhow' \subseteq {"append"}, NEW i \in 1 .. n + 1, NEW j \in 1 .. n + 1, i < j
                  PROVE  t[i].data < t[j].data
      OBVIOUS
    <3>1. i \in 1 .. n
      OBVIOUS
    <3>2. mhow \subseteq {"append"}
      BY <1>7
    <3>3. t[i] = s[i] /\ s[i].data \in Nat /\ s[i].data <= c
      BY <1>3, <2>3, <3>1
    <3>4. CASE j \in 1 .. n
      <4>1. t[j] = s[j] /\ s[i].data < s[j].data
        BY <1>4, <2>3, <3>1, <3>2, <3>4
      <4>. QED
        BY <3>3, <4>1
    <3>5. CASE j = n + 1
      <4>1. t[j].data = c + 1
        BY <2>1, <2>3, <3>5
      <4>. QED
        BY <3>3, <4>1
    <3>. QED
      BY <2>4, <3>4, <3>5
  <2>9. ToSet(t) = mstored'
    <3>1. \A x : x \in ToSet(t) <=> \E i \in 1 .. n + 1 : t[i] = x
      BY <2>3, ElementsAt
    <3>2. \A x : x \in mstored' <=> x \in mstored \/ x = e
      BY <1>7, <2>1
    <3>3. n + 1 \in 1 .. n + 1 /\ \A i \in 1 .. n : i \in 1 .. n + 1
      OBVIOUS
    <3>4. \A x : (\E i \in 1 .. n + 1 : t[i] = x) <=> (\E i \in 1 .. n : s[i] = x) \/ x = e
      BY <2>3, <2>4, <3>3
    <3>. QED
      BY <1>5, <3>1, <3>2, <3>4
  <2>10. MapSizes' /\ MapApart'
    BY <1>7, <2>2, <2>3, <2>5, <2>6 DEF MapSizes, MapApart
  <2>11. MapOrdered'
    BY <2>2, <2>3, <2>7, <2>8 DEF MapOrdered
  <2>. QED
    BY <2>2, <2>9, <2>10, <2>11 DEF MapIInv
<1>8. ASSUME NEW k \in MKeys, MapAppend(k) PROVE MapIInv'
  BY <1>2, <1>7, <1>8 DEF MapAppend
<1>9. ASSUME NEW k \in MKeys, MapSet(k) PROVE MapIInv'
  <2>1. PICK at : at = FindPlace(s, k)
    OBVIOUS
  <2>2. /\ at = 0 => \A i \in 1 .. n : s[i].key # k
        /\ at # 0 => at \in 1 .. n /\ s[at].key = k
    BY <1>1, <2>1, PlaceOfKey
  <2>3. CASE at = 0
    BY <1>1, <1>2, <1>7, <1>9, <2>1, <2>2, <2>3 DEF MapSet
  <2>4. CASE at # 0
    <3>1. PICK e \in MapEntries : e = MapEntry(k, c + 1) /\ e.key = k /\ e.data = c + 1
      BY <1>6
    <3>2. /\ mlist' = [s EXCEPT ![at] = e] /\ mstored' = (mstored \ {s[at]}) \cup {e}
          /\ mcount' = c + 1 /\ mhow' = mhow \cup {"set"}
      BY <1>1, <1>2, <1>9, <2>1, <2>4, <3>1 DEF MapSet
    <3>3. PICK t : t = mlist' /\ t = [s EXCEPT ![at] = e]
      BY <3>2
    <3>4. /\ t \in Seq(MapEntries) /\ Len(t) = n /\ t[at] = e
          /\ \A i \in 1 .. n : i # at => t[i] = s[i]
      BY <1>1, <2>2, <2>4, <3>3
    <3>5. \A i \in 1 .. n : t[i].data <= c + 1
      BY <1>3, <3>1, <3>4
    <3>6. \A i, j \in 1 .. n : t[i].data = t[j].data => i = j
      <4>1. \A i \in 1 .. n : i # at => t[i].data = s[i].data /\ s[i].data \in Nat /\ s[i].data <= c
        BY <1>3, <3>4
      <4>2. \A i \in 1 .. n : i # at => t[i].data # c + 1
        BY <4>1
      <4>3. t[at].data = c + 1
        BY <3>1, <3>4
      <4>. QED
        BY <1>3, <4>1, <4>2, <4>3
    <3>7. "append" \notin mhow' => \A i, j \in 1 .. n : t[i].key = t[j].key => i = j
      BY <1>4, <2>2, <2>4, <3>1, <3>2, <3>4
    <3>8. ~(mhow' \subseteq {"append"})
      BY <3>2
    <3>9. ToSet(t) = mstored'
      <4>1. \A x : x \in ToSet(t) <=> \E i \in 1 .. n : t[i] = x
        BY <3>4, ElementsAt
      <4>2. \A x : x \in mstored' <=> (x # s[at] /\ \E i \in 1 .. n : s[i] = x) \/ x = e
        BY <1>5, <3>2
      <4>3. \A i \in 1 .. n : s[i] = s[at] => i = at
        BY <1>3, <2>2, <2>4
      <4>4. \A x : (\E i \in 1 .. n : t[i] = x) <=> (x # s[at] /\ \E i \in 1 .. n : s[i] = x) \/ x = e
        BY <2>2, <2>4, <3>4, <4>3
      <4>. QED
        BY <4>1, <4>2, <4>4
    <3>10. MapSizes' /\ MapApart'
      BY <3>2, <3>3, <3>4, <3>5, <3>6 DEF MapSizes, MapApart
    <3>11. MapOrdered'
      BY <3>3, <3>4, <3>7, <3>8 DEF MapOrdered
    <3>. QED
      BY <3>3, <3>9, <3>10, <3>11 DEF MapIInv
  <2>. QED
    BY <2>3, <2>4
<1>10. ASSUME NEW k \in MKeys, MapErase(k) PROVE MapIInv'
  <2>1. PICK at \in 1 .. n : at = FindPlace(s, k)
    BY <1>1, <1>10, PlaceOfKey DEF MapErase
  <2>2. mlist' = RemoveAt(s, at) /\ mstored' = mstored \ {s[at]} /\ mcount' = c /\ mhow' = mhow
    BY <1>1, <1>2, <1>10, <2>1 DEF MapErase
  <2>3. PICK t : t = mlist' /\ t = RemoveAt(s, at)
    BY <2>2
  <2>4. /\ t \in Seq(MapEntries) /\ Len(t) = n - 1 /\ DOMAIN t = 1 .. n - 1
        /\ \A i \in 1 .. at - 1 : t[i] = s[i]
        /\ \A i \in at .. n - 1 : t[i] = s[i + 1]
    <3>1. Removed(MapEntries, s, at, RemoveAt(s, at))
      <4>1. s \in Seq(MapEntries) /\ at \in 1 .. Len(s)
        BY <1>1, <2>1
      <4>. QED
        BY <4>1, RemovedIs
    <3>. QED
      BY <1>1, <2>3, <3>1 DEF Removed
  <2>5. PICK old : old = [i \in 1 .. n - 1 |-> IF i < at THEN i ELSE i + 1]
    OBVIOUS
  <2>6. \A i \in 1 .. n - 1 : /\ old[i] \in 1 .. n /\ old[i] # at /\ t[i] = s[old[i]]
                              /\ old[i] = IF i < at THEN i ELSE i + 1
    <3>. TAKE i \in 1 .. n - 1
    <3>1. CASE i < at
      <4>1. old[i] = i /\ i \in 1 .. at - 1 /\ i \in 1 .. n /\ i # at
        BY <2>5, <3>1
      <4>. QED
        BY <2>4, <3>1, <4>1
    <3>2. CASE ~(i < at)
      <4>1. old[i] = i + 1 /\ i \in at .. n - 1 /\ i + 1 \in 1 .. n /\ i + 1 # at
        BY <2>5, <3>2
      <4>. QED
        BY <2>4, <3>2, <4>1
    <3>. QED
      BY <3>1, <3>2
  <2>7. \A i, j \in 1 .. n - 1 : (old[i] = old[j] => i = j) /\ (i < j => old[i] < old[j])
    BY <2>6
  <2>8. \A h \in 1 .. n : h # at => \E i \in 1 .. n - 1 : old[i] = h
    <3>. SUFFICES ASSUME NEW h \in 1 .. n, h # at PROVE \E i \in 1 .. n - 1 : old[i] = h
      OBVIOUS
    <3>1. CASE h < at
      <4>1. h \in 1 .. n - 1 /\ old[h] = h
        BY <2>5, <3>1
      <4>. QED
        BY <4>1
    <3>2. CASE ~(h < at)
      <4>1. h - 1 \in 1 .. n - 1 /\ ~(h - 1 < at) /\ (h - 1) + 1 = h
        BY <3>2
      <4>2. old[h - 1] = h
        BY <2>5, <4>1
      <4>. QED
        BY <4>1, <4>2
    <3>. QED
      BY <3>1, <3>2
  <2>9. MapSizes'
    <3>1. \A i \in 1 .. n - 1 : t[i].data <= c
      BY <1>3, <2>6
    <3>. QED
      BY <2>2, <2>3, <2>4, <3>1 DEF MapSizes
  <2>10. MapApart'
    <3>1. \A i, j \in 1 .. n - 1 : t[i].data = t[j].data => i = j
      <4>. SUFFICES ASSUME NEW i \in 1 .. n - 1, NEW j \in 1 .. n - 1, t[i].data = t[j].data PROVE i = j
        OBVIOUS
      <4>1. old[i] \in 1 .. n /\ old[j] \in 1 .. n /\ s[old[i]].data = s[old[j]].data
        BY <2>6
      <4>2. old[i] = old[j]
        BY <1>3, <4>1
      <4>. QED
        BY <2>7, <4>2
    <3>. QED
      BY <2>3, <2>4, <3>1 DEF MapApart
  <2>11. MapOrdered'
    <3>1. "append" \notin mhow' => \A i, j \in 1 .. n - 1 : t[i].key = t[j].key => i = j
      <4>. SUFFICES ASSUME "append" \notin mhow, NEW i \in 1 .. n - 1, NEW j \in 1 .. n - 1,
                           t[i].key = t[j].key
                    PROVE  i = j
        BY <2>2
      <4>1. old[i] \in 1 .. n /\ old[j] \in 1 .. n /\ s[old[i]].key = s[old[j]].key
        BY <2>6
      <4>2. old[i] = old[j]
        BY <1>4, <4>1
      <4>. QED
        BY <2>7, <4>2
    <3>2. mhow' \subseteq {"append"} => \A i, j \in 1 .. n - 1 : i < j => t[i].data < t[j].data
      BY <1>4, <2>2, <2>6, <2>7
    <3>. QED
      BY <2>3, <2>4, <3>1, <3>2 DEF MapOrdered
  <2>12. ToSet(t) = mstored'
    <3>1. \A x : x \in ToSet(t) <=> \E i \in 1 .. n - 1 : t[i] = x
      BY <2>4 DEF ToSet
    <3>2. \A x : x \in mstored' <=> x # s[at] /\ \E i \in 1 .. n : s[i] = x
      BY <1>5, <2>2
    <3>3. \A i \in 1 .. n : s[i] = s[at] => i = at
      BY <1>3
    <3>4. ASSUME NEW x, NEW i \in 1 .. n - 1, t[i] = x PROVE x # s[at] /\ \E j \in 1 .. n : s[j] = x
      BY <2>6, <3>3, <3>4
    <3>5. ASSUME NEW x, x # s[at], NEW j \in 1 .. n, s[j] = x PROVE \E i \in 1 .. n - 1 : t[i] = x
      <4>1. PICK i \in 1 .. n - 1 : old[i] = j
        BY <2>8, <3>5
      <4>. QED
        BY <2>6, <3>5, <4>1
    <3>. QED
      BY <3>1, <3>2, <3>4, <3>5
  <2>. QED
    BY <2>3, <2>9, <2>10, <2>11, <2>12 DEF MapIInv
<1>11. CASE MapClear
  <2>1. mlist' = <<>> /\ mstored' = {} /\ mcount' = c
    BY <1>2, <1>11 DEF MapClear
  <2>. QED
    BY <2>1 DEF MapIInv, MapSizes, MapApart, MapOrdered, ToSet
<1>12. CASE MapOrder
  <2>1. IsInjective(s)
    BY <1>1, <1>3 DEF IsInjective
  <2>2. PICK t : t = mlist' /\ t = OrderAll(s)
    BY <1>1, <1>12 DEF MapOrder
  <2>3. t \in Rearranged(s)
    BY <2>1, <2>2, AllOrdered
  <2>4. t \in Seq(MapEntries) /\ Len(t) = n /\ IsInjective(t) /\ ToSet(t) = ToSet(s) /\ DOMAIN t = 1 .. n
    BY <1>1, <2>3 DEF Rearranged
  <2>5. mstored' = mstored /\ mcount' = c /\ mhow' = mhow \cup {"ordered"}
    BY <1>2, <1>12 DEF MapOrder
  <2>6. \A i \in 1 .. n : \E a \in 1 .. n : t[i] = s[a]
    <3>1. \A x : x \in ToSet(t) <=> \E i \in 1 .. n : t[i] = x
      BY <2>4, ElementsAt
    <3>2. \A x : x \in ToSet(s) <=> \E i \in 1 .. n : s[i] = x
      BY <1>1, ElementsAt
    <3>. QED
      BY <2>4, <3>1, <3>2
  <2>7. \A i, j \in 1 .. n : t[i] = t[j] => i = j
    BY <2>4 DEF IsInjective
  <2>8. \A i \in 1 .. n : t[i].data <= c
    BY <1>3, <2>6
  <2>9. \A i, j \in 1 .. n : t[i].data = t[j].data => i = j
    <3>. SUFFICES ASSUME NEW i \in 1 .. n, NEW j \in 1 .. n, t[i].data = t[j].data PROVE i = j
      OBVIOUS
    <3>1. PICK a \in 1 .. n : t[i] = s[a]
      BY <2>6
    <3>2. PICK b \in 1 .. n : t[j] = s[b]
      BY <2>6
    <3>3. a = b
      BY <1>3, <3>1, <3>2
    <3>. QED
      BY <2>7, <3>1, <3>2, <3>3
  <2>10. "append" \notin mhow' => \A i, j \in 1 .. n : t[i].key = t[j].key => i = j
    <3>. SUFFICES ASSUME "append" \notin mhow, NEW i \in 1 .. n, NEW j \in 1 .. n, t[i].key = t[j].key
                  PROVE  i = j
      BY <2>5
    <3>1. PICK a \in 1 .. n : t[i] = s[a]
      BY <2>6
    <3>2. PICK b \in 1 .. n : t[j] = s[b]
      BY <2>6
    <3>3. a = b
      BY <1>4, <3>1, <3>2
    <3>. QED
      BY <2>7, <3>1, <3>2, <3>3
  <2>11. ~(mhow' \subseteq {"append"})
    BY <2>5
  <2>12. MapSizes' /\ MapApart'
    BY <2>2, <2>4, <2>5, <2>8, <2>9 DEF MapSizes, MapApart
  <2>13. MapOrdered'
    BY <2>2, <2>4, <2>10, <2>11 DEF MapOrdered
  <2>. QED
    BY <1>1, <2>2, <2>4, <2>5, <2>12, <2>13 DEF MapIInv
<1>13. CASE UNCHANGED mapVars
  BY <1>13 DEF mapVars, MapIInv, MapSizes, MapApart, MapOrdered
<1>. QED
  BY <1>8, <1>9, <1>10, <1>11, <1>12, <1>13 DEF MapNext

(* The entries are the ones stored, once, and orderAll would sort them.    *)
LEMMA MapFollows == MapIInv => MapKeepsEntries
<1> SUFFICES ASSUME MapIInv PROVE MapKeepsEntries
  OBVIOUS
<1>1. PICK s \in Seq(MapEntries) : s = mlist /\ DOMAIN s = 1 .. Len(s) /\ Len(s) \in Nat
  BY DEF MapIInv, MapSizes
<1>2. IsInjective(s)
  BY <1>1 DEF MapIInv, MapApart, IsInjective
<1>3. PICK t : t = OrderAll(s) /\ t \in Rearranged(s) /\ SortedTo(t, Len(s), Len(s))
  BY <1>2, AllOrdered
<1>4. DOMAIN t = 1 .. Len(s) /\ ToSet(t) = ToSet(s)
  BY <1>3 DEF Rearranged
<1>5. \A i, j \in DOMAIN t : i < j => t[i].key <= t[j].key
  BY <1>3, <1>4 DEF SortedTo
<1>6. /\ "append" \notin mhow => \A i, j \in DOMAIN mlist : mlist[i].key = mlist[j].key => i = j
      /\ mhow \subseteq {"append"} => \A i, j \in DOMAIN mlist : i < j => mlist[i].data < mlist[j].data
  BY <1>1 DEF MapIInv, MapOrdered
<1>7. ToSet(s) = mstored
  BY <1>1 DEF MapIInv
<1>. QED
  BY <1>1, <1>2, <1>3, <1>4, <1>5, <1>6, <1>7 DEF MapKeepsEntries

-----------------------------------------------------------------------------
(* The data tree.  K gives the items of a container, A are the items that  *)
(* are alive, H the program's, L the lost ones: every item that is alive   *)
(* has one of these places, and nothing else is anywhere.                  *)
Forest(K, A, H, L) ==
  /\ K \in [UItems -> SUBSET UItems] /\ A \subseteq UItems
  /\ \A i \in A : i \in H \/ i \in L \/ \E c \in UItems : i \in K[c]
  /\ \A i \in H : i \in A /\ i \notin L
  /\ \A i \in L : i \in A
  /\ \A c \in UItems : \A i \in K[c] : c \in A /\ i \in A /\ i \notin H /\ i \notin L
  /\ \A c, d \in UItems : \A i \in K[c] : i \in K[d] => c = d

(* No item is below itself: an item has a higher rank than its container.  *)
RankedBy(r, K) ==
  r \in [UItems -> Nat] /\ \A c \in UItems : \A i \in K[c] : r[c] < r[i]
Ranked(K) == \E r : RankedBy(r, K)

(* A set of items with all that is below them.                             *)
ClosedIn(K, T) == T \subseteq UItems /\ \A c \in T : K[c] \subseteq T

(* The least such set over S.                                              *)
Closure(K, S, B) ==
  /\ S \subseteq B /\ ClosedIn(K, B)
  /\ \A T : S \subseteq T /\ ClosedIn(K, T) => B \subseteq T

Kids == [c \in UItems |-> KidsOf(c)]

(* One round of Below adds what is in the containers, until nothing is new.*)
LEMMA MoreBelow ==
  ASSUME NEW K, K \in [UItems -> SUBSET UItems], IsFiniteSet(UItems),
         NEW S, S \subseteq UItems, NEW N, N = Cardinality(UItems),
         NEW f, Iterates(f, [X \in SUBSET UItems |-> [k \in 1 .. N |-> X \cup UNION {K[c] : c \in X}]],
                         SUBSET UItems, S, N)
  PROVE  Closure(K, S, f[N])
<1> DEFINE F == [X \in SUBSET UItems |-> [k \in 1 .. N |-> X \cup UNION {K[c] : c \in X}]]
<1>1. N \in Nat
  BY FS_CardinalityType
<1>2. /\ f \in [0 .. N -> SUBSET UItems] /\ f[0] = S
      /\ \A k \in 1 .. N : f[k] = F[f[k - 1]][k]
  BY DEF Iterates
<1>3. \A k \in 1 .. N : \A i : i \in f[k] <=> i \in f[k - 1] \/ \E c \in f[k - 1] : i \in K[c]
  <2>1. ASSUME NEW k \in 1 .. N, NEW i
        PROVE  i \in f[k] <=> i \in f[k - 1] \/ \E c \in f[k - 1] : i \in K[c]
    <3>1. k - 1 \in 0 .. N
      BY <1>1
    <3>2. PICK X \in SUBSET UItems : X = f[k - 1]
      BY <1>2, <3>1
    <3>3. f[k] = X \cup UNION {K[c] : c \in X}
      BY <1>2, <3>2
    <3>. QED
      BY <3>2, <3>3
  <2>. QED
    BY <2>1
<1> HIDE DEF F
<1>4. \A T : S \subseteq T /\ ClosedIn(K, T) => f[N] \subseteq T
  <2>1. ASSUME NEW T, S \subseteq T, ClosedIn(K, T) PROVE f[N] \subseteq T
    <3> DEFINE G == {k \in 0 .. N : f[k] \subseteq T}
    <3>1. 0 \in G
      BY <1>1, <1>2, <2>1
    <3>2. ASSUME NEW k \in 0 .. N - 1, k \in G PROVE k + 1 \in G
      <4>1. k + 1 \in 1 .. N /\ k + 1 \in 0 .. N /\ (k + 1) - 1 = k
        BY <1>1
      <4>2. f[k] \subseteq T
        BY <3>2
      <4>3. \A i : i \in f[k + 1] <=> i \in f[k] \/ \E c \in f[k] : i \in K[c]
        BY <1>3, <4>1
      <4>4. f[k + 1] \subseteq T
        BY <2>1, <4>2, <4>3 DEF ClosedIn
      <4>. QED
        BY <4>1, <4>4
    <3>3. \A k \in 0 .. N : k \in G
      <4> HIDE DEF G
      <4>. QED
        BY <1>1, <3>1, <3>2, Inductive
    <3>4. N \in 0 .. N
      BY <1>1
    <3>. QED
      BY <3>3, <3>4
  <2>. QED
    BY <2>1
<1>5. S \subseteq f[N]
  <2> DEFINE G == {k \in 0 .. N : S \subseteq f[k]}
  <2>1. 0 \in G
    BY <1>1, <1>2
  <2>2. ASSUME NEW k \in 0 .. N - 1, k \in G PROVE k + 1 \in G
    <3>1. k + 1 \in 1 .. N /\ k + 1 \in 0 .. N /\ (k + 1) - 1 = k
      BY <1>1
    <3>2. \A i : i \in f[k] => i \in f[k + 1]
      BY <1>3, <3>1
    <3>. QED
      BY <2>2, <3>1, <3>2
  <2>3. \A k \in 0 .. N : k \in G
    <3> HIDE DEF G
    <3>. QED
      BY <1>1, <2>1, <2>2, Inductive
  <2>4. N \in 0 .. N
    BY <1>1
  <2>. QED
    BY <2>3, <2>4
<1>6. ClosedIn(K, f[N])
  <2> DEFINE G == {k \in 0 .. N : ClosedIn(K, f[k]) \/ Cardinality(f[k]) >= k}
  <2>0. \A k \in 0 .. N : f[k] \subseteq UItems /\ IsFiniteSet(f[k]) /\ Cardinality(f[k]) \in Nat
    <3>1. \A k \in 0 .. N : f[k] \subseteq UItems
      BY <1>2
    <3>. QED
      BY <3>1, FS_Subset, FS_CardinalityType
  <2>1. 0 \in G
    BY <1>1, <2>0
  <2>2. ASSUME NEW k \in 0 .. N - 1, k \in G PROVE k + 1 \in G
    <3>1. k + 1 \in 1 .. N /\ k + 1 \in 0 .. N /\ (k + 1) - 1 = k /\ k \in 0 .. N
      BY <1>1
    <3>2. \A i : i \in f[k + 1] <=> i \in f[k] \/ \E c \in f[k] : i \in K[c]
      BY <1>3, <3>1
    <3>3. CASE ClosedIn(K, f[k])
      <4>1. f[k + 1] = f[k]
        BY <3>2, <3>3 DEF ClosedIn
      <4>. QED
        BY <3>1, <3>3, <4>1
    <3>4. CASE ~ClosedIn(K, f[k])
      <4>1. PICK c \in f[k] : \E i \in K[c] : i \notin f[k]
        BY <2>0, <3>1, <3>4 DEF ClosedIn
      <4>2. f[k] \subseteq f[k + 1] /\ f[k] # f[k + 1]
        BY <3>2, <4>1
      <4>3. Cardinality(f[k]) < Cardinality(f[k + 1])
        BY <2>0, <3>1, <4>2, FS_Subset
      <4>4. Cardinality(f[k]) >= k
        BY <2>2, <3>4
      <4>5. Cardinality(f[k + 1]) >= k + 1
        BY <2>0, <3>1, <4>3, <4>4
      <4>. QED
        BY <3>1, <4>5
    <3>. QED
      BY <3>3, <3>4
  <2>3. \A k \in 0 .. N : k \in G
    <3> HIDE DEF G
    <3>. QED
      BY <1>1, <2>1, <2>2, Inductive
  <2>4. N \in 0 .. N
    BY <1>1
  <2>5. CASE Cardinality(f[N]) >= N
    <3>1. f[N] = UItems
      <4>1. Cardinality(f[N]) <= Cardinality(UItems) /\ (Cardinality(f[N]) = Cardinality(UItems) => f[N] = UItems)
        BY <2>0, <2>4, FS_Subset
      <4>. QED
        BY <1>1, <2>0, <2>4, <2>5, <4>1
    <3>. QED
      BY <3>1 DEF ClosedIn
  <2>. QED
    BY <2>3, <2>4, <2>5
<1>. QED
  BY <1>4, <1>5, <1>6 DEF Closure

(* Below(S) is the least set with S and all that is below it.              *)
LEMMA BelowIs ==
  ASSUME NEW S, S \subseteq UItems, Kids \in [UItems -> SUBSET UItems]
  PROVE  Closure(Kids, S, Below(S))
<1>1. IsFiniteSet(UItems)
  BY TreeConstants
<1>2. PICK N \in Nat : N = Cardinality(UItems)
  BY <1>1, FS_CardinalityType
<1>3. PICK K : K = Kids
  OBVIOUS
<1> DEFINE T == SUBSET UItems
           F == [X \in T |-> [k \in 1 .. N |-> X \cup UNION {K[c] : c \in X}]]
<1>4. \A X \in T, k \in 1 .. N : F[X][k] = X \cup UNION {K[c] : c \in X} /\ F[X][k] \in T
  BY <1>3
<1>5. Moves(F, T, N) /\ S \in T
  BY <1>4 DEF Moves
<1>6. PICK f : Iterates(f, F, T, S, N)
  <2> HIDE DEF F, T
  <2>. QED
    BY <1>5, Iterated
<1>7. \A c \in UItems : K[c] = KidsOf(c)
  BY <1>3 DEF Kids
<1>8. f = [k \in 0 .. N |-> IF k = 0 THEN S ELSE f[k - 1] \cup UNION {KidsOf(c) : c \in f[k - 1]}]
  <2>1. f \in [0 .. N -> T] /\ f[0] = S /\ \A k \in 1 .. N : f[k] = F[f[k - 1]][k]
    BY <1>6 DEF Iterates
  <2>2. ASSUME NEW k \in 1 .. N PROVE f[k] = f[k - 1] \cup UNION {KidsOf(c) : c \in f[k - 1]}
    <3>1. k - 1 \in 0 .. N
      OBVIOUS
    <3>2. PICK X \in T : X = f[k - 1]
      BY <2>1, <3>1
    <3>3. f[k] = X \cup UNION {K[c] : c \in X}
      BY <1>4, <2>1, <3>2
    <3>4. UNION {K[c] : c \in X} = UNION {KidsOf(c) : c \in X}
      BY <1>7
    <3>. QED
      BY <3>2, <3>3, <3>4
  <2>. QED
    BY <2>1, <2>2
<1>9. Below(S) = f[N]
  <2> DEFINE G(g) == g = [k \in 0 .. N |-> IF k = 0 THEN S ELSE g[k - 1] \cup UNION {KidsOf(c) : c \in g[k - 1]}]
  <2>1. G(f)
    BY <1>8
  <2>2. PICK g : g = (CHOOSE h : G(h)) /\ G(g)
    BY <2>1
  <2>3. Below(S) = g[N]
    BY <1>2, <2>2 DEF Below
  <2>4. \A k \in 0 .. N : g[k] = f[k]
    <3> DEFINE D == {k \in 0 .. N : g[k] = f[k]}
    <3>1. 0 \in D
      <4>1. 0 \in 0 .. N
        OBVIOUS
      <4>2. g[0] = S
        BY <2>2, <4>1
      <4>3. f[0] = S
        BY <1>8, <4>1
      <4>. QED
        BY <4>1, <4>2, <4>3
    <3>2. ASSUME NEW k \in 0 .. N - 1, k \in D PROVE k + 1 \in D
      <4>1. k + 1 \in 0 .. N /\ (k + 1) - 1 = k /\ k + 1 # 0
        OBVIOUS
      <4>2. g[k + 1] = g[k] \cup UNION {KidsOf(c) : c \in g[k]}
        BY <2>2, <4>1
      <4>3. f[k + 1] = f[k] \cup UNION {KidsOf(c) : c \in f[k]}
        BY <1>8, <4>1
      <4>4. g[k] = f[k]
        BY <3>2
      <4>. QED
        BY <4>1, <4>2, <4>3, <4>4
    <3>. QED
      <4> HIDE DEF D
      <4>1. \A k \in 0 .. N : k \in D
        BY <3>1, <3>2, Inductive
      <4>. QED
        BY <4>1 DEF D
  <2>. QED
    BY <2>3, <2>4
<1>. QED
  BY <1>1, <1>2, <1>3, <1>6, <1>9, MoreBelow

(* What a closure has is in S or in a container of the closure.            *)
LEMMA FromAbove ==
  ASSUME NEW K, NEW S, NEW B, Closure(K, S, B), NEW j \in B, j \notin S
  PROVE  \E c \in B : j \in K[c]
<1> DEFINE T == {i \in B : i \in S \/ \E c \in B : i \in K[c]}
<1>1. S \subseteq T /\ ClosedIn(K, T)
  BY DEF Closure, ClosedIn
<1>2. B \subseteq T
  <2> HIDE DEF T
  <2>. QED
    BY <1>1 DEF Closure
<1>. QED
  BY <1>2

(* An item that is in no container is only below itself.                   *)
LEMMA RootAbove ==
  ASSUME NEW K, NEW A, NEW H, NEW L, Forest(K, A, H, L), NEW S, NEW B, Closure(K, S, B),
         NEW j, j \in H \cup L, j \notin S
  PROVE  j \notin B
<1>1. ASSUME j \in B PROVE FALSE
  <2>1. PICK c \in B : j \in K[c]
    BY <1>1, FromAbove
  <2>. QED
    BY <2>1 DEF Forest, Closure, ClosedIn
<1>. QED
  BY <1>1

(* No container is below what it has.                                      *)
LEMMA NotBelow ==
  ASSUME NEW K, Ranked(K), K \in [UItems -> SUBSET UItems], NEW c \in UItems, NEW i \in K[c],
         NEW B, Closure(K, {i}, B)
  PROVE  c \notin B
<1>1. PICK r : RankedBy(r, K)
  BY DEF Ranked
<1> DEFINE T == {j \in UItems : r[c] < r[j]}
<1>2. {i} \subseteq T
  BY <1>1 DEF RankedBy
<1>3. ClosedIn(K, T)
  <2>1. ASSUME NEW d \in T, NEW j \in K[d] PROVE j \in T
    <3>1. r[c] \in Nat /\ r[d] \in Nat /\ r[j] \in Nat /\ r[d] < r[j] /\ r[c] < r[d] /\ j \in UItems
      BY <1>1, <2>1 DEF RankedBy
    <3>. QED
      BY <3>1
  <2>. QED
    BY <2>1 DEF ClosedIn
<1>4. c \notin T
  BY <1>1 DEF RankedBy
<1>. QED
  <2> HIDE DEF T
  <2>. QED
    BY <1>2, <1>3, <1>4 DEF Closure

(* Fewer items in the containers stay ranked.                              *)
LEMMA FewerRanked ==
  ASSUME NEW K, Ranked(K), NEW K2, \A c \in UItems : K2[c] \subseteq K[c]
  PROVE  Ranked(K2)
BY DEF Ranked, RankedBy

(* What a closed set has can be ranked over any item outside of it.        *)
LEMMA Raised ==
  ASSUME NEW K, Ranked(K), K \in [UItems -> SUBSET UItems], NEW T, ClosedIn(K, T),
         NEW d \in UItems, d \notin T
  PROVE  \E r : RankedBy(r, K) /\ \A t \in T : r[d] < r[t]
<1>1. PICK r : RankedBy(r, K)
  BY DEF Ranked
<1>2. PICK n \in Nat : n = r[d]
  BY <1>1 DEF RankedBy
<1> DEFINE q == [i \in UItems |-> IF i \in T THEN r[i] + n + 1 ELSE r[i]]
<1>3. \A i \in UItems : r[i] \in Nat
  BY <1>1 DEF RankedBy
<1>4. q \in [UItems -> Nat]
  BY <1>3
<1>5. ASSUME NEW c \in UItems, NEW i \in K[c] PROVE q[c] < q[i]
  <2>1. r[c] \in Nat /\ r[i] \in Nat /\ r[c] < r[i] /\ i \in UItems /\ (c \in T => i \in T)
    BY <1>1, <1>3, <1>5 DEF RankedBy, ClosedIn
  <2>. QED
    BY <2>1
<1>6. ASSUME NEW t \in T PROVE q[d] < q[t]
  <2>1. t \in UItems /\ r[t] \in Nat /\ q[d] = n /\ q[t] = r[t] + n + 1
    BY <1>2, <1>3, <1>6 DEF ClosedIn
  <2>. QED
    BY <2>1
<1>7. RankedBy(q, K)
  BY <1>4, <1>5 DEF RankedBy
<1>. QED
  <2> HIDE DEF q
  <2>. QED
    BY <1>6, <1>7

(* Nothing is new in K2 but that d has what is in X.                       *)
Gains(K, K2, d, X) == \A c \in UItems : K2[c] \subseteq (IF c = d THEN K[c] \cup X ELSE K[c])

(* Items that go to a container they are not above of.                     *)
LEMMA StaysRanked ==
  ASSUME NEW K, Ranked(K), K \in [UItems -> SUBSET UItems], NEW T, ClosedIn(K, T),
         NEW d, d \in UItems, d \notin T, NEW K2, NEW X, X \subseteq T,
         Gains(K, K2, d, X)
  PROVE  Ranked(K2)
<1>1. PICK r : RankedBy(r, K) /\ \A t \in T : r[d] < r[t]
  BY Raised
<1>2. RankedBy(r, K2)
  BY <1>1 DEF RankedBy, ClosedIn, Gains
<1>. QED
  BY <1>2 DEF Ranked

(* A closed set is taken out, D of it destroyed, the rest lost.            *)
LEMMA Cut ==
  ASSUME NEW K, NEW A, NEW H, NEW L, Forest(K, A, H, L), NEW B, ClosedIn(K, B), B \subseteq A,
         B \cap L = {}, NEW D, D \subseteq B, NEW K2,
         K2 = [c \in UItems |-> IF c \in B THEN {} ELSE K[c] \ B]
  PROVE  Forest(K2, A \ D, H \ B, L \cup (B \ D))
<1>1. K2 \in [UItems -> SUBSET UItems] /\ A \ D \subseteq UItems
  BY DEF Forest
<1>2. \A c \in UItems : \A i : i \in K2[c] <=> c \notin B /\ i \in K[c] /\ i \notin B
  OBVIOUS
<1>3. \A i \in A \ D : i \in H \ B \/ i \in L \cup (B \ D) \/ \E c \in UItems : i \in K2[c]
  BY <1>2 DEF Forest, ClosedIn
<1>4. \A i \in H \ B : i \in A \ D /\ i \notin L \cup (B \ D)
  BY DEF Forest
<1>5. \A i \in L \cup (B \ D) : i \in A \ D
  BY DEF Forest
<1>6. \A c \in UItems : \A i \in K2[c] : c \in A \ D /\ i \in A \ D /\ i \notin H \ B /\ i \notin L \cup (B \ D)
  BY <1>2 DEF Forest
<1>7. \A c, d \in UItems : \A i \in K2[c] : i \in K2[d] => c = d
  BY <1>2 DEF Forest
<1>. QED
  BY <1>1, <1>3, <1>4, <1>5, <1>6, <1>7 DEF Forest

(* What the program has goes to a container.                               *)
LEMMA Handed ==
  ASSUME NEW K, NEW A, NEW H, NEW L, Forest(K, A, H, L), NEW i \in H, NEW d \in A,
         NEW K2, K2 = [c \in UItems |-> IF c = d THEN K[c] \cup {i} ELSE K[c]]
  PROVE  Forest(K2, A, H \ {i}, L)
<1>1. i \in A /\ i \in UItems /\ d \in UItems /\ K2 \in [UItems -> SUBSET UItems]
  BY DEF Forest
<1>2. \A c \in UItems : \A j : j \in K2[c] <=> j \in K[c] \/ (c = d /\ j = i)
  OBVIOUS
<1>3. \A c \in UItems : i \notin K[c]
  BY DEF Forest
<1>4. \A j \in A : j \in H \ {i} \/ j \in L \/ \E c \in UItems : j \in K2[c]
  BY <1>1, <1>2 DEF Forest
<1>5. \A c \in UItems : \A j \in K2[c] : c \in A /\ j \in A /\ j \notin H \ {i} /\ j \notin L
  BY <1>1, <1>2 DEF Forest
<1>6. \A c, e \in UItems : \A j \in K2[c] : j \in K2[e] => c = e
  BY <1>2, <1>3 DEF Forest
<1>. QED
  BY <1>1, <1>4, <1>5, <1>6 DEF Forest

(* What a container has goes to the program.                               *)
LEMMA Extracted ==
  ASSUME NEW K, NEW A, NEW H, NEW L, Forest(K, A, H, L), NEW d \in UItems, NEW i \in K[d],
         NEW K2, K2 = [c \in UItems |-> IF c = d THEN K[c] \ {i} ELSE K[c]]
  PROVE  Forest(K2, A, H \cup {i}, L)
<1>1. i \in A /\ i \in UItems /\ i \notin L /\ K2 \in [UItems -> SUBSET UItems]
  BY DEF Forest
<1>2. \A c \in UItems : \A j : j \in K2[c] <=> j \in K[c] /\ ~(c = d /\ j = i)
  OBVIOUS
<1>3. \A j \in A : j \in H \cup {i} \/ j \in L \/ \E c \in UItems : j \in K2[c]
  BY <1>1, <1>2 DEF Forest
<1>4. \A c \in UItems : \A j \in K2[c] : c \in A /\ j \in A /\ j \notin H \cup {i} /\ j \notin L
  BY <1>1, <1>2 DEF Forest
<1>5. \A c, e \in UItems : \A j \in K2[c] : j \in K2[e] => c = e
  BY <1>2 DEF Forest
<1>. QED
  BY <1>1, <1>3, <1>4, <1>5 DEF Forest

(* What was nothing becomes an item, of the program's, lost or kept.       *)
LEMMA Born ==
  ASSUME NEW K, NEW A, NEW H, NEW L, Forest(K, A, H, L), NEW i \in UItems, i \notin A
  PROVE  /\ Forest(K, A \cup {i}, H \cup {i}, L)
         /\ Forest(K, A \cup {i}, H, L \cup {i})
BY DEF Forest

(* Items of p change over to d, or are refused and lost.                   *)
ChangedOver(K, K2, d, p, X, Y) ==
  /\ X \subseteq K[p] /\ Y \subseteq K[p] /\ X \cap Y = {}
  /\ K2 = [c \in UItems |-> IF c = d THEN K[c] \cup X
                           ELSE IF c = p THEN K[c] \ (X \cup Y) ELSE K[c]]

LEMMA Rehoused ==
  ASSUME NEW K, NEW A, NEW H, NEW L, Forest(K, A, H, L), NEW d \in A, NEW p \in A, d # p,
         NEW X, NEW Y, NEW K2, ChangedOver(K, K2, d, p, X, Y)
  PROVE  Forest(K2, A, H, L \cup Y)
<1>0. /\ X \subseteq K[p] /\ Y \subseteq K[p] /\ X \cap Y = {}
      /\ K2 = [c \in UItems |-> IF c = d THEN K[c] \cup X
                               ELSE IF c = p THEN K[c] \ (X \cup Y) ELSE K[c]]
  BY DEF ChangedOver
<1>1. d \in UItems /\ p \in UItems /\ K2 \in [UItems -> SUBSET UItems]
  BY <1>0 DEF Forest
<1>2. \A c \in UItems : \A j : j \in K2[c] <=> IF j \in X THEN c = d ELSE IF j \in Y THEN FALSE ELSE j \in K[c]
  <2>1. ASSUME NEW c \in UItems, NEW j, j \in X \cup Y PROVE j \in K[c] => c = p
    BY <1>0, <1>1, <2>1 DEF Forest
  <2>. QED
    BY <1>0, <1>1, <2>1
<1>3. \A j \in A : j \in H \/ j \in L \cup Y \/ \E c \in UItems : j \in K2[c]
  BY <1>0, <1>1, <1>2 DEF Forest
<1>4. \A c \in UItems : \A j \in K2[c] : c \in A /\ j \in A /\ j \notin H /\ j \notin L \cup Y
  BY <1>0, <1>1, <1>2 DEF Forest
<1>5. \A c, e \in UItems : \A j \in K2[c] : j \in K2[e] => c = e
  BY <1>2 DEF Forest
<1>6. \A j \in L \cup Y : j \in A
  BY <1>0, <1>1 DEF Forest
<1>7. \A j \in H : j \in A /\ j \notin L \cup Y
  BY <1>0, <1>1 DEF Forest
<1>. QED
  BY <1>1, <1>3, <1>4, <1>5, <1>6, <1>7 DEF Forest

-----------------------------------------------------------------------------
(* The entries of a container.                                             *)
KeptItems == [key : UNames \cup {NoName}, item : UItems]
KidsIn(s) == {s[k].item : k \in DOMAIN s}
OnceIn(s) == \A j, k \in DOMAIN s : s[j].item = s[k].item => j = k

(* The same, for a sequence that is named elsewhere.                       *)
Holds(s, X) == s \in Seq(KeptItems) /\ OnceIn(s) /\ KidsIn(s) = X

(* An entry is one.                                                        *)
LEMMA EntryTyped ==
  ASSUME NEW s, s \in Seq(KeptItems)
  PROVE  \A k \in DOMAIN s : s[k] \in KeptItems /\ s[k].item \in UItems
<1>1. PICK t \in Seq(KeptItems) : t = s
  OBVIOUS
<1>2. \A k \in 1 .. Len(t) : t[k] \in KeptItems
  OBVIOUS
<1>3. DOMAIN t = 1 .. Len(t)
  OBVIOUS
<1>4. \A e \in KeptItems : e.item \in UItems
  BY DEF KeptItems
<1>. QED
  BY <1>1, <1>2, <1>3, <1>4

(* An entry is appended.                                                   *)
LEMMA EntryAdded ==
  ASSUME NEW s, s \in Seq(KeptItems), OnceIn(s), NEW e, e \in KeptItems, e.item \notin KidsIn(s)
  PROVE  Holds(Append(s, e), KidsIn(s) \cup {e.item})
<1>1. PICK n \in Nat : n = Len(s) /\ DOMAIN s = 1 .. n
  OBVIOUS
<1>2. PICK t : t = Append(s, e)
  OBVIOUS
<1>3. t \in Seq(KeptItems) /\ Len(t) = n + 1 /\ t[n + 1] = e /\ \A k \in 1 .. n : t[k] = s[k]
  BY <1>1, <1>2
<1>4. DOMAIN t = 1 .. n + 1
  BY <1>3
<1>5. \A k \in 1 .. n + 1 : k = n + 1 \/ k \in 1 .. n
  BY <1>1
<1>6. \A k \in 1 .. n : s[k].item \in KidsIn(s)
  BY <1>1 DEF KidsIn
<1>7. OnceIn(t)
  BY <1>1, <1>3, <1>4, <1>5, <1>6 DEF OnceIn
<1>8. KidsIn(t) = KidsIn(s) \cup {e.item}
  <2>1. n + 1 \in 1 .. n + 1 /\ \A k \in 1 .. n : k \in 1 .. n + 1
    BY <1>1
  <2>2. \A i : (\E k \in 1 .. n + 1 : i = t[k].item) <=> (\E k \in 1 .. n : i = s[k].item) \/ i = e.item
    BY <1>3, <1>5, <2>1
  <2>3. \A i : i \in KidsIn(t) <=> \E k \in 1 .. n + 1 : i = t[k].item
    BY <1>4 DEF KidsIn
  <2>4. \A i : i \in KidsIn(s) <=> \E k \in 1 .. n : i = s[k].item
    BY <1>1 DEF KidsIn
  <2>5. \A i : i \in KidsIn(t) <=> i \in KidsIn(s) \/ i = e.item
    BY <2>2, <2>3, <2>4
  <2>. QED
    BY <2>5
<1>. QED
  BY <1>2, <1>3, <1>7, <1>8 DEF Holds

(* An entry is removed.                                                    *)
LEMMA EntryGone ==
  ASSUME NEW s, s \in Seq(KeptItems), OnceIn(s), NEW at, at \in DOMAIN s
  PROVE  Holds(RemoveAt(s, at), KidsIn(s) \ {s[at].item})
<1>1. PICK n \in Nat : n = Len(s) /\ DOMAIN s = 1 .. n
  OBVIOUS
<1>2. PICK t : t = RemoveAt(s, at) /\ Removed(KeptItems, s, at, t)
  BY <1>1, RemovedIs
<1>3. /\ t \in Seq(KeptItems) /\ DOMAIN t = 1 .. n - 1 /\ at \in 1 .. n
      /\ \A i \in 1 .. at - 1 : t[i] = s[i]
      /\ \A i \in at .. n - 1 : t[i] = s[i + 1]
  BY <1>1, <1>2 DEF Removed
<1>4. \A k \in 1 .. n - 1 : t[k] = s[IF k < at THEN k ELSE k + 1] /\ (IF k < at THEN k ELSE k + 1) \in 1 .. n
  BY <1>1, <1>3
<1>5. OnceIn(t)
  <2>1. ASSUME NEW j \in 1 .. n - 1, NEW k \in 1 .. n - 1, t[j].item = t[k].item PROVE j = k
    <3>1. PICK x \in 1 .. n : x = (IF j < at THEN j ELSE j + 1) /\ t[j] = s[x]
      BY <1>4
    <3>2. PICK y \in 1 .. n : y = (IF k < at THEN k ELSE k + 1) /\ t[k] = s[y]
      BY <1>4
    <3>3. x = y
      BY <1>1, <2>1, <3>1, <3>2 DEF OnceIn
    <3>. QED
      BY <1>3, <3>1, <3>2, <3>3
  <2>. QED
    BY <1>3, <2>1 DEF OnceIn
<1>6. KidsIn(t) = KidsIn(s) \ {s[at].item}
  <2>1. ASSUME NEW k \in 1 .. n - 1
        PROVE  t[k].item \in KidsIn(s) /\ t[k].item # s[at].item
    <3>1. PICK x \in 1 .. n : x = (IF k < at THEN k ELSE k + 1) /\ t[k] = s[x]
      BY <1>4
    <3>2. x # at
      BY <1>3, <3>1
    <3>. QED
      BY <1>1, <1>3, <3>1, <3>2 DEF OnceIn, KidsIn
  <2>2. ASSUME NEW x \in 1 .. n, x # at PROVE s[x].item \in KidsIn(t)
    <3>1. PICK k \in 1 .. n - 1 : k = IF x < at THEN x ELSE x - 1
      BY <1>1, <1>3, <2>2
    <3>2. t[k] = s[x]
      <4>1. at \in Nat /\ x \in Nat /\ k \in Nat
        BY <1>3
      <4>2. CASE x < at
        <5>1. k = x /\ k < at
          BY <4>2, <3>1
        <5>. QED
          BY <1>4, <5>1
      <4>3. CASE ~(x < at)
        <5>1. k + 1 = x /\ ~(k < at)
          BY <2>2, <3>1, <4>1, <4>3
        <5>. QED
          BY <1>4, <5>1
      <4>. QED
        BY <4>2, <4>3
    <3>. QED
      BY <1>3, <3>2 DEF KidsIn
  <2>3. ASSUME NEW i, i \in KidsIn(t) PROVE i \in KidsIn(s) /\ i # s[at].item
    <3>1. PICK k \in 1 .. n - 1 : i = t[k].item
      BY <1>3, <2>3 DEF KidsIn
    <3>. QED
      BY <2>1, <3>1
  <2>4. ASSUME NEW i, i \in KidsIn(s), i # s[at].item PROVE i \in KidsIn(t)
    <3>1. PICK x \in 1 .. n : i = s[x].item
      BY <1>1, <2>4 DEF KidsIn
    <3>. QED
      BY <2>2, <2>4, <3>1
  <2>. QED
    BY <2>3, <2>4
<1>. QED
  BY <1>2, <1>3, <1>5, <1>6 DEF Holds

-----------------------------------------------------------------------------
(* The types, and that an item is in one place; in a container the order of*)
(* the entries does not matter for that.                                   *)
TreeTypes ==
  /\ utype \in [UItems -> Containers \cup Leaves \cup {NoItem}]
  /\ uname \in [UItems -> UNames \cup {NoName}]
  /\ uval \in [UItems -> Int]
  /\ ukids \in [UItems -> Seq(KeptItems)]
TreeApart == \A c \in UItems : OnceIn(ukids[c])
LostAre == \A i \in ulost : Stays(i) \/ uname[i] = NoName
TreeIInv == TreeTypes /\ TreeApart /\ Forest(Kids, Alive, uhold, ulost) /\ Ranked(Kids) /\ LostAre

(* The items of a container.                                               *)
LEMMA KidsAre ==
  ASSUME TreeTypes, TreeApart
  PROVE  /\ Kids \in [UItems -> SUBSET UItems]
         /\ \A c \in UItems : Kids[c] = KidsOf(c) /\ Holds(ukids[c], KidsOf(c)) /\ KidsIn(ukids[c]) = KidsOf(c)
<1>1. ASSUME NEW c \in UItems
      PROVE  ukids[c] \in Seq(KeptItems) /\ OnceIn(ukids[c]) /\ KidsIn(ukids[c]) = KidsOf(c) /\ KidsOf(c) \subseteq UItems
  <2>1. ukids[c] \in Seq(KeptItems) /\ OnceIn(ukids[c]) /\ KidsIn(ukids[c]) = KidsOf(c)
    BY DEF TreeTypes, TreeApart, KidsIn, KidsOf
  <2>2. \A k \in DOMAIN ukids[c] : ukids[c][k].item \in UItems
    BY <2>1, EntryTyped
  <2>. QED
    BY <2>1, <2>2 DEF KidsOf
<1>. QED
  BY <1>1 DEF Kids, Holds

(* A node after k entries of p were offered to it.                         *)
MergedTo(s, d, p, k) ==
  /\ s \in Seq(KeptItems) /\ OnceIn(s) /\ KidsOf(d) \subseteq KidsIn(s)
  /\ \A i \in KidsIn(s) :
       i \in KidsOf(d) \/ (uname[i] # NoName /\ \E j \in 1 .. k : i = ukids[p][j].item)
Offered(s, d, i) ==
  IF Takes(d, uname[i]) /\ \A m \in DOMAIN s : s[m].key # uname[i]
  THEN Append(s, Keyed(uname[i], i)) ELSE s

(* The next entry is offered.                                              *)
LEMMA OneMerged ==
  ASSUME TreeTypes, TreeApart, NEW d \in UItems, NEW p \in UItems, KidsOf(d) \cap KidsOf(p) = {},
         utype[d] = "node", NEW k \in 1 .. Len(ukids[p]), NEW s, MergedTo(s, d, p, k - 1)
  PROVE  MergedTo(Offered(s, d, ukids[p][k].item), d, p, k)
<1>1. PICK i : i = ukids[p][k].item
  OBVIOUS
<1>2. ukids[p] \in Seq(KeptItems) /\ OnceIn(ukids[p]) /\ k \in DOMAIN ukids[p] /\ k \in Nat
  BY DEF TreeTypes, TreeApart
<1>3. i \in UItems /\ i \in KidsOf(p) /\ i \notin KidsOf(d)
  <2>1. i \in UItems
    BY <1>1, <1>2, EntryTyped
  <2>2. i \in KidsOf(p)
    BY <1>1, <1>2 DEF KidsOf
  <2>. QED
    BY <2>1, <2>2
<1>4. /\ s \in Seq(KeptItems) /\ OnceIn(s) /\ KidsOf(d) \subseteq KidsIn(s)
      /\ \A x \in KidsIn(s) :
           x \in KidsOf(d) \/ (uname[x] # NoName /\ \E j \in 1 .. k - 1 : x = ukids[p][j].item)
  BY DEF MergedTo
<1>5. \A j \in 1 .. k - 1 : j \in 1 .. k /\ j \in DOMAIN ukids[p] /\ j # k
  BY <1>2
<1>6. i \notin KidsIn(s)
  BY <1>1, <1>2, <1>3, <1>4, <1>5 DEF OnceIn
<1>7. CASE Takes(d, uname[i]) /\ \A m \in DOMAIN s : s[m].key # uname[i]
  <2>1. PICK e : e = Keyed(uname[i], i)
    OBVIOUS
  <2>2. e \in KeptItems /\ e.item = i
    BY <1>3, <2>1 DEF Keyed, KeptItems, TreeTypes
  <2>3. PICK t : t = Append(s, e) /\ Holds(t, KidsIn(s) \cup {i})
    BY <1>4, <1>6, <2>2, EntryAdded
  <2>4. Offered(s, d, i) = t
    BY <1>7, <2>1, <2>3 DEF Offered
  <2>5. uname[i] # NoName
    BY <1>7 DEF Takes
  <2>6. k \in 1 .. k
    BY <1>2
  <2>7. MergedTo(t, d, p, k)
    BY <1>1, <1>4, <1>5, <2>3, <2>5, <2>6 DEF MergedTo, Holds
  <2>. QED
    BY <1>1, <2>4, <2>7
<1>8. CASE ~(Takes(d, uname[i]) /\ \A m \in DOMAIN s : s[m].key # uname[i])
  <2>1. Offered(s, d, i) = s
    BY <1>8 DEF Offered
  <2>2. MergedTo(s, d, p, k)
    BY <1>4, <1>5 DEF MergedTo
  <2>. QED
    BY <1>1, <2>1, <2>2
<1>. QED
  BY <1>7, <1>8

(* What has changed over when the loop is through.                         *)
LEMMA MergedIs ==
  ASSUME TreeTypes, TreeApart, NEW d \in UItems, NEW p \in UItems, KidsOf(d) \cap KidsOf(p) = {},
         utype[d] = "node"
  PROVE  \E X : /\ X \subseteq KidsOf(p) /\ \A i \in X : uname[i] # NoName
                /\ Holds(MergedKids(d, p), KidsOf(d) \cup X)
<1>1. PICK N \in Nat : N = Len(ukids[p]) /\ DOMAIN ukids[p] = 1 .. N /\ ukids[p] \in Seq(KeptItems)
  BY DEF TreeTypes
<1>2. ukids[d] \in Seq(KeptItems) /\ OnceIn(ukids[d]) /\ KidsIn(ukids[d]) = KidsOf(d)
  BY DEF TreeTypes, TreeApart, KidsIn, KidsOf
<1> DEFINE T == Seq(KeptItems)
           F == [x \in T |-> [k \in 1 .. N |-> Offered(x, d, ukids[p][k].item)]]
<1>3. ASSUME NEW x \in T, NEW k \in 1 .. N PROVE Offered(x, d, ukids[p][k].item) \in T
  <2>1. PICK i \in UItems : i = ukids[p][k].item
    BY <1>1, EntryTyped
  <2>2. Keyed(uname[i], i) \in KeptItems
    BY DEF Keyed, KeptItems, TreeTypes
  <2>3. Offered(x, d, i) \in T
    BY <2>2 DEF Offered
  <2>. QED
    BY <2>1, <2>3
<1>4. Moves(F, T, N) /\ ukids[d] \in T
  BY <1>2, <1>3 DEF Moves
<1>5. PICK f : Iterates(f, F, T, ukids[d], N)
  <2> HIDE DEF F, T
  <2>. QED
    BY <1>4, Iterated
<1>6. /\ f \in [0 .. N -> T] /\ f[0] = ukids[d]
      /\ \A k \in 1 .. N : f[k] = Offered(f[k - 1], d, ukids[p][k].item)
  <2>1. f \in [0 .. N -> T] /\ f[0] = ukids[d] /\ \A k \in 1 .. N : f[k] = F[f[k - 1]][k]
    BY <1>5 DEF Iterates
  <2>2. ASSUME NEW k \in 1 .. N PROVE f[k] = Offered(f[k - 1], d, ukids[p][k].item)
    <3>1. k - 1 \in 0 .. N
      OBVIOUS
    <3>2. PICK x \in T : x = f[k - 1]
      BY <2>1, <3>1
    <3>3. f[k] = Offered(x, d, ukids[p][k].item)
      BY <2>1, <3>2
    <3>. QED
      BY <3>2, <3>3
  <2>. QED
    BY <2>1, <2>2
<1> DEFINE G(g) == g = [k \in 0 .. N |-> IF k = 0 THEN ukids[d] ELSE Offered(g[k - 1], d, ukids[p][k].item)]
<1> HIDE DEF F, T
<1>7. G(f)
  BY <1>6
<1>8. PICK g : g = (CHOOSE h : G(h)) /\ G(g)
  BY <1>7
<1>9. MergedKids(d, p) = g[N]
  BY <1>1, <1>8 DEF MergedKids, Offered
<1>10. g[N] = f[N]
  <2> DEFINE D == {k \in 0 .. N : g[k] = f[k]}
  <2>1. 0 \in D
    <3>1. 0 \in 0 .. N
      OBVIOUS
    <3>2. g[0] = ukids[d]
      BY <1>8, <3>1
    <3>. QED
      BY <1>6, <3>1, <3>2
  <2>2. ASSUME NEW k \in 0 .. N - 1, k \in D PROVE k + 1 \in D
    <3>1. k + 1 \in 0 .. N /\ (k + 1) - 1 = k /\ k + 1 # 0 /\ k + 1 \in 1 .. N
      OBVIOUS
    <3>2. g[k + 1] = Offered(g[k], d, ukids[p][k + 1].item)
      BY <1>8, <3>1
    <3>3. f[k + 1] = Offered(f[k], d, ukids[p][k + 1].item)
      BY <1>6, <3>1
    <3>4. g[k] = f[k]
      BY <2>2
    <3>. QED
      BY <3>1, <3>2, <3>3, <3>4
  <2>3. \A k \in 0 .. N : k \in D
    <3> HIDE DEF D, G
    <3>. QED
      BY <2>1, <2>2, Inductive
  <2>. QED
    BY <2>3
<1> HIDE DEF G
<1>11. MergedTo(f[N], d, p, N)
  <2> DEFINE D == {k \in 0 .. N : MergedTo(f[k], d, p, k)}
  <2>1. 0 \in D
    BY <1>2, <1>6 DEF MergedTo
  <2>2. ASSUME NEW k \in 0 .. N - 1, k \in D PROVE k + 1 \in D
    <3>1. k + 1 \in 0 .. N /\ (k + 1) - 1 = k /\ k + 1 \in 1 .. N
      OBVIOUS
    <3>2. PICK m : m = k + 1 /\ m \in 1 .. Len(ukids[p]) /\ m - 1 = k
      BY <1>1, <3>1
    <3>3. PICK s : s = f[k] /\ MergedTo(s, d, p, m - 1)
      BY <2>2, <3>2
    <3>4. MergedTo(Offered(s, d, ukids[p][m].item), d, p, m)
      <4> HIDE DEF D
      <4>. QED
        BY <3>2, <3>3, OneMerged
    <3>5. f[m] = Offered(s, d, ukids[p][m].item)
      BY <1>6, <3>1, <3>2, <3>3
    <3>. QED
      BY <3>1, <3>2, <3>4, <3>5
  <2>3. \A k \in 0 .. N : k \in D
    <3> HIDE DEF D
    <3>. QED
      BY <2>1, <2>2, Inductive
  <2>. QED
    BY <2>3
<1>12. PICK s : s = MergedKids(d, p) /\ MergedTo(s, d, p, N)
  BY <1>9, <1>10, <1>11
<1> DEFINE X == KidsIn(s) \ KidsOf(d)
<1>13. X \subseteq KidsOf(p) /\ \A i \in X : uname[i] # NoName
  <2>1. \A j \in 1 .. N : ukids[p][j].item \in KidsOf(p)
    BY <1>1 DEF KidsOf
  <2>. QED
    BY <1>12, <2>1 DEF MergedTo
<1>14. Holds(s, KidsOf(d) \cup X)
  BY <1>12 DEF MergedTo, Holds
<1>. QED
  BY <1>12, <1>13, <1>14

-----------------------------------------------------------------------------
(* Nothing is there at first.                                              *)
LEMMA TreeStarts == TreeInit => TreeIInv
<1> SUFFICES ASSUME TreeInit PROVE TreeIInv
  OBVIOUS
<1>1. /\ utype = [i \in UItems |-> NoItem] /\ uname = [i \in UItems |-> NoName]
      /\ uval = [i \in UItems |-> 0] /\ ukids = [i \in UItems |-> <<>>]
      /\ uhold = {} /\ ulost = {}
  BY DEF TreeInit
<1>2. TreeTypes
  BY <1>1 DEF TreeTypes
<1>3. TreeApart
  BY <1>1 DEF TreeApart, OnceIn
<1>4. \A c \in UItems : Kids[c] = {}
  BY <1>1 DEF Kids, KidsOf
<1>5. Kids \in [UItems -> SUBSET UItems]
  BY <1>2, <1>3, KidsAre
<1>6. Alive = {}
  BY <1>1 DEF Alive
<1>7. Forest(Kids, Alive, uhold, ulost)
  BY <1>1, <1>4, <1>5, <1>6 DEF Forest
<1>8. RankedBy([i \in UItems |-> 0], Kids)
  BY <1>4 DEF RankedBy
<1>. QED
  BY <1>1, <1>2, <1>3, <1>7, <1>8 DEF TreeIInv, LostAre, Ranked

(* After a step, by what it leaves in the containers.                      *)
LEMMA TreeAfter ==
  ASSUME NEW K2, K2 \in [UItems -> SUBSET UItems],
         /\ utype' \in [UItems -> Containers \cup Leaves \cup {NoItem}]
         /\ uname' \in [UItems -> UNames \cup {NoName}]
         /\ uval' \in [UItems -> Int]
         /\ ukids' = [c \in UItems |-> ukids'[c]],
         \A c \in UItems : Holds(ukids'[c], K2[c]),
         Forest(K2, Alive', uhold', ulost'), Ranked(K2), LostAre'
  PROVE  TreeIInv'
<1>1. \A c \in UItems : ukids'[c] \in Seq(KeptItems) /\ OnceIn(ukids'[c]) /\ KidsIn(ukids'[c]) = K2[c]
  BY DEF Holds
<1>2. TreeTypes'
  BY <1>1 DEF TreeTypes, KeptItems
<1>3. TreeApart'
  BY <1>1 DEF TreeApart, OnceIn
<1>4. Kids' = K2
  <2>1. \A c \in UItems : KidsOf(c)' = K2[c]
    BY <1>1 DEF KidsOf, KidsIn
  <2>. QED
    BY <2>1 DEF Kids
<1>5. Forest(Kids, Alive, uhold, ulost)'
  BY <1>4 DEF Forest
<1>6. Ranked(Kids)'
  BY <1>4 DEF Ranked, RankedBy
<1>. QED
  BY <1>2, <1>3, <1>5, <1>6 DEF TreeIInv

(* What is in B is destroyed or lost, with all it has.                     *)
LEMMA TreeCut ==
  ASSUME TreeTypes, NEW K1, NEW H1, NEW L1, Forest(K1, Alive, H1, L1), Ranked(K1),
         \A i \in L1 : Stays(i) \/ uname[i] = NoName,
         NEW B, ClosedIn(K1, B), B \subseteq Alive, B \cap L1 = {},
         /\ utype' = [i \in UItems |-> IF i \in B /\ ~Stays(i) THEN NoItem ELSE utype[i]]
         /\ uname' = [i \in UItems |-> IF i \in B /\ ~Stays(i) THEN NoName ELSE uname[i]]
         /\ uval' = [i \in UItems |-> IF i \in B /\ ~Stays(i) THEN 0 ELSE uval[i]]
         /\ ulost' = L1 \cup {i \in B : Stays(i)} /\ uhold' = H1 \ B
         /\ ukids' = [c \in UItems |-> ukids'[c]],
         \A c \in UItems : Holds(ukids'[c], IF c \in B THEN {} ELSE K1[c] \ B)
  PROVE  TreeIInv'
<1>0. PICK D : D = {i \in B : ~Stays(i)}
  OBVIOUS
<1>1. D \subseteq B /\ B \ D = {i \in B : Stays(i)} /\ \A i : i \in D <=> i \in B /\ ~Stays(i)
  BY <1>0
<1>2. PICK K2 : K2 = [c \in UItems |-> IF c \in B THEN {} ELSE K1[c] \ B]
  OBVIOUS
<1>3. Forest(K2, Alive \ D, H1 \ B, L1 \cup (B \ D))
  BY <1>1, <1>2, Cut
<1>4. Alive' = Alive \ D
  <2>1. \A i \in UItems : utype'[i] = IF i \in D THEN NoItem ELSE utype[i]
    BY <1>1
  <2>. QED
    BY <1>1, <2>1 DEF Alive
<1>5. Forest(K2, Alive', uhold', ulost')
  BY <1>1, <1>3, <1>4
<1>6. Ranked(K2)
  <2>1. \A c \in UItems : K2[c] \subseteq K1[c]
    BY <1>2
  <2>. QED
    BY <2>1, FewerRanked
<1>7. /\ utype' \in [UItems -> Containers \cup Leaves \cup {NoItem}]
      /\ uname' \in [UItems -> UNames \cup {NoName}]
      /\ uval' \in [UItems -> Int]
  BY DEF TreeTypes
<1>8. LostAre'
  <2>1. L1 \subseteq UItems /\ B \subseteq UItems
    BY DEF Forest, ClosedIn
  <2>2. ASSUME NEW i, i \in ulost' PROVE Stays(i)' \/ uname'[i] = NoName
    <3>1. i \in UItems /\ (i \notin B \/ Stays(i))
      BY <2>1, <2>2
    <3>2. utype'[i] = utype[i] /\ uname'[i] = uname[i] /\ uval'[i] = uval[i]
      BY <3>1
    <3>3. Stays(i)' <=> Stays(i)
      BY <3>2 DEF Stays
    <3>. QED
      BY <2>2, <3>2, <3>3
  <2>. QED
    BY <2>2 DEF LostAre
<1>9. K2 \in [UItems -> SUBSET UItems] /\ \A c \in UItems : Holds(ukids'[c], K2[c])
  BY <1>2, <1>3 DEF Forest
<1>. QED
  BY <1>5, <1>6, <1>7, <1>8, <1>9, TreeAfter

(* Empty.                                                                  *)
LEMMA HoldsNothing == Holds(<<>>, {})
BY DEF Holds, OnceIn, KidsIn

(* What is below one item of the program, or of one container, is alive,   *)
(* has its places inside, and nothing lost is in it.                       *)
Inside(K, A, H, L, i, B) ==
  /\ B \subseteq A /\ B \cap L = {} /\ i \in B
  /\ \A c \in UItems \ B : K[c] \cap B \subseteq {i}
  /\ H \cap B \subseteq {i}
  /\ \A c \in UItems : i \in K[c] => c \notin B

LEMMA BelowOne ==
  ASSUME NEW K, NEW A, NEW H, NEW L, Forest(K, A, H, L), Ranked(K), NEW i, i \in A, i \notin L,
         NEW B, Closure(K, {i}, B)
  PROVE  Inside(K, A, H, L, i, B)
<1>1. ClosedIn(K, A)
  BY DEF Forest, ClosedIn
<1>2. B \subseteq A /\ i \in B
  BY <1>1 DEF Closure
<1>3. \A j \in H \cup L : j \notin {i} => j \notin B
  BY RootAbove
<1>4. ASSUME NEW c \in UItems \ B, NEW j \in K[c] \cap B, j # i PROVE FALSE
  <2>1. PICK d \in B : j \in K[d]
    BY <1>4, FromAbove
  <2>2. d \in UItems
    BY <2>1 DEF Closure, ClosedIn
  <2>3. c = d
    BY <2>1, <2>2 DEF Forest
  <2>. QED
    BY <2>1, <2>3
<1>5. \A c \in UItems : i \in K[c] => c \notin B
  <2>1. K \in [UItems -> SUBSET UItems]
    BY DEF Forest
  <2>. QED
    BY <2>1, NotBelow
<1>. QED
  BY <1>2, <1>3, <1>4, <1>5 DEF Inside

(* ecudc_destroy.                                                          *)
LEMMA DestroyedAll ==
  ASSUME TreeIInv, NEW i \in UItems, DestroyItem(i) PROVE TreeIInv'
<1>1. /\ TreeTypes /\ TreeApart /\ Forest(Kids, Alive, uhold, ulost) /\ Ranked(Kids)
      /\ \A j \in ulost : Stays(j) \/ uname[j] = NoName
  BY DEF TreeIInv, LostAre
<1>2. PICK K : K = Kids /\ K \in [UItems -> SUBSET UItems]
               /\ \A c \in UItems : Holds(ukids[c], K[c])
  BY <1>1, KidsAre
<1>3. PICK B : B = Below({i}) /\ Closure(K, {i}, B)
  BY <1>2, BelowIs
<1>4. i \in uhold /\ i \in Alive /\ i \notin ulost
  BY <1>1 DEF DestroyItem, Forest
<1>5. /\ B \subseteq Alive /\ B \cap ulost = {} /\ i \in B
      /\ \A c \in UItems \ B : K[c] \cap B \subseteq {i}
      /\ uhold \cap B \subseteq {i}
  <2>1. Forest(K, Alive, uhold, ulost) /\ Ranked(K)
    BY <1>1, <1>2
  <2>2. Inside(K, Alive, uhold, ulost, i, B)
    BY <1>3, <1>4, <2>1, BelowOne
  <2>. QED
    BY <2>2 DEF Inside
<1>6. \A c \in UItems : i \notin K[c]
  BY <1>1, <1>2, <1>4 DEF Forest
<1>7. /\ utype' = [j \in UItems |-> IF j \in B /\ ~Stays(j) THEN NoItem ELSE utype[j]]
      /\ uname' = [j \in UItems |-> IF j \in B /\ ~Stays(j) THEN NoName ELSE uname[j]]
      /\ uval' = [j \in UItems |-> IF j \in B /\ ~Stays(j) THEN 0 ELSE uval[j]]
  BY <1>3 DEF DestroyItem, Destroy, Destroyed
<1>8. ulost' = ulost \cup {j \in B : Stays(j)}
  BY <1>3 DEF DestroyItem, Destroy, Destroyed
<1>9. uhold' = uhold \ B
  BY <1>4, <1>5 DEF DestroyItem
<1>10. ukids' = [c \in UItems |-> IF c \in B THEN <<>> ELSE ukids[c]]
  BY <1>3 DEF DestroyItem
<1>11. \A c \in UItems : Holds(ukids'[c], IF c \in B THEN {} ELSE K[c] \ B)
  <2>1. ASSUME NEW c \in UItems, c \notin B PROVE K[c] \ B = K[c]
    BY <1>5, <1>6, <2>1
  <2>. QED
    BY <1>2, <1>10, <2>1, HoldsNothing
<1>12. ClosedIn(K, B)
  BY <1>3 DEF Closure
<1>13. ukids' = [c \in UItems |-> ukids'[c]]
  BY <1>10
<1>. QED
  BY <1>1, <1>2, <1>5, <1>7, <1>8, <1>9, <1>11, <1>12, <1>13, TreeCut

(* ecmap_find finds an entry, or nothing.                                  *)
LEMMA KeyFound ==
  ASSUME TreeTypes, NEW c \in UItems, NEW n, KeyPlace(c, n) # 0
  PROVE  KeyPlace(c, n) \in DOMAIN ukids[c]
<1>1. PICK m \in Nat : m = Len(ukids[c]) /\ DOMAIN ukids[c] = 1 .. m
  BY DEF TreeTypes
<1>2. PICK hits : hits = {k \in 1 .. m : ukids[c][k].key = n} /\ hits \subseteq 1 .. m
  OBVIOUS
<1>3. KeyPlace(c, n) = IF hits # {} THEN CHOOSE k \in hits : \A j \in hits : k <= j ELSE 0
  BY <1>1, <1>2 DEF KeyPlace, SelectInSeq, Min
<1>4. hits # {}
  BY <1>3
<1>5. PICK j : First(hits, m + 1, 1, j)
  <2>1. m + 1 \in Nat /\ 1 \in 0 .. m + 1
    BY <1>1
  <2>. QED
    BY <2>1, SomeFirst
<1>6. j \in 1 .. m + 1 /\ (j = m + 1 \/ j \in hits) /\ \A i \in 1 .. j - 1 : i \notin hits
  BY <1>5 DEF First
<1>7. \A i \in hits : j <= i
  BY <1>2, <1>6
<1>8. j \in hits
  BY <1>2, <1>4, <1>6, <1>7
<1>9. \E k \in hits : \A i \in hits : k <= i
  BY <1>7, <1>8
<1>10. (CHOOSE k \in hits : \A i \in hits : k <= i) \in hits
  BY <1>9
<1>. QED
  BY <1>1, <1>2, <1>3, <1>4, <1>10

(* ecudc_del and ecudc_node_del.                                           *)
LEMMA DeletedOne ==
  ASSUME TreeIInv, NEW c \in UItems, NEW n, Del(c, n) PROVE TreeIInv'
<1>1. /\ TreeTypes /\ TreeApart /\ Forest(Kids, Alive, uhold, ulost) /\ Ranked(Kids)
      /\ \A j \in ulost : Stays(j) \/ uname[j] = NoName
  BY DEF TreeIInv, LostAre
<1>2. PICK K : K = Kids /\ K \in [UItems -> SUBSET UItems]
               /\ \A d \in UItems : Holds(ukids[d], K[d]) /\ K[d] = KidsOf(d)
  BY <1>1, KidsAre
<1>3. PICK at : at = KeyPlace(c, n) /\ at \in DOMAIN ukids[c]
  BY <1>1, KeyFound DEF Del
<1>4. PICK i : i = ukids[c][at].item /\ i \in K[c]
  BY <1>2, <1>3 DEF KidsOf
<1>5. i \in Alive /\ i \notin ulost /\ i \notin uhold /\ i \in UItems
  BY <1>1, <1>2, <1>4 DEF Forest
<1>6. PICK B : B = Below({i}) /\ Closure(K, {i}, B)
  BY <1>2, <1>5, BelowIs
<1>7. /\ B \subseteq Alive /\ B \cap ulost = {} /\ i \in B
      /\ \A d \in UItems \ B : K[d] \cap B \subseteq {i}
      /\ uhold \cap B \subseteq {i} /\ c \notin B
  <2>1. Forest(K, Alive, uhold, ulost) /\ Ranked(K)
    BY <1>1, <1>2
  <2>2. Inside(K, Alive, uhold, ulost, i, B)
    BY <1>5, <1>6, <2>1, BelowOne
  <2>. QED
    BY <1>4, <2>2 DEF Inside
<1>8. /\ utype' = [j \in UItems |-> IF j \in B /\ ~Stays(j) THEN NoItem ELSE utype[j]]
      /\ uname' = [j \in UItems |-> IF j \in B /\ ~Stays(j) THEN NoName ELSE uname[j]]
      /\ uval' = [j \in UItems |-> IF j \in B /\ ~Stays(j) THEN 0 ELSE uval[j]]
  BY <1>3, <1>4, <1>6 DEF Del, Destroy, Destroyed
<1>9. ulost' = ulost \cup {j \in B : Stays(j)}
  BY <1>3, <1>4, <1>6 DEF Del, Destroy, Destroyed
<1>10. uhold' = uhold \ B
  BY <1>5, <1>7 DEF Del
<1>11. ukids' = [d \in UItems |-> IF d = c THEN RemoveAt(ukids[c], at)
                                  ELSE IF d \in B THEN <<>> ELSE ukids[d]]
  BY <1>3, <1>4, <1>6 DEF Del
<1>12. \A d \in UItems : Holds(ukids'[d], IF d \in B THEN {} ELSE K[d] \ B)
  <2>1. ukids[c] \in Seq(KeptItems) /\ OnceIn(ukids[c]) /\ KidsIn(ukids[c]) = K[c]
    BY <1>2 DEF Holds
  <2>2. Holds(RemoveAt(ukids[c], at), K[c] \ {i})
    BY <1>3, <1>4, <2>1, EntryGone
  <2>3. K[c] \ B = K[c] \ {i}
    BY <1>7
  <2>4. ASSUME NEW d \in UItems, d \notin B, d # c PROVE K[d] \ B = K[d]
    <3>1. i \notin K[d]
      BY <1>1, <1>2, <1>4, <2>4 DEF Forest
    <3>. QED
      BY <1>7, <2>4, <3>1
  <2>. QED
    BY <1>2, <1>7, <1>11, <2>2, <2>3, <2>4, HoldsNothing
<1>13. ClosedIn(K, B)
  BY <1>6 DEF Closure
<1>14. ukids' = [d \in UItems |-> ukids'[d]]
  BY <1>11
<1>. QED
  BY <1>1, <1>2, <1>7, <1>8, <1>9, <1>10, <1>12, <1>13, <1>14, TreeCut

(* The parts of the invariant, for a step.                                 *)
LEMMA TreeBefore ==
  ASSUME TreeIInv
  PROVE  \E K : /\ K = Kids /\ K \in [UItems -> SUBSET UItems]
                /\ \A c \in UItems : Holds(ukids[c], K[c])
                /\ Forest(K, Alive, uhold, ulost) /\ Ranked(K)
<1>1. TreeTypes /\ TreeApart /\ Forest(Kids, Alive, uhold, ulost) /\ Ranked(Kids)
  BY DEF TreeIInv
<1>. QED
  BY <1>1, KidsAre

(* An item that was not there.                                             *)
LEMMA ItemCreated ==
  ASSUME TreeIInv, NEW i \in UItems, NEW n \in UNames \cup {NoName}, NEW t \in Containers \cup Leaves,
         Create(i, t, n)
  PROVE  TreeIInv'
<1>1. PICK K : /\ K = Kids /\ K \in [UItems -> SUBSET UItems]
               /\ \A c \in UItems : Holds(ukids[c], K[c])
               /\ Forest(K, Alive, uhold, ulost) /\ Ranked(K)
  BY TreeBefore
<1>2. /\ utype \in [UItems -> Containers \cup Leaves \cup {NoItem}]
      /\ uname \in [UItems -> UNames \cup {NoName}] /\ uval \in [UItems -> Int]
      /\ ukids = [c \in UItems |-> ukids[c]] /\ LostAre
  BY DEF TreeIInv, TreeTypes
<1>3. /\ utype[i] = NoItem /\ utype' = [utype EXCEPT ![i] = t] /\ uname' = [uname EXCEPT ![i] = n]
      /\ uhold' = uhold \cup {i} /\ uval' = uval /\ ukids' = ukids /\ ulost' = ulost
  BY DEF Create
<1>4. i \notin Alive /\ Alive' = Alive \cup {i}
  <2>1. NoItem \notin Containers \cup Leaves
    BY DEF NoItem, Containers, Leaves, Numbers
  <2>. QED
    BY <1>2, <1>3, <2>1 DEF Alive
<1>5. Forest(K, Alive', uhold', ulost')
  BY <1>1, <1>3, <1>4, Born
<1>6. LostAre'
  <2>1. i \notin ulost /\ ulost \subseteq UItems
    BY <1>1, <1>4 DEF Forest
  <2>2. ASSUME NEW j \in ulost PROVE Stays(j)' \/ uname'[j] = NoName
    <3>1. utype'[j] = utype[j] /\ uname'[j] = uname[j] /\ uval'[j] = uval[j]
      BY <1>2, <1>3, <2>1
    <3>. QED
      BY <1>2, <3>1 DEF LostAre, Stays
  <2>. QED
    BY <1>3, <2>2 DEF LostAre
<1>7. /\ utype' \in [UItems -> Containers \cup Leaves \cup {NoItem}]
      /\ uname' \in [UItems -> UNames \cup {NoName}] /\ uval' \in [UItems -> Int]
      /\ ukids' = [c \in UItems |-> ukids'[c]]
  BY <1>2, <1>3
<1>8. \A c \in UItems : Holds(ukids'[c], K[c])
  BY <1>1, <1>3
<1>. QED
  BY <1>1, <1>5, <1>6, <1>7, <1>8, TreeAfter

(* The program's item i becomes the last one of c.                         *)
LEMMA ItemHanded ==
  ASSUME TreeIInv, NEW c \in UItems, NEW i \in UItems, c \in Alive, i \in uhold, c \notin Below({i}),
         NEW s, ukids' = [ukids EXCEPT ![c] = s], Holds(s, KidsOf(c) \cup {i}),
         uhold' = uhold \ {i}, UNCHANGED <<utype, uname, uval, ulost>>
  PROVE  TreeIInv'
<1>1. PICK K : /\ K = Kids /\ K \in [UItems -> SUBSET UItems]
               /\ \A d \in UItems : Holds(ukids[d], K[d])
               /\ Forest(K, Alive, uhold, ulost) /\ Ranked(K)
  BY TreeBefore
<1>2. /\ utype \in [UItems -> Containers \cup Leaves \cup {NoItem}]
      /\ uname \in [UItems -> UNames \cup {NoName}] /\ uval \in [UItems -> Int]
      /\ DOMAIN ukids = UItems /\ ukids = [d \in UItems |-> ukids[d]] /\ LostAre
  BY DEF TreeIInv, TreeTypes
<1>3. PICK K2 : K2 = [d \in UItems |-> IF d = c THEN K[d] \cup {i} ELSE K[d]]
  OBVIOUS
<1>4. Forest(K2, Alive, uhold \ {i}, ulost)
  BY <1>1, <1>3, Handed
<1>5. PICK B : B = Below({i}) /\ Closure(K, {i}, B)
  BY <1>1, BelowIs
<1>6. Ranked(K2)
  <2>0. PICK X : X = {i}
    OBVIOUS
  <2>1. ClosedIn(K, B) /\ X \subseteq B /\ c \notin B
    BY <1>5, <2>0 DEF Closure
  <2>2. Gains(K, K2, c, X)
    BY <1>3, <2>0 DEF Gains
  <2>. QED
    BY <1>1, <2>1, <2>2, StaysRanked
<1>7. \A d \in UItems : Holds(ukids'[d], K2[d])
  <2>1. K[c] = KidsOf(c)
    BY <1>1 DEF Kids
  <2>. QED
    BY <1>1, <1>2, <1>3, <2>1
<1>8. Alive' = Alive /\ LostAre'
  BY <1>2 DEF Alive, LostAre, Stays
<1>9. Forest(K2, Alive', uhold', ulost')
  BY <1>4, <1>8
<1>10. /\ utype' \in [UItems -> Containers \cup Leaves \cup {NoItem}]
       /\ uname' \in [UItems -> UNames \cup {NoName}] /\ uval' \in [UItems -> Int]
       /\ ukids' = [d \in UItems |-> ukids'[d]]
  BY <1>2
<1>11. K2 \in [UItems -> SUBSET UItems]
  BY <1>4 DEF Forest
<1>. QED
  BY <1>6, <1>7, <1>8, <1>9, <1>10, <1>11, TreeAfter

(* ecudc_add.                                                              *)
LEMMA ItemAdded ==
  ASSUME TreeIInv, NEW c \in UItems, NEW i \in UItems, Add(c, i) PROVE TreeIInv'
<1>1. PICK K : /\ K = Kids /\ K \in [UItems -> SUBSET UItems]
               /\ \A d \in UItems : Holds(ukids[d], K[d])
               /\ Forest(K, Alive, uhold, ulost) /\ Ranked(K)
  BY TreeBefore
<1>2. K[c] = KidsOf(c) /\ i \notin K[c] /\ uname[i] \in UNames \cup {NoName} /\ DOMAIN ukids = UItems
  <2>1. i \in uhold
    BY DEF Add
  <2>. QED
    BY <1>1, <2>1 DEF Kids, Forest, TreeIInv, TreeTypes
<1>3. PICK e : e = Keyed(uname[i], i)
  OBVIOUS
<1>a. e \in KeptItems /\ e.item = i
  BY <1>2, <1>3 DEF Keyed, KeptItems
<1>4. ukids[c] \in Seq(KeptItems) /\ OnceIn(ukids[c]) /\ KidsIn(ukids[c]) = K[c]
  BY <1>1 DEF Holds
<1>5. PICK s : s = Append(ukids[c], e) /\ Holds(s, KidsOf(c) \cup {i})
  <2>1. PICK s : s = Append(ukids[c], e)
    OBVIOUS
  <2>2. Holds(s, KidsIn(ukids[c]) \cup {e.item})
    BY <1>2, <1>a, <1>4, <2>1, EntryAdded
  <2>. QED
    BY <1>2, <1>a, <1>4, <2>1, <2>2
<1>6. /\ c \in Alive /\ i \in uhold /\ c \notin Below({i}) /\ ukids' = [ukids EXCEPT ![c] = s]
      /\ uhold' = uhold \ {i} /\ UNCHANGED <<utype, uname, uval, ulost>>
  BY <1>3, <1>5 DEF Add
<1>. QED
  BY <1>5, <1>6, ItemHanded

(* A record takes an item.                                                 *)
LEMMA ItemAttached ==
  ASSUME TreeIInv, NEW c \in UItems, NEW i \in UItems, Attach(c, i) PROVE TreeIInv'
<1>1. PICK e : e = Keyed(NoName, i)
  OBVIOUS
<1>a. e \in KeptItems /\ e.item = i
  BY <1>1 DEF Keyed, KeptItems
<1>2. PICK s : s = <<e>> /\ Holds(s, {i})
  <2>1. PICK t : t = <<e>>
    OBVIOUS
  <2>2. t \in Seq(KeptItems) /\ DOMAIN t = {1} /\ t[1] = e
    BY <1>a, <2>1
  <2>3. OnceIn(t)
    BY <2>2 DEF OnceIn
  <2>4. KidsIn(t) = {i}
    BY <1>a, <2>2 DEF KidsIn
  <2>. QED
    BY <2>1, <2>2, <2>3, <2>4 DEF Holds
<1>3. KidsOf(c) = {}
  BY DEF Attach, KidsOf
<1>4. /\ c \in Alive /\ i \in uhold /\ c \notin Below({i}) /\ ukids' = [ukids EXCEPT ![c] = s]
      /\ uhold' = uhold \ {i} /\ UNCHANGED <<utype, uname, uval, ulost>>
  BY <1>1, <1>2 DEF Attach
<1>5. Holds(s, KidsOf(c) \cup {i})
  <2>1. KidsOf(c) \cup {i} = {i}
    BY <1>3
  <2>. QED
    BY <1>2, <2>1
<1>. QED
  BY <1>4, <1>5, ItemHanded

(* ecudc_node_e.                                                           *)
LEMMA ItemExtracted ==
  ASSUME TreeIInv, NEW c \in UItems, NEW n, NodeE(c, n) PROVE TreeIInv'
<1>1. PICK K : /\ K = Kids /\ K \in [UItems -> SUBSET UItems]
               /\ \A d \in UItems : Holds(ukids[d], K[d])
               /\ Forest(K, Alive, uhold, ulost) /\ Ranked(K)
  BY TreeBefore
<1>2. /\ utype \in [UItems -> Containers \cup Leaves \cup {NoItem}]
      /\ uname \in [UItems -> UNames \cup {NoName}] /\ uval \in [UItems -> Int]
      /\ DOMAIN ukids = UItems /\ ukids = [d \in UItems |-> ukids[d]] /\ LostAre /\ TreeTypes
  BY DEF TreeIInv, TreeTypes
<1>3. PICK at : at = KeyPlace(c, n) /\ at \in DOMAIN ukids[c]
  BY <1>2, KeyFound DEF NodeE
<1>4. PICK i : i = ukids[c][at].item /\ i \in K[c]
  BY <1>1, <1>3 DEF KidsOf, Kids
<1>5. /\ uhold' = uhold \cup {i} /\ ukids' = [ukids EXCEPT ![c] = RemoveAt(ukids[c], at)]
      /\ UNCHANGED <<utype, uname, uval, ulost>>
  BY <1>2, <1>3, <1>4 DEF NodeE
<1>6. PICK K2 : K2 = [d \in UItems |-> IF d = c THEN K[d] \ {i} ELSE K[d]]
  OBVIOUS
<1>7. Forest(K2, Alive, uhold \cup {i}, ulost)
  BY <1>1, <1>4, <1>6, Extracted
<1>8. Ranked(K2)
  <2>1. \A d \in UItems : K2[d] \subseteq K[d]
    BY <1>6
  <2>. QED
    BY <1>1, <2>1, FewerRanked
<1>9. \A d \in UItems : Holds(ukids'[d], K2[d])
  <2>1. ukids[c] \in Seq(KeptItems) /\ OnceIn(ukids[c]) /\ KidsIn(ukids[c]) = K[c]
    BY <1>1 DEF Holds
  <2>2. Holds(RemoveAt(ukids[c], at), K[c] \ {i})
    BY <1>3, <1>4, <2>1, EntryGone
  <2>. QED
    BY <1>1, <1>2, <1>5, <1>6, <2>2
<1>10. Alive' = Alive /\ LostAre'
  BY <1>2, <1>5 DEF Alive, LostAre, Stays
<1>11. Forest(K2, Alive', uhold', ulost')
  BY <1>5, <1>7, <1>10
<1>12. /\ utype' \in [UItems -> Containers \cup Leaves \cup {NoItem}]
       /\ uname' \in [UItems -> UNames \cup {NoName}] /\ uval' \in [UItems -> Int]
       /\ ukids' = [d \in UItems |-> ukids'[d]]
  BY <1>2, <1>5
<1>13. K2 \in [UItems -> SUBSET UItems]
  BY <1>7 DEF Forest
<1>. QED
  BY <1>8, <1>9, <1>10, <1>11, <1>12, <1>13, TreeAfter

(* What is lost stays what it was.                                         *)
LEMMA LostStays ==
  ASSUME LostAre, ulost' = ulost,
         \A j \in ulost : utype'[j] = utype[j] /\ uname'[j] = uname[j] /\ uval'[j] = uval[j]
  PROVE  LostAre'
BY DEF LostAre, Stays

(* ecudc_add_asString and its like: the new item goes to the container, or *)
(* nobody has it.                                                          *)
LEMMA ItemPut ==
  ASSUME TreeIInv, NEW c \in UItems, NEW i \in UItems, NEW t \in Leaves \ {"bool"},
         NEW n \in UNames \cup {NoName}, NEW v \in UValues, AddAs(c, i, t, n, v)
  PROVE  TreeIInv'
<1>1. PICK K : /\ K = Kids /\ K \in [UItems -> SUBSET UItems]
               /\ \A d \in UItems : Holds(ukids[d], K[d])
               /\ Forest(K, Alive, uhold, ulost) /\ Ranked(K)
  BY TreeBefore
<1>2. /\ utype \in [UItems -> Containers \cup Leaves \cup {NoItem}]
      /\ uname \in [UItems -> UNames \cup {NoName}] /\ uval \in [UItems -> Int]
      /\ DOMAIN ukids = UItems /\ ukids = [d \in UItems |-> ukids[d]] /\ LostAre
  BY DEF TreeIInv, TreeTypes
<1>3. /\ utype[i] = NoItem /\ c \in Alive /\ utype[c] \in {"node", "list"} /\ uhold' = uhold
      /\ utype' = [utype EXCEPT ![i] = t] /\ uname' = [uname EXCEPT ![i] = n]
      /\ uval'  = [uval EXCEPT ![i] = v]
  BY DEF AddAs
<1>4. v \in Int /\ t # NoItem /\ t \in Containers \cup Leaves \cup {NoItem}
  BY TreeConstants DEF Leaves, Numbers, NoItem
<1>5. /\ utype' \in [UItems -> Containers \cup Leaves \cup {NoItem}]
      /\ uname' \in [UItems -> UNames \cup {NoName}] /\ uval' \in [UItems -> Int]
  BY <1>2, <1>3, <1>4
<1>6. Alive' = Alive \cup {i} /\ i \notin Alive
  BY <1>2, <1>3, <1>4 DEF Alive
<1>7. /\ i \notin uhold /\ i \notin ulost /\ K[i] = {} /\ c # i
      /\ \A d \in UItems : i \notin K[d]
  BY <1>1, <1>3, <1>6 DEF Forest
<1>8. \A j \in ulost : utype'[j] = utype[j] /\ uname'[j] = uname[j] /\ uval'[j] = uval[j]
  BY <1>1, <1>2, <1>3, <1>7 DEF Forest, Alive
<1>9. CASE Takes(c, n)
  <2>1. ukids' = [ukids EXCEPT ![c] = Append(ukids[c], Keyed(n, i))] /\ ulost' = ulost
    BY <1>9 DEF AddAs
  <2>2. PICK e : e = Keyed(n, i)
    OBVIOUS
  <2>3. e \in KeptItems /\ e.item = i
    BY <2>2 DEF Keyed, KeptItems
  <2>4. ukids[c] \in Seq(KeptItems) /\ OnceIn(ukids[c]) /\ KidsIn(ukids[c]) = K[c]
    BY <1>1 DEF Holds
  <2>5. PICK s : s = Append(ukids[c], e)
    OBVIOUS
  <2>6. Holds(s, K[c] \cup {i})
    <3>1. Holds(s, KidsIn(ukids[c]) \cup {e.item})
      BY <1>7, <2>3, <2>4, <2>5, EntryAdded
    <3>. QED
      BY <2>3, <2>4, <3>1
  <2>7. PICK K2 : K2 = [d \in UItems |-> IF d = c THEN K[d] \cup {i} ELSE K[d]]
    OBVIOUS
  <2>8. PICK A : A = Alive \cup {i}
    OBVIOUS
  <2>9. PICK H : H = uhold \cup {i}
    OBVIOUS
  <2>10. Forest(K2, Alive', uhold', ulost')
    <3>1. Forest(K, A, H, ulost)
      BY <1>1, <1>6, <2>8, <2>9, Born
    <3>2. Forest(K2, A, H \ {i}, ulost)
      BY <1>3, <2>7, <2>8, <2>9, <3>1, Handed
    <3>3. H \ {i} = uhold
      BY <1>7, <2>9
    <3>. QED
      BY <1>3, <1>6, <2>1, <2>8, <3>2, <3>3
  <2>11. Ranked(K2)
    <3>1. PICK X : X = {i}
      OBVIOUS
    <3>2. ClosedIn(K, X) /\ X \subseteq X /\ c \notin X
      BY <1>7, <3>1 DEF ClosedIn
    <3>3. Gains(K, K2, c, X)
      BY <2>7, <3>1 DEF Gains
    <3>. QED
      BY <1>1, <3>2, <3>3, StaysRanked
  <2>12. \A d \in UItems : Holds(ukids'[d], K2[d])
    BY <1>1, <1>2, <2>1, <2>2, <2>5, <2>6, <2>7
  <2>13. LostAre'
    BY <1>2, <1>8, <2>1, LostStays
  <2>14. ukids' = [d \in UItems |-> ukids'[d]]
    BY <1>2, <2>1
  <2>15. K2 \in [UItems -> SUBSET UItems]
    BY <2>10 DEF Forest
  <2>. QED
    BY <1>5, <2>10, <2>11, <2>12, <2>13, <2>14, <2>15, TreeAfter
<1>10. CASE ~Takes(c, n)
  <2>1. ukids' = ukids /\ ulost' = ulost \cup {i}
    BY <1>10 DEF AddAs
  <2>2. n = NoName
    BY <1>3, <1>10 DEF Takes
  <2>3. Forest(K, Alive', uhold', ulost')
    BY <1>1, <1>3, <1>6, <2>1, Born
  <2>4. LostAre'
    BY <1>2, <1>3, <1>8, <2>1, <2>2 DEF LostAre, Stays
  <2>5. \A d \in UItems : Holds(ukids'[d], K[d])
    BY <1>1, <2>1
  <2>6. ukids' = [d \in UItems |-> ukids'[d]]
    BY <1>2, <2>1
  <2>. QED
    BY <1>1, <1>5, <2>3, <2>4, <2>5, <2>6, TreeAfter
<1>. QED
  BY <1>9, <1>10

(* Steps after which every item is where it was.                           *)
LEMMA ItemKept ==
  ASSUME TreeIInv, utype' = utype, ukids' = ukids, uhold' = uhold, ulost' = ulost,
         uname' \in [UItems -> UNames \cup {NoName}], uval' \in [UItems -> Int],
         \A j \in ulost : uname'[j] = uname[j] /\ uval'[j] = uval[j]
  PROVE  TreeIInv'
<1>1. PICK K : /\ K = Kids /\ K \in [UItems -> SUBSET UItems]
               /\ \A d \in UItems : Holds(ukids[d], K[d])
               /\ Forest(K, Alive, uhold, ulost) /\ Ranked(K)
  BY TreeBefore
<1>2. /\ utype \in [UItems -> Containers \cup Leaves \cup {NoItem}]
      /\ ukids = [d \in UItems |-> ukids[d]] /\ LostAre
  BY DEF TreeIInv, TreeTypes
<1>3. Forest(K, Alive', uhold', ulost')
  BY <1>1 DEF Alive
<1>4. LostAre'
  BY <1>2, LostStays
<1>5. /\ utype' \in [UItems -> Containers \cup Leaves \cup {NoItem}]
      /\ ukids' = [d \in UItems |-> ukids'[d]] /\ \A d \in UItems : Holds(ukids'[d], K[d])
  BY <1>1, <1>2
<1>. QED
  BY <1>1, <1>3, <1>4, <1>5, TreeAfter

(* ecudc_setS, setInt16 and its like.                                      *)
LEMMA ValueSet ==
  ASSUME TreeIInv, NEW i \in UItems, NEW v \in UValues, SetValue(i, v) PROVE TreeIInv'
<1>1. /\ uname \in [UItems -> UNames \cup {NoName}] /\ uval \in [UItems -> Int] /\ ulost \subseteq UItems
  BY DEF TreeIInv, TreeTypes, Forest
<1>2. /\ utype' = utype /\ uname' = uname /\ ukids' = ukids /\ uhold' = uhold /\ ulost' = ulost
      /\ uval' = [uval EXCEPT ![i] = v] /\ i \notin ulost /\ v \in Int
  BY TreeConstants DEF SetValue
<1>3. uval' \in [UItems -> Int] /\ \A j \in ulost : uname'[j] = uname[j] /\ uval'[j] = uval[j]
  BY <1>1, <1>2
<1>. QED
  BY <1>1, <1>2, <1>3, ItemKept

(* ecudc_setName.                                                          *)
LEMMA NameSet ==
  ASSUME TreeIInv, NEW i \in UItems, NEW n \in UNames, SetName(i, n) PROVE TreeIInv'
<1>1. /\ uname \in [UItems -> UNames \cup {NoName}] /\ uval \in [UItems -> Int] /\ ulost \subseteq UItems
  BY DEF TreeIInv, TreeTypes, Forest
<1>2. /\ utype' = utype /\ uval' = uval /\ ukids' = ukids /\ uhold' = uhold /\ ulost' = ulost
      /\ uname' = [uname EXCEPT ![i] = n] /\ i \notin ulost
  BY DEF SetName
<1>3. uname' \in [UItems -> UNames \cup {NoName}] /\ \A j \in ulost : uname'[j] = uname[j] /\ uval'[j] = uval[j]
  BY <1>1, <1>2
<1>. QED
  BY <1>1, <1>2, <1>3, ItemKept

(* What is below the rest of p is apart from everything else.              *)
LEMMA RestApart ==
  ASSUME NEW K, NEW A, NEW H, NEW L, Forest(K, A, H, L), NEW p, p \in H, NEW R, R \subseteq K[p],
         NEW B, Closure(K, R, B)
  PROVE  /\ B \subseteq A /\ p \notin B /\ H \cap B = {} /\ L \cap B = {}
         /\ \A c \in UItems \ (B \cup {p}) : K[c] \cap (B \cup {p}) = {}
         /\ \A j \in K[p] \ R : j \notin B
<1>1. p \in UItems /\ \A j \in H \cup L : j \notin R
  BY DEF Forest
<1>2. \A j \in H \cup L : j \notin B
  <2>1. ASSUME NEW j, j \in H \cup L PROVE j \notin B
    BY <1>1, <2>1, RootAbove
  <2>. QED
    BY <2>1
<1>3. B \subseteq A
  <2>1. R \subseteq A /\ ClosedIn(K, A)
    BY <1>1 DEF Forest, ClosedIn
  <2>. QED
    BY <2>1 DEF Closure
<1>4. \A j \in B \ R : \E c \in B : j \in K[c]
  BY FromAbove
<1>5. \A j \in B \ R : \A c \in UItems : j \in K[c] => c \in B
  <2>1. B \subseteq UItems
    BY DEF Closure, ClosedIn
  <2>. QED
    BY <1>4, <2>1 DEF Forest
<1>6. \A j \in R : \A c \in UItems : j \in K[c] => c = p
  BY <1>1 DEF Forest
<1>7. \A c \in UItems \ (B \cup {p}) : K[c] \cap B = {}
  BY <1>5, <1>6
<1>8. \A c \in UItems : p \notin K[c]
  BY DEF Forest
<1>9. \A j \in K[p] \ R : j \notin B
  BY <1>1, <1>2, <1>5
<1>. QED
  BY <1>2, <1>3, <1>7, <1>8, <1>9

(* ecudc_merge.                                                            *)
LEMMA NodesMerged ==
  ASSUME TreeIInv, NEW d \in UItems, NEW p \in UItems, Merge(d, p) PROVE TreeIInv'
<1>1. PICK K : /\ K = Kids /\ K \in [UItems -> SUBSET UItems]
               /\ \A c \in UItems : Holds(ukids[c], K[c])
               /\ Forest(K, Alive, uhold, ulost) /\ Ranked(K)
  BY TreeBefore
<1>2. /\ TreeTypes /\ TreeApart /\ LostAre /\ DOMAIN ukids = UItems
      /\ KidsOf(d) = K[d] /\ KidsOf(p) = K[p]
  BY <1>1 DEF TreeIInv, TreeTypes, Kids
<1>3. /\ d \in uhold /\ p \in uhold /\ d # p /\ utype[d] = "node"
      /\ d \in Alive /\ p \in Alive
  BY <1>1 DEF Merge, Forest
<1>4. K[d] \cap K[p] = {}
  BY <1>1, <1>3 DEF Forest
<1>5. PICK X : /\ X \subseteq KidsOf(p) /\ \A i \in X : uname[i] # NoName
               /\ Holds(MergedKids(d, p), KidsOf(d) \cup X)
  <2>1. KidsOf(d) \cap KidsOf(p) = {}
    BY <1>2, <1>4
  <2>. QED
    BY <1>2, <1>3, <2>1, MergedIs
<1>6. PICK merged : merged = MergedKids(d, p)
  OBVIOUS
<1>7. PICK Y : Y = {i \in KidsOf(p) : uname[i] = NoName /\ KeyPlace(d, NoName) = 0}
  OBVIOUS
<1>8. PICK R : R = KidsOf(p) \ ({merged[k].item : k \in DOMAIN merged} \cup Y)
  OBVIOUS
<1>9. PICK B : B = Below(R)
  OBVIOUS
<1>10. PICK gone : gone = B \cup {p}
  OBVIOUS
<1>11. /\ utype' = [i \in UItems |-> IF i \in gone /\ ~Stays(i) THEN NoItem ELSE utype[i]]
       /\ uname' = [i \in UItems |-> IF i \in gone /\ ~Stays(i) THEN NoName ELSE uname[i]]
       /\ uval'  = [i \in UItems |-> IF i \in gone /\ ~Stays(i) THEN 0 ELSE uval[i]]
       /\ ulost' = ulost \cup Y \cup {i \in gone : Stays(i)}
       /\ ukids' = [c \in UItems |-> IF c = d THEN merged ELSE IF c \in gone THEN <<>> ELSE ukids[c]]
       /\ uhold' = uhold \ {p}
  BY <1>6, <1>7, <1>8, <1>9, <1>10 DEF Merge
<1>12. /\ X \subseteq K[p] /\ Y \subseteq K[p] /\ X \cap Y = {} /\ R = K[p] \ (X \cup Y)
       /\ Holds(merged, K[d] \cup X) /\ \A i \in Y : uname[i] = NoName
  <2>1. Holds(merged, K[d] \cup X)
    BY <1>2, <1>5, <1>6
  <2>2. {merged[k].item : k \in DOMAIN merged} = K[d] \cup X
    BY <2>1 DEF Holds, KidsIn
  <2>. QED
    BY <1>2, <1>4, <1>5, <1>7, <1>8, <2>1, <2>2
<1>13. Closure(K, R, B)
  <2>1. R \subseteq UItems
    BY <1>1, <1>12
  <2>. QED
    BY <1>1, <1>2, <1>9, <2>1, BelowIs
<1>14. /\ B \subseteq Alive /\ p \notin B /\ uhold \cap B = {} /\ ulost \cap B = {}
       /\ \A c \in UItems \ (B \cup {p}) : K[c] \cap (B \cup {p}) = {}
       /\ \A j \in K[p] \ R : j \notin B
  <2>1. R \subseteq K[p]
    BY <1>12
  <2>. QED
    BY <1>1, <1>3, <1>13, <2>1, RestApart
<1>15. PICK K1 : K1 = [c \in UItems |-> IF c = d THEN K[c] \cup X
                                        ELSE IF c = p THEN K[c] \ (X \cup Y) ELSE K[c]]
  OBVIOUS
<1>16. PICK L1 : L1 = ulost \cup Y
  OBVIOUS
<1>17. Forest(K1, Alive, uhold, L1)
  <2>1. ChangedOver(K, K1, d, p, X, Y)
    BY <1>12, <1>15 DEF ChangedOver
  <2>. QED
    BY <1>1, <1>3, <1>16, <2>1, Rehoused
<1>18. Ranked(K1)
  <2>1. PICK T : T = Below(X)
    OBVIOUS
  <2>2. Closure(K, X, T)
    <3>1. X \subseteq UItems
      BY <1>1, <1>12
    <3>. QED
      BY <1>1, <1>2, <2>1, <3>1, BelowIs
  <2>3. d \in uhold \cup ulost /\ d \notin X
    BY <1>1, <1>3, <1>12 DEF Forest
  <2>4. d \notin T
    BY <1>1, <2>2, <2>3, RootAbove
  <2>5. ClosedIn(K, T) /\ X \subseteq T
    BY <2>2 DEF Closure
  <2>6. Gains(K, K1, d, X)
    BY <1>15 DEF Gains
  <2>. QED
    BY <1>1, <2>4, <2>5, <2>6, StaysRanked
<1>19. gone \subseteq Alive /\ gone \cap L1 = {} /\ uhold' = uhold \ gone /\ d \notin gone
  <2>1. p \notin ulost /\ p \notin Y /\ Y \cap R = {}
    BY <1>1, <1>3, <1>12 DEF Forest
  <2>2. Y \cap B = {}
    BY <1>12, <1>14, <2>1
  <2>. QED
    BY <1>3, <1>10, <1>11, <1>14, <1>16, <2>1, <2>2
<1>20. ClosedIn(K1, gone)
  <2>1. \A c \in gone : K1[c] \subseteq gone
    <3>1. ASSUME NEW c \in gone PROVE K1[c] \subseteq gone
      <4>1. c # d /\ c \in UItems
        BY <1>1, <1>19 DEF Forest
      <4>2. CASE c = p
        BY <1>10, <1>12, <1>13, <1>15, <4>1, <4>2 DEF Closure
      <4>3. CASE c # p
        BY <1>10, <1>13, <1>15, <4>1, <4>3 DEF Closure, ClosedIn
      <4>. QED
        BY <4>2, <4>3
    <3>. QED
      BY <3>1
  <2>2. gone \subseteq UItems
    BY <1>1, <1>19 DEF Forest
  <2>. QED
    BY <2>1, <2>2 DEF ClosedIn
<1>21. \A c \in UItems : Holds(ukids'[c], IF c \in gone THEN {} ELSE K1[c] \ gone)
  <2>1. ASSUME NEW c \in UItems PROVE Holds(ukids'[c], IF c \in gone THEN {} ELSE K1[c] \ gone)
    <3>1. CASE c = d
      <4>1. K[d] \cap gone = {}
        BY <1>10, <1>14, <1>19
      <4>2. X \cap gone = {}
        <5>1. p \notin X
          BY <1>1, <1>3, <1>12 DEF Forest
        <5>. QED
          BY <1>10, <1>12, <1>14, <5>1
      <4>3. K1[d] \ gone = K[d] \cup X
        BY <1>15, <4>1, <4>2
      <4>. QED
        BY <1>11, <1>12, <1>19, <3>1, <4>3
    <3>2. CASE c \in gone
      BY <1>11, <1>19, <3>2, HoldsNothing
    <3>3. CASE c # d /\ c \notin gone
      <4>1. K1[c] \ gone = K[c]
        BY <1>10, <1>14, <1>15, <3>3
      <4>. QED
        BY <1>1, <1>11, <3>3, <4>1
    <3>. QED
      BY <3>1, <3>2, <3>3
  <2>. QED
    BY <2>1
<1>22. \A i \in L1 : Stays(i) \/ uname[i] = NoName
  BY <1>2, <1>12, <1>16 DEF LostAre
<1>23. /\ utype' = [i \in UItems |-> IF i \in gone /\ ~Stays(i) THEN NoItem ELSE utype[i]]
       /\ uname' = [i \in UItems |-> IF i \in gone /\ ~Stays(i) THEN NoName ELSE uname[i]]
       /\ uval' = [i \in UItems |-> IF i \in gone /\ ~Stays(i) THEN 0 ELSE uval[i]]
       /\ ulost' = L1 \cup {i \in gone : Stays(i)} /\ uhold' = uhold \ gone
       /\ ukids' = [c \in UItems |-> ukids'[c]]
  <2>1. ukids' = [c \in UItems |-> ukids'[c]]
    BY <1>11
  <2>. QED
    BY <1>11, <1>16, <1>19, <2>1
<1>. QED
  BY <1>2, <1>17, <1>18, <1>19, <1>20, <1>21, <1>22, <1>23, TreeCut

(* A step of the tree keeps the invariant.                                 *)
LEMMA TreeSteps == TreeIInv /\ [TreeNext]_treeVars => TreeIInv'
<1> SUFFICES ASSUME TreeIInv, [TreeNext]_treeVars PROVE TreeIInv'
  OBVIOUS
<1>1. CASE \E i \in UItems, n \in UNames \cup {NoName}, t \in Containers \cup Leaves : Create(i, t, n)
  BY <1>1, ItemCreated
<1>2. CASE \E i \in UItems : DestroyItem(i)
  BY <1>2, DestroyedAll
<1>3. CASE \E c, i \in UItems : Add(c, i)
  BY <1>3, ItemAdded
<1>4. CASE \E c, i \in UItems : Attach(c, i)
  BY <1>4, ItemAttached
<1>5. CASE \E c, i \in UItems : Merge(c, i)
  BY <1>5, NodesMerged
<1>6. CASE \E c, i \in UItems, t \in Leaves \ {"bool"}, n \in UNames \cup {NoName}, v \in UValues : AddAs(c, i, t, n, v)
  BY <1>6, ItemPut
<1>7. CASE \E i \in UItems, v \in UValues : SetValue(i, v)
  BY <1>7, ValueSet
<1>8. CASE \E i \in UItems, n \in UNames : SetName(i, n)
  BY <1>8, NameSet
<1>9. CASE \E i \in UItems, n \in UNames : Del(i, n)
  BY <1>9, DeletedOne
<1>10. CASE \E i \in UItems, n \in UNames : NodeE(i, n)
  BY <1>10, ItemExtracted
<1>11. CASE UNCHANGED treeVars
  <2>1. /\ utype' = utype /\ uname' = uname /\ uval' = uval /\ ukids' = ukids
        /\ uhold' = uhold /\ ulost' = ulost
    BY <1>11 DEF treeVars
  <2>2. uname' \in [UItems -> UNames \cup {NoName}] /\ uval' \in [UItems -> Int]
    BY <2>1 DEF TreeIInv, TreeTypes
  <2>. QED
    BY <2>1, <2>2, ItemKept
<1>. QED
  BY <1>1, <1>2, <1>3, <1>4, <1>5, <1>6, <1>7, <1>8, <1>9, <1>10, <1>11 DEF TreeNext

(* A container has no more entries than there are items.                   *)
LEMMA EntriesBounded ==
  ASSUME NEW s, s \in Seq(KeptItems), OnceIn(s)
  PROVE  DOMAIN s \subseteq 1 .. Cardinality(UItems)
<1>1. IsFiniteSet(UItems)
  BY TreeConstants
<1>2. PICK f : f = [k \in 1 .. Len(s) |-> s[k].item]
  OBVIOUS
<1>3. Len(s) \in Nat /\ DOMAIN s = 1 .. Len(s)
  OBVIOUS
<1>4. f \in [1 .. Len(s) -> UItems]
  BY <1>2, <1>3, EntryTyped
<1>5. \A j, k \in 1 .. Len(s) : f[j] = f[k] => j = k
  BY <1>2, <1>3 DEF OnceIn
<1>6. f \in Injection(1 .. Len(s), UItems)
  BY <1>4, <1>5 DEF Injection, IsInjective
<1>7. Cardinality(1 .. Len(s)) <= Cardinality(UItems)
  BY <1>1, <1>6, FS_Injection
<1>8. PICK n : n = Len(s)
  OBVIOUS
<1>a. n \in Nat
  BY <1>3, <1>8
<1>9. Cardinality(1 .. n) = n
  <2>1. Cardinality(1 .. n) = IF 1 > n THEN 0 ELSE n - 1 + 1
    BY <1>a, FS_Interval
  <2>. QED
    BY <1>a, <2>1
<1>10. Cardinality(UItems) \in Nat
  BY <1>1, FS_CardinalityType
<1>. QED
  BY <1>3, <1>7, <1>8, <1>9, <1>10

(* The entries that hold an item are one in a container that has it, and   *)
(* none elsewhere.                                                         *)
LEMMA EntriesCount ==
  ASSUME TreeIInv, NEW i \in UItems
  PROVE  Cardinality(EntriesOf(i)) = IF \E c \in UItems : i \in KidsOf(c) THEN 1 ELSE 0
<1>1. PICK K : /\ K = Kids /\ K \in [UItems -> SUBSET UItems]
               /\ \A c \in UItems : Holds(ukids[c], K[c])
               /\ Forest(K, Alive, uhold, ulost) /\ Ranked(K)
  BY TreeBefore
<1>2. \A c \in UItems : K[c] = KidsOf(c)
  BY <1>1 DEF Kids
<1>3. CASE \E c \in UItems : i \in KidsOf(c)
  <2>1. PICK c \in UItems : i \in K[c]
    BY <1>2, <1>3
  <2>2. PICK k \in DOMAIN ukids[c] : ukids[c][k].item = i
    BY <1>2, <2>1 DEF KidsOf
  <2>3. k \in 1 .. Cardinality(UItems)
    BY <1>1, EntriesBounded DEF Holds
  <2>4. \A d \in UItems : \A m \in DOMAIN ukids[d] : ukids[d][m].item = i => d = c /\ m = k
    <3>1. ASSUME NEW d \in UItems, NEW m \in DOMAIN ukids[d], ukids[d][m].item = i
          PROVE  d = c /\ m = k
      <4>1. i \in K[d]
        BY <1>2, <3>1 DEF KidsOf
      <4>2. d = c
        BY <1>1, <2>1, <4>1 DEF Forest
      <4>. QED
        BY <1>1, <2>2, <3>1, <4>2 DEF Holds, OnceIn
    <3>. QED
      BY <3>1
  <2>5. EntriesOf(i) = {<<c, k>>}
    <3>1. \A e : e \in EntriesOf(i) => e = <<c, k>>
      BY <2>4 DEF EntriesOf
    <3>2. <<c, k>> \in EntriesOf(i)
      BY <2>2, <2>3 DEF EntriesOf
    <3>. QED
      BY <3>1, <3>2
  <2>6. Cardinality(EntriesOf(i)) = 1
    BY <2>5, FS_Singleton
  <2>. QED
    BY <1>3, <2>6
<1>4. CASE ~\E c \in UItems : i \in KidsOf(c)
  <2>1. \A e : e \notin EntriesOf(i)
    BY <1>4 DEF EntriesOf, KidsOf
  <2>2. EntriesOf(i) = {}
    BY <2>1
  <2>3. Cardinality(EntriesOf(i)) = 0
    BY <2>2, FS_EmptySet
  <2>. QED
    BY <1>4, <2>3
<1>. QED
  BY <1>3, <1>4

(* What the runs check.                                                    *)
LEMMA TreeFollows == TreeIInv => TreeOwned
<1> SUFFICES ASSUME TreeIInv PROVE TreeOwned
  OBVIOUS
<1>1. PICK K : /\ K = Kids /\ K \in [UItems -> SUBSET UItems]
               /\ \A c \in UItems : Holds(ukids[c], K[c])
               /\ Forest(K, Alive, uhold, ulost) /\ Ranked(K)
  BY TreeBefore
<1>2. \A c \in UItems : K[c] = KidsOf(c)
  BY <1>1 DEF Kids
<1>3. ASSUME NEW i \in UItems
      PROVE  /\ Cardinality(EntriesOf(i)) + (IF i \in uhold THEN 1 ELSE 0) + (IF i \in ulost THEN 1 ELSE 0)
                = IF utype[i] # NoItem THEN 1 ELSE 0
             /\ i \in ulost => Stays(i) \/ uname[i] = NoName
             /\ utype[i] = NoItem => ukids[i] = <<>>
  <2>1. i \in ulost => Stays(i) \/ uname[i] = NoName
    BY DEF TreeIInv, LostAre
  <2>2. i \in Alive <=> utype[i] # NoItem
    BY DEF Alive
  <2>3. utype[i] = NoItem => ukids[i] = <<>>
    <3>1. ASSUME utype[i] = NoItem PROVE ukids[i] = <<>>
      <4>1. K[i] = {}
        BY <1>1, <2>2, <3>1 DEF Forest
      <4>2. PICK s : s = ukids[i]
        OBVIOUS
      <4>3. s \in Seq(KeptItems) /\ KidsIn(s) = {}
        BY <1>1, <4>1, <4>2 DEF Holds
      <4>4. Len(s) \in Nat /\ DOMAIN s = 1 .. Len(s)
        BY <4>3
      <4>5. ~(1 \in DOMAIN s)
        BY <4>3 DEF KidsIn
      <4>6. Len(s) = 0
        BY <4>4, <4>5
      <4>. QED
        BY <4>2, <4>3, <4>6
    <3>. QED
      BY <3>1
  <2>4. PICK n : n = Cardinality(EntriesOf(i))
    OBVIOUS
  <2>5. CASE \E c \in UItems : i \in KidsOf(c)
    <3>1. n = 1
      BY <2>4, <2>5, EntriesCount
    <3>2. i \in Alive /\ i \notin uhold /\ i \notin ulost
      BY <1>1, <1>2, <2>5 DEF Forest
    <3>. QED
      BY <2>1, <2>2, <2>3, <2>4, <3>1, <3>2
  <2>6. CASE ~\E c \in UItems : i \in KidsOf(c)
    <3>1. n = 0
      BY <2>4, <2>6, EntriesCount
    <3>2. /\ i \in Alive => i \in uhold \/ i \in ulost
          /\ i \in uhold => i \in Alive /\ i \notin ulost
          /\ i \in ulost => i \in Alive
      BY <1>1, <1>2, <2>6 DEF Forest
    <3>. QED
      BY <2>1, <2>2, <2>3, <2>4, <3>1, <3>2
  <2>. QED
    BY <2>5, <2>6
<1>. QED
  BY <1>3 DEF TreeOwned

-----------------------------------------------------------------------------
(* The lists of eclist.c and the maps over them, whatever is inserted,     *)
(* erased, exchanged and spliced, and in whatever order: both ways around  *)
(* a list is what it should hold, no node is lost or in two lists, a pass  *)
(* of a cursor gives what was there all along, once; a map has what was    *)
(* stored, and orderAll sorts it (ListsAreRings, CursorCovers,             *)
(* MapKeepsEntries).                                                       *)
THEOREM ListsStay ==
  ListInit /\ MapInit /\ [][ListNext]_listVars /\ [][MapNext]_mapVars => []ListsKeep
<1> DEFINE IInv == ListIInv /\ MapIInv
<1>1. ListInit /\ MapInit => IInv
  BY ListStarts, MapStarts
<1>2. IInv /\ [ListNext]_listVars /\ [MapNext]_mapVars => IInv'
  BY ListSteps, MapSteps
<1>3. IInv => ListsKeep
  BY RingsFollow, CoverFollows, MapFollows DEF ListsKeep
<1> HIDE DEF IInv
<1>. QED
  BY <1>1, <1>2, <1>3, PTL

(* The streams of ecbuffer.c, the stream device and the read buffer show   *)
(* and give away what was put into them, every byte once and in order, in  *)
(* every state of their specifications (StreamHolds, DevKeeps, SmartKeeps, *)
(* ReadKeeps).                                                             *)
THEOREM BytesStay ==
  StreamInit /\ DevInit /\ SmartInit /\ ReadInit
  /\ [][StreamNext]_streamVars /\ [][DevNext]_devVars
  /\ [][SmartNext]_smartVars /\ [][ReadStepNext]_readVars => []BytesKeep
<1> DEFINE IInv == StreamIInv /\ DevIInv /\ SmartIInv /\ ReadIInv
<1>1. StreamInit /\ DevInit /\ SmartInit /\ ReadInit => IInv
  BY StreamStarts, DevStarts, SmartStarts, ReadStarts
<1>2. IInv /\ [StreamNext]_streamVars /\ [DevNext]_devVars
        /\ [SmartNext]_smartVars /\ [ReadStepNext]_readVars => IInv'
  BY StreamSteps, DevSteps, SmartSteps, ReadSteps
<1>3. IInv => BytesKeep
  BY StreamFollows, DevFollows, SmartFollows, ReadFollows DEF BytesKeep
<1> HIDE DEF IInv
<1>. QED
  BY <1>1, <1>2, <1>3, PTL

(* The tables and the rows a cursor fetches (adbl), the slots of ecchain.c *)
(* and the numbered pointers of ecvector.c: what was put in is found where *)
(* it was put, in every state of their specifications (TableKeeps,         *)
(* CursorReadsResult, SlotsKeep, VectorKeeps).                             *)
THEOREM TablesStay ==
  TableInit /\ CursorInit /\ SlotInit /\ VectorInit
  /\ [][TableNext]_tableVars /\ [][RowNext]_cursorVars
  /\ [][SlotNext]_slotVars /\ [][VectorNext]_vectorVars => []TablesKeep
<1> DEFINE IInv == TableIInv /\ CursorIInv /\ SlotIInv /\ VectorIInv
<1>1. TableInit /\ CursorInit /\ SlotInit /\ VectorInit => IInv
  BY TableStarts, CursorStarts, SlotStarts, VectorStarts
<1>2. IInv /\ [TableNext]_tableVars /\ [RowNext]_cursorVars
        /\ [SlotNext]_slotVars /\ [VectorNext]_vectorVars => IInv'
  BY TableSteps, CursorSteps, SlotSteps, VectorSteps
<1>3. IInv => TablesKeep
  BY TableFollows, CursorFollows, SlotFollows, VectorFollows DEF TablesKeep
<1> HIDE DEF IInv
<1>. QED
  BY <1>1, <1>2, <1>3, PTL

(* Every item of the data tree has one place: the program, one container,  *)
(* or nobody has it; what a container has is alive, what is freed is       *)
(* nowhere, and lost are only TRUE booleans and items without a name.  So  *)
(* add, extract, delete, merge and destroy never free an item twice, leave *)
(* none in two containers, and keep no freed one (ecudc.c).                *)
THEOREM TreeStays == TreeInit /\ [][TreeNext]_treeVars => []TreeOwned
<1>1. TreeInit => TreeIInv
  BY TreeStarts
<1>2. TreeIInv /\ [TreeNext]_treeVars => TreeIInv'
  BY TreeSteps
<1>3. TreeIInv => TreeOwned
  BY TreeFollows
<1>. QED
  BY <1>1, <1>2, <1>3, PTL
=============================================================================
