------------------------- MODULE DbTransactionProofs -------------------------
(***************************************************************************)
(* Proofs about the calls that change a database table, for any number of  *)
(* threads, keys and calls, whatever they are asked for and whatever may   *)
(* fail: one connection, no transaction that outlives the calls, and all   *)
(* or nothing for a thread that calls alone.  Three invariants, each on    *)
(* top of the one before it.                                               *)
(***************************************************************************)
EXTENDS DbTransaction, FiniteSetTheorems, WellFoundedInduction, TLAPS

(* Where a thread is belongs to what it was asked for.                     *)
JobTypes == job \in [Threads -> JobKinds] /\ todo \in [Threads -> Nat]

CallPlace ==
  \A t \in Threads :
    /\ pc[t] # "idle" => t \in users /\ calls[t] > 0
    /\ pc[t] \in {"item", "insert"} => job[t].kind = "insert"
    /\ pc[t] \in {"ignore", "ignored", "update"} => job[t].kind = "update"
    /\ pc[t] = "delete" => job[t].kind = "delete"
    /\ pc[t] \in {"counted", "end"} => job[t].kind # "nodata"
    /\ pc[t] = "insert" => todo[t] > 0 /\ (connection = "broken" \/ number[t] \in Keys)
    /\ pc[t] = "counted" /\ job[t].kind = "insert" => todo[t] > 0

(* The manager's mutex is held from looking for a connection to having one,*)
(* so only the first session makes one.                                    *)
OneOpener ==
  /\ connects = (IF connection = "none" THEN 0 ELSE 1)
  /\ \A t \in Threads :
       /\ pc[t] \in {"look", "connect"} <=> mutex = t
       /\ pc[t] = "connect" => connection = "none"
       /\ pc[t] = "begin" \/ InCall(t) => sessions[t] > 0
       /\ sessions[t] > 0 => connection # "none"
       /\ sessions[t] + (IF pc[t] \in {"lock", "look", "connect"} THEN 1 ELSE 0) <= calls[t]

Layout == TypeOK /\ JobTypes /\ CallPlace /\ OneOpener

(* Outside of a transaction the connection sees what is on disk.           *)
Transactions ==
  /\ ~open => db = view
  /\ open => connection = "up"
  /\ "commit" \notin failures /\ open => \E t \in Threads : InCall(t)

(* No row and no answer is of a call that comes yet.                       *)
Past(T) == \A k \in DOMAIN T : T[k] = Old \/ T[k][2] <= calls[T[k][1]]
Answered ==
  \A d \in declined : d[2] <= calls[d[1]] /\ (pc[d[1]] # "idle" => d[2] < calls[d[1]])

(* What the call of a thread has written so far.                           *)
OfCall(T, t) == {k \in DOMAIN T : T[k] = Mine(t)}

(* How far the call is when the connection is up and nobody else calls ... *)
Underway(t) ==
  /\ open
  /\ pc[t] \in {"item", "insert"} =>
       Cardinality(OfCall(view, t)) + todo[t] = job[t].items
  /\ pc[t] = "insert" => number[t] \notin DOMAIN view
  /\ pc[t] = "counted" /\ job[t].kind = "insert" =>
       changes = 1 /\ Cardinality(OfCall(view, t)) + todo[t] = job[t].items + 1
  /\ pc[t] = "ignored" /\ changes = 0 => job[t].key \in DOMAIN view
  /\ pc[t] = "ignored" /\ changes # 0 => Complete(t, view)
  /\ pc[t] = "update" => job[t].key \in DOMAIN view
  /\ pc[t] = "counted" /\ job[t].kind # "insert" => Complete(t, view)
  /\ pc[t] = "end" => Complete(t, view)

(* ... and when the database could not be opened.                          *)
Shut(t) ==
  /\ pc[t] \notin {"ignored", "update", "counted"}
  /\ pc[t] \in {"item", "insert"} => ret[t] = 0 \/ todo[t] = job[t].items
  /\ pc[t] = "end" => ret[t] = 0 \/ (job[t].kind = "insert" /\ job[t].items = 0)

Orderly(t) ==
  /\ \A k \in DOMAIN db : db[k] \notin declined
  /\ \A k \in DOMAIN view : view[k] \notin declined
  /\ pc[t] # "idle" => OfCall(db, t) = {}
  /\ pc[t] \in {"lock", "look", "connect", "begin"} => OfCall(view, t) = {}
  /\ pc[t] = "idle" /\ job[t].kind = "insert" =>
       Cardinality(OfCall(db, t)) \in {0, job[t].items}
  /\ InCall(t) => IF connection = "up" THEN Underway(t) ELSE Shut(t)

Calm == Alone /\ "statement" \notin failures

History == Past(db) /\ Past(view) /\ Answered

AloneInv == Layout /\ Transactions /\ History /\ (Calm => \A t \in users : Orderly(t))

-----------------------------------------------------------------------------
LEMMA JobArguments ==
  ASSUME JobTypes, NEW t \in Threads
  PROVE  /\ job[t].kind \in {"insert", "update", "delete", "nodata"}
         /\ job[t].kind = "insert" => job[t].items \in Nat
         /\ job[t].kind \in {"update", "delete"} => job[t].key \in Keys
BY DEF JobTypes, JobKinds

(* What a statement leaves is a table again.                               *)
LEMMA StatementTables ==
  ASSUME NEW T, IsTable(T), NEW k \in Keys, NEW row \in Rows
  PROVE  IsTable(With(T, k, row)) /\ IsTable(Without(T, k))
BY DEF IsTable, With, Without

LEMMA MineIsRow ==
  ASSUME TypeOK, NEW t \in Threads, calls[t] > 0
  PROVE  Mine(t) \in Rows /\ Mine(t) \in Threads \X (1 .. MaxCalls)
BY DEF TypeOK, Mine, Rows

(* The highest element of a finite set of numbers.                         *)
LEMMA Highest ==
  ASSUME NEW S \in SUBSET Int, IsFiniteSet(S), S # {}
  PROVE  Max(S) \in S /\ \A y \in S : Max(S) >= y
<1> DEFINE Above(x) == {y \in S : y > x}
           A == {Above(x) : x \in S}
           R == StrictSubsetOrdering(S)
<1>1. IsWellFoundedOn(R, FiniteSubsetsOf(S))
  BY FS_StrictSubsetOrderingWellFounded
<1>2. A \subseteq FiniteSubsetsOf(S) /\ A # {}
  <2>1. ASSUME NEW x \in S PROVE Above(x) \in FiniteSubsetsOf(S)
    <3>1. Above(x) \in SUBSET S
      OBVIOUS
    <3> HIDE DEF Above
    <3> QED
      BY <3>1, FS_Subset DEF FiniteSubsetsOf
  <2> HIDE DEF Above
  <2> QED
    BY <2>1
<1>3. PICK a \in A : \A b \in A : ~(<<b, a>> \in R)
  <2> HIDE DEF A, R
  <2> QED
    BY <1>1, <1>2, WFMin
<1>4. PICK x \in S : a = Above(x)
  BY <1>3
<1>5. \A y \in S : x >= y
  <2> SUFFICES ASSUME NEW y \in S, ~(x >= y) PROVE FALSE
    OBVIOUS
  <2>1. y \in Int /\ x \in Int /\ y > x
    OBVIOUS
  <2>2. Above(y) \subseteq Above(x) /\ y \in Above(x) /\ y \notin Above(y)
    <3>1. ASSUME NEW z \in S, z > y PROVE z > x
      <4>1. z \in Int
        OBVIOUS
      <4> QED
        BY <2>1, <3>1, <4>1
    <3>2. ~(y > y)
      BY <2>1
    <3> QED
      BY <2>1, <3>1, <3>2
  <2>3. <<Above(y), a>> \in R
    BY <1>4, <2>2 DEF StrictSubsetOrdering
  <2> QED
    BY <1>3, <2>3
<1> QED
  BY <1>5 DEF Max

(* The number the sequence gives is no key of the table.                   *)
LEMMA NumberIsNew ==
  ASSUME NEW T, IsTable(T), Max(DOMAIN T \cup {0}) < MaxKey
  PROVE  Max(DOMAIN T \cup {0}) + 1 \in Keys \ DOMAIN T
<1> DEFINE S == DOMAIN T \cup {0}
<1>1. S \subseteq 0 .. MaxKey /\ S # {} /\ MaxKey \in Nat
  BY TransactionConstants DEF IsTable, Keys
<1>2. IsFiniteSet(0 .. MaxKey)
  BY <1>1, FS_Interval
<1>3. IsFiniteSet(S) /\ S \in SUBSET Int
  <2>1. S \in SUBSET (0 .. MaxKey) /\ S \in SUBSET Int
    BY <1>1
  <2> HIDE DEF S
  <2> QED
    BY <1>2, <2>1, FS_Subset
<1> HIDE DEF S
<1>4. Max(S) \in S /\ \A y \in S : Max(S) >= y
  BY <1>1, <1>3, Highest
<1>5. Max(S) \in 0 .. MaxKey /\ Max(S) < MaxKey
  BY <1>1, <1>4 DEF S
<1>6. Max(S) + 1 \notin S /\ Max(S) + 1 \in Keys
  BY <1>1, <1>4, <1>5 DEF Keys
<1> QED
  BY <1>6 DEF S

-----------------------------------------------------------------------------
(* The first invariant.                                                    *)
LEMMA LayoutStarts == Init => Layout
<1> SUFFICES ASSUME Init PROVE Layout
  OBVIOUS
<1> USE TransactionConstants
<1>1. TypeOK
  <2>1. PICK setting \in Settings : users = setting.users /\ failures = setting.failures
    BY DEF Init
  <2>2. [users |-> users, failures |-> failures] \in Settings
    BY <2>1
  <2>3. IsTable(db) /\ IsTable(view)
    BY DEF Init, IsTable, Rows
  <2>4. /\ sessions \in [Threads -> 0 .. MaxCalls] /\ calls \in [Threads -> 0 .. MaxCalls]
        /\ number \in [Threads -> 0 .. MaxKey + 1] /\ ret \in [Threads -> -1 .. 1]
        /\ pc \in [Threads -> Places] /\ todo \in [Threads -> Nat]
    BY DEF Init, Places
  <2>5. \A t \in Threads : pc[t] = "idle"
    BY DEF Init
  <2>6. mutex = Null /\ connection = "none" /\ connects = 0
    BY DEF Init
  <2>7. open \in BOOLEAN
    BY DEF Init
  <2>8. changes \in 0 .. 1
    BY DEF Init
  <2>9. declined \subseteq Threads \X (1 .. MaxCalls)
    BY DEF Init
  <2> QED
    BY <2>2, <2>3, <2>4, <2>5, <2>6, <2>7, <2>8, <2>9 DEF TypeOK
<1>2. JobTypes
  BY DEF Init, JobTypes, JobKinds
<1>3. CallPlace /\ OneOpener
  BY DEF Init, CallPlace, OneOpener, InCall
<1> QED
  BY <1>1, <1>2, <1>3 DEF Layout

(* A session is opened.                                                    *)
LEMMA OpeningLayout ==
  ASSUME Layout, NEW t \in Threads,
         \/ Lock(t) \/ Look(t) \/ Connect(t) \/ NoData(t)
  PROVE  Layout'
<1> USE JobArguments, MineIsRow, TransactionConstants DEF Layout, Go, At, conn, fixed, disk, local
<1>1. CASE Lock(t)
  <2> USE <1>1 DEF Lock
  <2>1. TypeOK'
    BY StatementTables, NumberIsNew DEF TypeOK, Places, CallPlace, OneOpener, InCall, JobTypes
  <2>2. JobTypes'
    BY DEF TypeOK, JobTypes, CallPlace
  <2>3. CallPlace'
    BY NumberIsNew DEF TypeOK, CallPlace, JobTypes, OneOpener, InCall
  <2>4. OneOpener'
    BY DEF TypeOK, OneOpener, InCall, CallPlace
  <2> QED
    BY <2>1, <2>2, <2>3, <2>4
<1>2. CASE Look(t)
  <2> USE <1>2 DEF Look, Session
  <2>1. TypeOK'
    BY StatementTables, NumberIsNew DEF TypeOK, Places, CallPlace, OneOpener, InCall, JobTypes
  <2>2. JobTypes'
    BY DEF TypeOK, JobTypes, CallPlace
  <2>3. CallPlace'
    BY NumberIsNew DEF TypeOK, CallPlace, JobTypes, OneOpener, InCall
  <2>4. OneOpener'
    BY DEF TypeOK, OneOpener, InCall, CallPlace
  <2> QED
    BY <2>1, <2>2, <2>3, <2>4
<1>3. CASE Connect(t)
  <2> USE <1>3 DEF Connect, Session
  <2>1. TypeOK'
    BY StatementTables, NumberIsNew DEF TypeOK, Places, CallPlace, OneOpener, InCall, JobTypes
  <2>2. JobTypes'
    BY DEF TypeOK, JobTypes, CallPlace
  <2>3. CallPlace'
    BY NumberIsNew DEF TypeOK, CallPlace, JobTypes, OneOpener, InCall
  <2>4. OneOpener'
    BY DEF TypeOK, OneOpener, InCall, CallPlace
  <2> QED
    BY <2>1, <2>2, <2>3, <2>4
<1>4. CASE NoData(t)
  <2> USE <1>4 DEF NoData, Mine
  <2>1. TypeOK'
    BY StatementTables, NumberIsNew DEF TypeOK, Places, CallPlace, OneOpener, InCall, JobTypes
  <2>2. JobTypes'
    BY DEF TypeOK, JobTypes, CallPlace
  <2>3. CallPlace'
    BY NumberIsNew DEF TypeOK, CallPlace, JobTypes, OneOpener, InCall
  <2>4. OneOpener'
    BY DEF TypeOK, OneOpener, InCall, CallPlace
  <2> QED
    BY <2>1, <2>2, <2>3, <2>4
<1> QED
  BY <1>1, <1>2, <1>3, <1>4

(* The statements of a call, and its end.                                  *)
LEMMA StatementLayout ==
  ASSUME Layout, NEW t \in Threads,
         \/ Begin(t) \/ Sequence(t) \/ Insert(t) \/ NoItems(t)
         \/ InsertOrIgnore(t) \/ Ignored(t) \/ Update(t) \/ Delete(t)
         \/ Counted(t) \/ End(t)
  PROVE  Layout'
<1> USE JobArguments, MineIsRow, TransactionConstants DEF Layout, Go, At, conn, fixed, disk, local
<1>1. CASE Begin(t)
  <2> USE <1>1 DEF Begin
  <2>1. TypeOK'
    BY StatementTables, NumberIsNew DEF TypeOK, Places, CallPlace, OneOpener, InCall, JobTypes
  <2>2. JobTypes'
    BY DEF TypeOK, JobTypes, CallPlace
  <2>3. CallPlace'
    BY NumberIsNew DEF TypeOK, CallPlace, JobTypes, OneOpener, InCall
  <2>4. OneOpener'
    BY DEF TypeOK, OneOpener, InCall, CallPlace
  <2> QED
    BY <2>1, <2>2, <2>3, <2>4
<1>2. CASE Sequence(t)
  <2> USE <1>2 DEF Sequence, settled
  <2>1. TypeOK'
    <3>1. IsTable(db') /\ IsTable(view')
      BY StatementTables DEF TypeOK, CallPlace, JobTypes
    <3>2. pc' \in [Threads -> Places] /\ \A u \in Threads : pc'[u] # "idle" => job'[u] \in Jobs
      BY DEF TypeOK, Places
    <3>3. \A u \in Threads : todo'[u] \in Nat
      BY DEF TypeOK, JobTypes, CallPlace
    <3>4. number' \in [Threads -> 0 .. MaxKey + 1]
      <4>1. Max(DOMAIN view \cup {0}) + 1 \in Keys
        BY NumberIsNew DEF TypeOK
      <4> QED
        BY <4>1 DEF TypeOK, Keys
    <3>5. ret' \in [Threads -> -1 .. 1] /\ changes' \in 0 .. 1 /\ open' \in BOOLEAN
      BY DEF TypeOK
    <3>6. sessions' \in [Threads -> 0 .. MaxCalls]
      BY DEF TypeOK, OneOpener, InCall
    <3>7. declined' \subseteq Threads \X (1 .. MaxCalls)
      BY DEF TypeOK, CallPlace
    <3> QED
      BY <3>1, <3>2, <3>3, <3>4, <3>5, <3>6, <3>7 DEF TypeOK
  <2>2. JobTypes'
    BY DEF TypeOK, JobTypes, CallPlace
  <2>3. CallPlace'
    BY NumberIsNew DEF TypeOK, CallPlace, JobTypes, OneOpener, InCall
  <2>4. OneOpener'
    BY DEF TypeOK, OneOpener, InCall, CallPlace
  <2> QED
    BY <2>1, <2>2, <2>3, <2>4
<1>3. CASE Insert(t)
  <2> USE <1>3 DEF Insert, Fails, Answer, Executed, settled, disk
  <2>1. TypeOK'
    <3>1. IsTable(db') /\ IsTable(view')
      BY StatementTables DEF TypeOK, CallPlace, JobTypes
    <3>2. pc' \in [Threads -> Places] /\ \A u \in Threads : pc'[u] # "idle" => job'[u] \in Jobs
      BY DEF TypeOK, Places
    <3>3. \A u \in Threads : todo'[u] \in Nat
      BY DEF TypeOK, JobTypes, CallPlace
    <3>4. number' \in [Threads -> 0 .. MaxKey + 1]
      BY NumberIsNew DEF TypeOK, Keys
    <3>5. ret' \in [Threads -> -1 .. 1] /\ changes' \in 0 .. 1 /\ open' \in BOOLEAN
      BY DEF TypeOK
    <3>6. sessions' \in [Threads -> 0 .. MaxCalls]
      BY DEF TypeOK, OneOpener, InCall
    <3>7. declined' \subseteq Threads \X (1 .. MaxCalls)
      BY DEF TypeOK, CallPlace
    <3> QED
      BY <3>1, <3>2, <3>3, <3>4, <3>5, <3>6, <3>7 DEF TypeOK
  <2>2. JobTypes'
    BY DEF TypeOK, JobTypes, CallPlace
  <2>3. CallPlace'
    BY NumberIsNew DEF TypeOK, CallPlace, JobTypes, OneOpener, InCall
  <2>4. OneOpener'
    BY DEF TypeOK, OneOpener, InCall, CallPlace
  <2> QED
    BY <2>1, <2>2, <2>3, <2>4
<1>4. CASE NoItems(t)
  <2> USE <1>4 DEF NoItems, settled, disk
  <2>1. TypeOK'
    BY StatementTables, NumberIsNew DEF TypeOK, Places, CallPlace, OneOpener, InCall, JobTypes
  <2>2. JobTypes'
    BY DEF TypeOK, JobTypes, CallPlace
  <2>3. CallPlace'
    BY NumberIsNew DEF TypeOK, CallPlace, JobTypes, OneOpener, InCall
  <2>4. OneOpener'
    BY DEF TypeOK, OneOpener, InCall, CallPlace
  <2> QED
    BY <2>1, <2>2, <2>3, <2>4
<1>5. CASE InsertOrIgnore(t)
  <2> USE <1>5 DEF InsertOrIgnore, Fails, Answer, Executed, settled, disk
  <2>1. TypeOK'
    <3>1. IsTable(db') /\ IsTable(view')
      BY StatementTables DEF TypeOK, CallPlace, JobTypes
    <3>2. pc' \in [Threads -> Places] /\ \A u \in Threads : pc'[u] # "idle" => job'[u] \in Jobs
      BY DEF TypeOK, Places
    <3>3. \A u \in Threads : todo'[u] \in Nat
      BY DEF TypeOK, JobTypes, CallPlace
    <3>4. number' \in [Threads -> 0 .. MaxKey + 1]
      BY NumberIsNew DEF TypeOK, Keys
    <3>5. ret' \in [Threads -> -1 .. 1] /\ changes' \in 0 .. 1 /\ open' \in BOOLEAN
      BY DEF TypeOK
    <3>6. sessions' \in [Threads -> 0 .. MaxCalls]
      BY DEF TypeOK, OneOpener, InCall
    <3>7. declined' \subseteq Threads \X (1 .. MaxCalls)
      BY DEF TypeOK, CallPlace
    <3> QED
      BY <3>1, <3>2, <3>3, <3>4, <3>5, <3>6, <3>7 DEF TypeOK
  <2>2. JobTypes'
    BY DEF TypeOK, JobTypes, CallPlace
  <2>3. CallPlace'
    BY NumberIsNew DEF TypeOK, CallPlace, JobTypes, OneOpener, InCall
  <2>4. OneOpener'
    BY DEF TypeOK, OneOpener, InCall, CallPlace
  <2> QED
    BY <2>1, <2>2, <2>3, <2>4
<1>6. CASE Ignored(t)
  <2> USE <1>6 DEF Ignored, settled, disk
  <2>1. TypeOK'
    BY StatementTables, NumberIsNew DEF TypeOK, Places, CallPlace, OneOpener, InCall, JobTypes
  <2>2. JobTypes'
    BY DEF TypeOK, JobTypes, CallPlace
  <2>3. CallPlace'
    BY NumberIsNew DEF TypeOK, CallPlace, JobTypes, OneOpener, InCall
  <2>4. OneOpener'
    BY DEF TypeOK, OneOpener, InCall, CallPlace
  <2> QED
    BY <2>1, <2>2, <2>3, <2>4
<1>7. CASE Update(t)
  <2> USE <1>7 DEF Update, Fails, Answer, Executed, settled, disk
  <2>1. TypeOK'
    <3>1. IsTable(db') /\ IsTable(view')
      BY StatementTables DEF TypeOK, CallPlace, JobTypes
    <3>2. pc' \in [Threads -> Places] /\ \A u \in Threads : pc'[u] # "idle" => job'[u] \in Jobs
      BY DEF TypeOK, Places
    <3>3. \A u \in Threads : todo'[u] \in Nat
      BY DEF TypeOK, JobTypes, CallPlace
    <3>4. number' \in [Threads -> 0 .. MaxKey + 1]
      BY NumberIsNew DEF TypeOK, Keys
    <3>5. ret' \in [Threads -> -1 .. 1] /\ changes' \in 0 .. 1 /\ open' \in BOOLEAN
      BY DEF TypeOK
    <3>6. sessions' \in [Threads -> 0 .. MaxCalls]
      BY DEF TypeOK, OneOpener, InCall
    <3>7. declined' \subseteq Threads \X (1 .. MaxCalls)
      BY DEF TypeOK, CallPlace
    <3> QED
      BY <3>1, <3>2, <3>3, <3>4, <3>5, <3>6, <3>7 DEF TypeOK
  <2>2. JobTypes'
    BY DEF TypeOK, JobTypes, CallPlace
  <2>3. CallPlace'
    BY NumberIsNew DEF TypeOK, CallPlace, JobTypes, OneOpener, InCall
  <2>4. OneOpener'
    BY DEF TypeOK, OneOpener, InCall, CallPlace
  <2> QED
    BY <2>1, <2>2, <2>3, <2>4
<1>8. CASE Delete(t)
  <2> USE <1>8 DEF Delete, Fails, Answer, Executed, settled, disk
  <2>1. TypeOK'
    <3>1. IsTable(db') /\ IsTable(view')
      BY StatementTables DEF TypeOK, CallPlace, JobTypes
    <3>2. pc' \in [Threads -> Places] /\ \A u \in Threads : pc'[u] # "idle" => job'[u] \in Jobs
      BY DEF TypeOK, Places
    <3>3. \A u \in Threads : todo'[u] \in Nat
      BY DEF TypeOK, JobTypes, CallPlace
    <3>4. number' \in [Threads -> 0 .. MaxKey + 1]
      BY NumberIsNew DEF TypeOK, Keys
    <3>5. ret' \in [Threads -> -1 .. 1] /\ changes' \in 0 .. 1 /\ open' \in BOOLEAN
      BY DEF TypeOK
    <3>6. sessions' \in [Threads -> 0 .. MaxCalls]
      BY DEF TypeOK, OneOpener, InCall
    <3>7. declined' \subseteq Threads \X (1 .. MaxCalls)
      BY DEF TypeOK, CallPlace
    <3> QED
      BY <3>1, <3>2, <3>3, <3>4, <3>5, <3>6, <3>7 DEF TypeOK
  <2>2. JobTypes'
    BY DEF TypeOK, JobTypes, CallPlace
  <2>3. CallPlace'
    BY NumberIsNew DEF TypeOK, CallPlace, JobTypes, OneOpener, InCall
  <2>4. OneOpener'
    BY DEF TypeOK, OneOpener, InCall, CallPlace
  <2> QED
    BY <2>1, <2>2, <2>3, <2>4
<1>9. CASE Counted(t)
  <2> USE <1>9 DEF Counted, settled, disk
  <2>1. TypeOK'
    <3>1. IsTable(db') /\ IsTable(view')
      BY StatementTables DEF TypeOK, CallPlace, JobTypes
    <3>2. pc' \in [Threads -> Places] /\ \A u \in Threads : pc'[u] # "idle" => job'[u] \in Jobs
      BY DEF TypeOK, Places
    <3>3. \A u \in Threads : todo'[u] \in Nat
      BY DEF TypeOK, JobTypes, CallPlace
    <3>4. number' \in [Threads -> 0 .. MaxKey + 1]
      BY NumberIsNew DEF TypeOK, Keys
    <3>5. ret' \in [Threads -> -1 .. 1] /\ changes' \in 0 .. 1 /\ open' \in BOOLEAN
      BY DEF TypeOK
    <3>6. sessions' \in [Threads -> 0 .. MaxCalls]
      BY DEF TypeOK, OneOpener, InCall
    <3>7. declined' \subseteq Threads \X (1 .. MaxCalls)
      BY DEF TypeOK, CallPlace
    <3> QED
      BY <3>1, <3>2, <3>3, <3>4, <3>5, <3>6, <3>7 DEF TypeOK
  <2>2. JobTypes'
    BY DEF TypeOK, JobTypes, CallPlace
  <2>3. CallPlace'
    BY NumberIsNew DEF TypeOK, CallPlace, JobTypes, OneOpener, InCall
  <2>4. OneOpener'
    BY DEF TypeOK, OneOpener, InCall, CallPlace
  <2> QED
    BY <2>1, <2>2, <2>3, <2>4
<1>10. CASE End(t)
  <2> USE <1>10 DEF End, Close, Commit, Rollback
  <2>1. TypeOK'
    <3>1. IsTable(db') /\ IsTable(view')
      BY StatementTables DEF TypeOK, CallPlace, JobTypes
    <3>2. pc' \in [Threads -> Places] /\ \A u \in Threads : pc'[u] # "idle" => job'[u] \in Jobs
      BY DEF TypeOK, Places
    <3>3. \A u \in Threads : todo'[u] \in Nat
      BY DEF TypeOK, JobTypes, CallPlace
    <3>4. number' \in [Threads -> 0 .. MaxKey + 1]
      BY NumberIsNew DEF TypeOK, Keys
    <3>5. ret' \in [Threads -> -1 .. 1] /\ changes' \in 0 .. 1 /\ open' \in BOOLEAN
      BY DEF TypeOK
    <3>6. sessions' \in [Threads -> 0 .. MaxCalls]
      BY DEF TypeOK, OneOpener, InCall
    <3>7. declined' \subseteq Threads \X (1 .. MaxCalls)
      BY DEF TypeOK, CallPlace
    <3> QED
      BY <3>1, <3>2, <3>3, <3>4, <3>5, <3>6, <3>7 DEF TypeOK
  <2>2. JobTypes'
    BY DEF TypeOK, JobTypes, CallPlace
  <2>3. CallPlace'
    BY NumberIsNew DEF TypeOK, CallPlace, JobTypes, OneOpener, InCall
  <2>4. OneOpener'
    BY DEF TypeOK, OneOpener, InCall, CallPlace
  <2> QED
    BY <2>1, <2>2, <2>3, <2>4
<1> QED
  BY <1>1, <1>2, <1>3, <1>4, <1>5, <1>6, <1>7, <1>8, <1>9, <1>10

(* A call begins, or the process ends.                                     *)
LEMMA OutsideLayout ==
  ASSUME Layout, Crash \/ \E t \in Threads, j \in Jobs : Call(t, j)
  PROVE  Layout'
<1> USE TransactionConstants DEF Layout, conn, fixed, disk, local
<1>1. ASSUME NEW t \in Threads, NEW j \in Jobs, Call(t, j) PROVE Layout'
  <2> USE <1>1 DEF Call, Go, At
  <2>1. TypeOK'
    BY DEF TypeOK, JobTypes, Places
  <2>2. JobTypes'
    BY DEF JobTypes
  <2>3. CallPlace'
    BY DEF TypeOK, CallPlace
  <2>4. OneOpener'
    BY DEF TypeOK, OneOpener, InCall
  <2> QED
    BY <2>1, <2>2, <2>3, <2>4
<1>2. CASE Crash
  <2> USE <1>2 DEF Crash
  <2>1. TypeOK'
    <3>1. IsTable(db') /\ IsTable(view')
      BY DEF TypeOK
    <3>2. /\ pc' \in [Threads -> Places] /\ \A t \in Threads : pc'[t] = "idle"
          /\ sessions' \in [Threads -> 0 .. MaxCalls]
      BY DEF Places
    <3>3. [users |-> users', failures |-> failures'] \in Settings
      BY DEF TypeOK
    <3>4. /\ mutex' = Null /\ connection' = "none" /\ connects' = 0
          /\ open' = FALSE /\ changes' = 0 /\ UNCHANGED <<local, declined>>
      OBVIOUS
    <3>5. \A t \in Threads : pc'[t] # "idle" => job'[t] \in Jobs
      BY <3>2
    <3>6. /\ number' \in [Threads -> 0 .. MaxKey + 1] /\ ret' \in [Threads -> -1 .. 1]
          /\ calls' \in [Threads -> 0 .. MaxCalls]
          /\ \A t \in Threads : todo'[t] \in Nat
          /\ declined' \subseteq Threads \X (1 .. MaxCalls)
      BY DEF TypeOK
    <3>7. open' \in BOOLEAN
      BY <3>4
    <3>8. changes' \in 0 .. 1
      BY <3>4
    <3> QED
      BY <3>5, <3>6, <3>7, <3>8, <3>1, <3>2, <3>3, <3>4 DEF TypeOK
  <2>2. JobTypes'
    BY DEF JobTypes
  <2>3. CallPlace' /\ OneOpener'
    BY DEF TypeOK, CallPlace, OneOpener, InCall
  <2> QED
    BY <2>1, <2>2, <2>3
<1> QED
  BY <1>1, <1>2

LEMMA LayoutSteps == Layout /\ [Next]_vars => Layout'
<1> SUFFICES ASSUME Layout, [Next]_vars PROVE Layout'
  OBVIOUS
<1>1. ASSUME NEW t \in Threads, Step(t) PROVE Layout'
  BY <1>1, OpeningLayout, StatementLayout DEF Step
<1>2. CASE Crash \/ \E t \in Threads, j \in Jobs : Call(t, j)
  BY <1>2, OutsideLayout
<1>3. CASE UNCHANGED vars
  BY <1>3 DEF vars, conn, fixed, disk, local, Layout, TypeOK, JobTypes, CallPlace, OneOpener,
              InCall
<1> QED
  BY <1>1, <1>2, <1>3 DEF Next

(* However many threads open their first session at once, one connects,    *)
(* and nobody has a session without a connection.                          *)
THEOREM ConnectionMadeOnce == Spec => []ConnectionInv
<1>1. Layout => ConnectionInv
  BY DEF Layout, ConnectionInv, ConnectedOnce, OneOpener
<1> QED
  BY <1>1, LayoutStarts, LayoutSteps, PTL DEF Spec

-----------------------------------------------------------------------------
(* The second invariant.                                                   *)

(* A step of a thread that leaves the table alone and is in its call after *)
(* it if it was before.                                                    *)
LEMMA QuietTransactions ==
  ASSUME Layout, Transactions, UNCHANGED <<disk, fixed>>,
         open => UNCHANGED connection,
         \A u \in Threads : InCall(u) => InCall(u)'
  PROVE  Transactions'
BY DEF Transactions, disk, fixed

LEMMA OpeningTransactions ==
  ASSUME Layout, Transactions, NEW t \in Threads,
         \/ Lock(t) \/ Look(t) \/ Connect(t) \/ NoData(t) \/ \E j \in Jobs : Call(t, j)
  PROVE  Transactions'
<1>1. UNCHANGED <<disk, fixed>>
  BY DEF Lock, Look, Connect, NoData, Call, conn
<1>2. open => UNCHANGED connection
  BY DEF Lock, Look, Connect, NoData, Call, conn, At, Layout, OneOpener, Transactions
<1>3. \A u \in Threads : InCall(u) => InCall(u)'
  BY DEF Lock, Look, Session, Connect, NoData, Call, Go, At, Layout, TypeOK, InCall
<1> QED
  BY <1>1, <1>2, <1>3, QuietTransactions

LEMMA StatementTransactions ==
  ASSUME Layout, Transactions, NEW t \in Threads,
         \/ Begin(t) \/ Sequence(t) \/ Insert(t) \/ NoItems(t)
         \/ InsertOrIgnore(t) \/ Ignored(t) \/ Update(t) \/ Delete(t) \/ Counted(t)
  PROVE  Transactions'
<1>1. InCall(t)'
  <2> USE JobArguments DEF Layout, TypeOK, Go, At, InCall, CallPlace, Answer, Fails
  <2>1. CASE Begin(t) \/ Sequence(t) \/ Insert(t) \/ NoItems(t)
    BY <2>1 DEF Begin, Sequence, Insert, NoItems
  <2>2. CASE InsertOrIgnore(t) \/ Ignored(t) \/ Update(t) \/ Delete(t) \/ Counted(t)
    BY <2>2 DEF InsertOrIgnore, Ignored, Update, Delete, Counted
  <2> QED
    BY <2>1, <2>2
<1>2. UNCHANGED <<connection, failures>>
  BY DEF Begin, Sequence, Insert, NoItems, InsertOrIgnore, Ignored, Update, Delete, Counted,
         settled, conn, fixed
<1>3. (~open' => db' = view') /\ (open' => connection = "up")
  <2> USE DEF Transactions
  <2>1. CASE UNCHANGED disk
    BY <2>1 DEF disk
  <2>2. ASSUME NEW table, NEW n, Executed(table, n)
        PROVE  (~open' => db' = view') /\ (open' => connection = "up")
    BY <2>2 DEF Executed, Layout, TypeOK
  <2>3. CASE Begin(t)
    BY <2>3 DEF Begin, Layout, TypeOK
  <2>4. CASE Sequence(t) \/ NoItems(t) \/ Ignored(t) \/ Counted(t)
    BY <2>1, <2>4 DEF Sequence, NoItems, Ignored, Counted
  <2>5. CASE Insert(t)
    BY <2>1, <2>2, <2>5 DEF Insert, Answer, Fails
  <2>6. CASE InsertOrIgnore(t)
    BY <2>1, <2>2, <2>6 DEF InsertOrIgnore, Answer, Fails
  <2>7. CASE Update(t) \/ Delete(t)
    BY <2>1, <2>2, <2>7 DEF Update, Delete, Answer, Fails
  <2> QED
    BY <2>3, <2>4, <2>5, <2>6, <2>7
<1> QED
  BY <1>1, <1>2, <1>3 DEF Transactions

LEMMA TransactionSteps == Layout /\ Transactions /\ [Next]_vars => Transactions'
<1> SUFFICES ASSUME Layout, Transactions, [Next]_vars PROVE Transactions'
  OBVIOUS
<1>1. ASSUME NEW t \in Threads, End(t) PROVE Transactions'
  <2>1. UNCHANGED <<connection, failures>>
    BY <1>1 DEF End, Close, conn, fixed
  <2>2. \/ ~open' /\ db' = view'
        \/ "commit" \in failures /\ UNCHANGED disk
    BY <1>1 DEF End, Commit, Rollback, disk, Transactions, Layout, TypeOK
  <2> QED
    BY <2>1, <2>2 DEF Transactions, disk
<1>2. CASE Crash
  BY <1>2 DEF Crash, Transactions
<1>3. ASSUME NEW t \in Threads, Step(t) PROVE Transactions'
  BY <1>1, <1>3, OpeningTransactions, StatementTransactions DEF Step
<1>4. ASSUME NEW t \in Threads, NEW j \in Jobs, Call(t, j) PROVE Transactions'
  BY <1>4, OpeningTransactions
<1>5. CASE UNCHANGED vars
  BY <1>5, QuietTransactions DEF vars, conn, fixed, disk, InCall
<1> QED
  BY <1>2, <1>3, <1>4, <1>5 DEF Next

(* Unless a COMMIT fails, a transaction does not outlive the calls, and    *)
(* when nobody is in one the connection sees what is on disk.              *)
THEOREM TransactionEndsWithCalls == Spec => []TransactionEnds
<1>1. Init => Transactions
  BY DEF Init, Transactions
<1>2. Transactions => TransactionEnds
  BY DEF Transactions, TransactionEnds
<1> QED
  BY <1>1, <1>2, LayoutStarts, LayoutSteps, TransactionSteps, PTL DEF Spec

-----------------------------------------------------------------------------
(* The third invariant.  What has been written and answered is of calls    *)
(* that were made.                                                         *)
LEMMA HistorySteps == Layout /\ History /\ [Next]_vars => History'
<1> SUFFICES ASSUME Layout, History, [Next]_vars PROVE History'
  OBVIOUS
<1> USE DEF History
<1>1. ASSUME UNCHANGED <<db, view, calls, declined>>,
             \A t \in Threads : pc'[t] # "idle" => pc[t] # "idle"
      PROVE  History'
  <2>1. Past(db)' /\ Past(view)'
    BY <1>1 DEF Past
  <2>2. \A d \in declined : d[1] \in Threads
    BY DEF Layout, TypeOK
  <2>3. Answered'
    BY <1>1, <2>2 DEF Answered
  <2> QED
    BY <2>1, <2>3
<1>2. ASSUME NEW t \in Threads, NEW k, pc[t] # "idle", pc'[t] # "idle",
             \A u \in Threads \ {t} : pc'[u] = pc[u],
             UNCHANGED <<calls, declined>>,
             view' \in {view, With(view, k, Mine(t)), Without(view, k)},
             db' \in {db, view'}
      PROVE  History'
  <2>1. Past(view)'
    BY <1>2 DEF Past, With, Without, Mine, Layout, TypeOK
  <2>2. Past(db)'
    BY <1>2, <2>1 DEF Past
  <2>3. \A d \in declined : d[1] \in Threads
    BY DEF Layout, TypeOK
  <2>4. Answered'
    BY <1>2, <2>3 DEF Answered
  <2> QED
    BY <2>1, <2>2, <2>4
<1>3. ASSUME NEW t \in Threads, Lock(t) \/ Look(t) \/ Connect(t) \/ Begin(t) \/ Sequence(t)
                                  \/ NoItems(t) \/ Ignored(t) \/ Counted(t)
      PROVE  History'
  <2>1. UNCHANGED <<db, view, calls, declined>>
    BY <1>3 DEF Lock, Look, Connect, Begin, Sequence, NoItems, Ignored, Counted, disk, local,
                settled
  <2>2. \A u \in Threads : pc'[u] # "idle" => pc[u] # "idle"
    BY <1>3 DEF Lock, Look, Session, Connect, Begin, Sequence, NoItems, Ignored, Counted, Go,
                At, Layout, TypeOK
  <2> QED
    BY <1>1, <2>1, <2>2
<1>4. ASSUME NEW t \in Threads, Insert(t) \/ InsertOrIgnore(t) \/ Update(t) \/ Delete(t)
      PROVE  History'
  <2>1. \E k : /\ view' \in {view, With(view, k, Mine(t)), Without(view, k)}
               /\ db' \in {db, view'}
    BY <1>4 DEF Insert, InsertOrIgnore, Update, Delete, Executed, Fails, Answer, disk
  <2>2. /\ pc[t] # "idle" /\ pc'[t] # "idle"
        /\ \A u \in Threads \ {t} : pc'[u] = pc[u]
        /\ UNCHANGED <<calls, declined>>
    BY <1>4 DEF Insert, InsertOrIgnore, Update, Delete, Fails, Answer, Go, At, settled,
                Layout, TypeOK
  <2> QED
    BY <1>2, <2>1, <2>2
<1>5. ASSUME NEW t \in Threads, NoData(t) \/ End(t) PROVE History'
  <2>1. /\ declined' \subseteq declined \cup {Mine(t)}
        /\ pc' = [pc EXCEPT ![t] = "idle"] /\ UNCHANGED calls
    BY <1>5 DEF NoData, End, Close, Go, local
  <2>2. db' \in {db, view} /\ view' \in {db, view}
    BY <1>5 DEF NoData, End, Commit, Rollback, disk
  <2>3. Past(db)' /\ Past(view)'
    BY <2>1, <2>2 DEF Past
  <2>4. /\ \A d \in declined : d[1] \in Threads /\ d[2] \in Nat
        /\ pc \in [Threads -> Places] /\ calls[t] \in Nat
    BY TransactionConstants DEF Layout, TypeOK
  <2>5. Answered'
    BY <2>1, <2>4 DEF Answered, Mine
  <2> QED
    BY <2>3, <2>5
<1>6. ASSUME NEW t \in Threads, NEW j \in Jobs, Call(t, j) PROVE History'
  <2>1. /\ calls' = [calls EXCEPT ![t] = @ + 1] /\ pc' = [pc EXCEPT ![t] = "lock"]
        /\ pc[t] = "idle" /\ UNCHANGED <<db, view, declined>>
        /\ calls \in [Threads -> 0 .. MaxCalls] /\ pc \in [Threads -> Places]
    BY <1>6 DEF Call, Go, At, disk, Layout, TypeOK
  <2>2. /\ \A d \in declined : d[1] \in Threads /\ d[2] \in 1 .. MaxCalls
        /\ IsTable(db) /\ IsTable(view) /\ MaxCalls \in Nat
    BY TransactionConstants DEF Layout, TypeOK
  <2>3. ASSUME NEW T, IsTable(T), Past(T) PROVE Past(T)'
    <3> SUFFICES ASSUME NEW k \in DOMAIN T, T[k] # Old
                 PROVE  T[k][2] <= calls'[T[k][1]]
      BY <2>3 DEF Past
    <3>1. T[k] \in Threads \X (1 .. MaxCalls) /\ T[k][2] <= calls[T[k][1]]
      BY <2>3 DEF IsTable, Rows, Past
    <3> QED
      BY <2>1, <2>2, <3>1
  <2>4. Past(db)' /\ Past(view)'
    BY <2>1, <2>2, <2>3
  <2>5. Answered'
    BY <2>1, <2>2 DEF Answered
  <2> QED
    BY <2>4, <2>5
<1>7. CASE Crash
  <2>1. \A d \in declined : d[1] \in Threads
    BY DEF Layout, TypeOK
  <2> QED
    BY <1>7, <2>1 DEF Crash, Past, Answered, local
<1>8. CASE UNCHANGED vars
  BY <1>1, <1>8 DEF vars, disk, local
<1> QED
  BY <1>3, <1>4, <1>5, <1>6, <1>7, <1>8 DEF Next, Step

(* What a call writes is counted one row at a time.                        *)
LEMMA Countable ==
  ASSUME NEW T, IsTable(T), NEW t \in Threads
  PROVE  IsFiniteSet(OfCall(T, t)) /\ Cardinality(OfCall(T, t)) \in Nat
<1>1. OfCall(T, t) \in SUBSET Keys
  BY DEF OfCall, IsTable
<1>2. IsFiniteSet(Keys)
  BY TransactionConstants, FS_Interval DEF Keys
<1> QED
  BY <1>1, <1>2, FS_Subset, FS_CardinalityType

LEMMA OneMore ==
  ASSUME NEW T, IsTable(T), NEW t \in Threads, NEW k \in Keys \ DOMAIN T
  PROVE  /\ OfCall(With(T, k, Mine(t)), t) = OfCall(T, t) \cup {k}
         /\ Cardinality(OfCall(T, t) \cup {k}) = Cardinality(OfCall(T, t)) + 1
<1>1. OfCall(With(T, k, Mine(t)), t) = OfCall(T, t) \cup {k} /\ k \notin OfCall(T, t)
  BY DEF OfCall, With
<1> QED
  BY <1>1, Countable, FS_AddElement

LEMMA NoneOfCall == Cardinality({}) = 0
BY FS_EmptySet

(* From the beginning of a call to its transaction.                        *)
LEMMA OpeningOrderly ==
  ASSUME Layout, Transactions, History, NEW t \in Threads, Orderly(t),
         \/ Lock(t) \/ Look(t) \/ Connect(t) \/ NoData(t) \/ Begin(t)
         \/ \E j \in Jobs : Call(t, j)
  PROVE  Orderly(t)'
<1> USE DEF Orderly
<1>1. CASE Lock(t) \/ Look(t) \/ Connect(t)
  <2>1. UNCHANGED <<db, view, declined, calls, job>>
    BY <1>1 DEF Lock, Look, Connect, disk, local
  <2>2. pc[t] \in {"lock", "look", "connect"} /\ pc'[t] \in {"look", "connect", "begin"}
    BY <1>1 DEF Lock, Look, Session, Connect, Go, At, Layout, TypeOK
  <2> QED
    BY <2>1, <2>2 DEF OfCall, Mine, InCall
<1>2. CASE NoData(t)
  <2>1. /\ UNCHANGED <<db, view, calls, job>> /\ declined' = declined \cup {Mine(t)}
        /\ pc[t] = "begin" /\ pc'[t] = "idle" /\ job[t].kind = "nodata"
    BY <1>2 DEF NoData, Go, At, disk, local, Layout, TypeOK
  <2> QED
    BY <2>1 DEF OfCall, Mine, InCall
<1>3. CASE Begin(t)
  <2>1. /\ UNCHANGED <<db, view, calls, declined, job, connection>>
        /\ pc[t] = "begin" /\ job[t].kind # "nodata"
        /\ open' = (open \/ connection = "up")
        /\ connection \in {"up", "broken"}
        /\ job[t].kind \in {"insert", "update", "delete"}
        /\ pc'[t] = CASE job[t].kind = "insert" -> "item"
                      [] job[t].kind = "update" -> "ignore"
                      [] job[t].kind = "delete" -> "delete"
        /\ job[t].kind = "insert" => todo'[t] = job[t].items /\ job[t].items \in Nat
    BY <1>3, JobArguments DEF Begin, Go, At, conn, Layout, TypeOK, OneOpener, JobTypes
  <2>2. OfCall(db, t)' = {} /\ OfCall(view, t)' = {}
    BY <2>1 DEF OfCall, Mine
  <2>3. CASE job[t].kind = "insert"
    <3>1. pc'[t] = "item" /\ todo'[t] = job'[t].items /\ job'[t].items \in Nat
      BY <2>1, <2>3
    <3>2. Cardinality(OfCall(view, t)') + todo'[t] = job'[t].items
      BY <2>2, <3>1, NoneOfCall
    <3>3. IF connection' = "up" THEN Underway(t)' ELSE Shut(t)'
      BY <2>1, <3>1, <3>2 DEF Underway, Shut
    <3> QED
      BY <2>1, <2>2, <3>1, <3>3 DEF InCall
  <2>4. CASE job[t].kind = "update" \/ job[t].kind = "delete"
    BY <2>1, <2>2, <2>4 DEF InCall, Underway, Shut
  <2> QED
    BY <2>1, <2>3, <2>4
<1>4. ASSUME NEW j \in Jobs, Call(t, j) PROVE Orderly(t)'
  <2>1. /\ UNCHANGED <<db, view, declined>> /\ pc'[t] = "lock"
        /\ calls'[t] = calls[t] + 1 /\ calls[t] \in Nat
    BY <1>4, TransactionConstants DEF Call, Go, disk, Layout, TypeOK
  <2>2. ASSUME NEW T, Past(T), NEW k \in DOMAIN T PROVE T[k] # <<t, calls[t] + 1>>
    BY <2>1, <2>2, TransactionConstants DEF Past, Old
  <2>3. OfCall(db, t)' = {} /\ OfCall(view, t)' = {}
    BY <2>1, <2>2 DEF OfCall, Mine, History
  <2>4. ~InCall(t)' /\ pc'[t] # "idle"
    BY <2>1 DEF InCall
  <2>5. /\ \A k \in DOMAIN db' : db'[k] \notin declined'
        /\ \A k \in DOMAIN view' : view'[k] \notin declined'
    BY <2>1
  <2> QED
    BY <2>3, <2>4, <2>5
<1> QED
  BY <1>1, <1>2, <1>3, <1>4

(* The statements of a call, none of which fails but for want of a         *)
(* connection.                                                             *)
LEMMA InsertOrderly ==
  ASSUME Layout, Transactions, History, NEW t \in Threads, Orderly(t),
         "statement" \notin failures,
         Sequence(t) \/ Insert(t) \/ NoItems(t) \/ (Counted(t) /\ job[t].kind = "insert")
  PROVE  Orderly(t)'
<1> USE DEF Orderly
<1>1. /\ UNCHANGED <<db, declined, calls, job, connection>>
      /\ open' = open /\ InCall(t) /\ pc[t] # "idle"
      /\ job[t].kind = "insert" /\ job[t].items \in Nat
      /\ todo \in [Threads -> Nat] /\ pc \in [Threads -> Places]
      /\ connection \in {"up", "broken"}
      /\ connection = "up" => open
  <2>1. InCall(t) /\ pc[t] # "idle" /\ job[t].kind = "insert"
    BY DEF Sequence, Insert, NoItems, Counted, At, InCall, Layout, CallPlace
  <2>2. connection \in {"up", "broken"} /\ (connection = "up" => open)
    BY <2>1 DEF Layout, TypeOK, OneOpener, Underway
  <2>3. UNCHANGED <<db, declined, calls, job, connection, open>>
    BY <2>2 DEF Sequence, Insert, NoItems, Counted, settled, conn, disk, Executed, Fails, Answer,
                Transactions
  <2> QED
    BY <2>1, <2>2, <2>3, JobArguments DEF Layout, TypeOK, JobTypes
<1>2. CASE Sequence(t)
  <2>1. /\ pc[t] = "item" /\ pc'[t] = "insert" /\ UNCHANGED <<view, todo, ret>>
        /\ connection = "up" => number'[t] \notin DOMAIN view
    <3>1. Max(DOMAIN view \cup {0}) + 1 \notin DOMAIN view
      BY <1>2, NumberIsNew DEF Sequence, Layout, TypeOK
    <3> QED
      BY <1>1, <1>2, <3>1 DEF Sequence, At, Go, disk, Layout, TypeOK
  <2>2. OfCall(db, t)' = {} /\ OfCall(view, t)' = OfCall(view, t)
    BY <1>1, <2>1 DEF OfCall, Mine
  <2> QED
    BY <1>1, <2>1, <2>2 DEF InCall, Underway, Shut
<1>3. CASE Insert(t)
  <2>1. CASE connection = "up"
    <3>1. /\ pc[t] = "insert" /\ pc'[t] = "counted" /\ UNCHANGED todo
          /\ number[t] \in Keys \ DOMAIN view /\ changes' = 1
          /\ view' = With(view, number[t], Mine(t))
      BY <1>1, <1>3, <2>1 DEF Insert, Executed, Fails, At, Go, Layout, CallPlace, Underway
    <3>2. /\ OfCall(view, t)' = OfCall(view, t) \cup {number[t]}
          /\ Cardinality(OfCall(view, t)') = Cardinality(OfCall(view, t)) + 1
          /\ Cardinality(OfCall(view, t)) \in Nat
      <4>1. IsTable(view)
        BY DEF Layout, TypeOK
      <4>2. OfCall(view, t)' = OfCall(With(view, number[t], Mine(t)), t)
        BY <1>1, <3>1 DEF OfCall, Mine
      <4>3. /\ OfCall(With(view, number[t], Mine(t)), t) = OfCall(view, t) \cup {number[t]}
            /\ Cardinality(OfCall(view, t) \cup {number[t]})
                 = Cardinality(OfCall(view, t)) + 1
        BY <3>1, <4>1, OneMore
      <4> QED
        BY <4>1, <4>2, <4>3, Countable
    <3>3. Cardinality(OfCall(view, t)) + todo[t] = job[t].items
      BY <1>1, <2>1, <3>1 DEF Underway
    <3>4. \A k \in DOMAIN view' : view'[k] \notin declined
      <4>1. Mine(t) \notin declined
        BY <1>1, TransactionConstants DEF Mine, History, Answered, Layout, TypeOK
      <4> QED
        BY <3>1, <4>1 DEF With
    <3>5. Underway(t)'
      BY <1>1, <2>1, <3>1, <3>2, <3>3 DEF Underway
    <3>6. OfCall(db, t)' = {}
      BY <1>1 DEF OfCall, Mine
    <3> QED
      BY <1>1, <2>1, <3>1, <3>4, <3>5, <3>6
  <2>2. CASE connection = "broken"
    <3>1. /\ pc[t] = "insert" /\ pc'[t] = "item" /\ ret'[t] = 0 /\ UNCHANGED view
      BY <1>1, <1>3, <2>2 DEF Insert, Fails, Answer, At, Go, disk, Layout, TypeOK
    <3>2. OfCall(db, t)' = {}
      BY <1>1 DEF OfCall, Mine
    <3> QED
      BY <1>1, <2>2, <3>1, <3>2 DEF Shut
  <2> QED
    BY <1>1, <2>1, <2>2
<1>4. CASE NoItems(t)
  <2>1. pc[t] = "item" /\ pc'[t] = "end" /\ todo[t] = 0 /\ UNCHANGED <<view, ret>>
    BY <1>1, <1>4 DEF NoItems, At, Go, disk
  <2>2. OfCall(db, t)' = {} /\ OfCall(view, t)' = OfCall(view, t)
    BY <1>1, <2>1 DEF OfCall, Mine
  <2>3. CASE connection = "up"
    <3>1. Cardinality(OfCall(view, t)) \in Nat
      BY Countable DEF Layout, TypeOK
    <3>2. Cardinality(OfCall(view, t)) = job[t].items
      BY <1>1, <2>1, <2>3, <3>1 DEF Underway
    <3>3. Complete(t, view)'
      BY <1>1, <2>1, <3>2 DEF Complete, OfCall, Mine
    <3> QED
      BY <1>1, <2>1, <2>2, <2>3, <3>3 DEF Underway
  <2>4. CASE connection = "broken"
    BY <1>1, <2>1, <2>2, <2>4 DEF Shut
  <2> QED
    BY <1>1, <2>3, <2>4
<1>5. CASE Counted(t)
  <2>1. /\ pc[t] = "counted" /\ pc'[t] = "item" /\ todo'[t] = todo[t] - 1 /\ UNCHANGED view
    BY <1>1, <1>5 DEF Counted, At, Go, disk
  <2>2. OfCall(db, t)' = {} /\ OfCall(view, t)' = OfCall(view, t)
    BY <1>1, <2>1 DEF OfCall, Mine
  <2>3. Cardinality(OfCall(view, t)) \in Nat
    BY Countable DEF Layout, TypeOK
  <2> QED
    BY <1>1, <2>1, <2>2, <2>3 DEF Underway, Shut
<1> QED
  BY <1>2, <1>3, <1>4, <1>5
LEMMA ChangeOrderly ==
  ASSUME Layout, Transactions, History, NEW t \in Threads, Orderly(t),
         "statement" \notin failures,
         \/ InsertOrIgnore(t) \/ Ignored(t) \/ Update(t) \/ Delete(t)
         \/ Counted(t) /\ job[t].kind # "insert"
  PROVE  Orderly(t)'
<1> USE DEF Orderly
<1> DEFINE k == job[t].key
<1>1. /\ UNCHANGED <<db, declined, calls, job, connection>>
      /\ open' = open /\ InCall(t) /\ pc[t] # "idle"
      /\ job[t].kind \in {"update", "delete"} /\ k \in Keys
      /\ pc \in [Threads -> Places]
      /\ connection \in {"up", "broken"}
      /\ connection = "up" => open
  <2>1. InCall(t) /\ pc[t] # "idle" /\ job[t].kind \in {"update", "delete"} /\ k \in Keys
    BY JobArguments
       DEF InsertOrIgnore, Ignored, Update, Delete, Counted, At, InCall, Layout, CallPlace
  <2>2. connection \in {"up", "broken"} /\ (connection = "up" => open)
    BY <2>1 DEF Layout, TypeOK, OneOpener, Underway
  <2>3. UNCHANGED <<db, declined, calls, job, connection, open>>
    BY <2>2 DEF InsertOrIgnore, Ignored, Update, Delete, Counted, settled, conn, disk, Executed,
                Fails, Answer, Transactions
  <2> QED
    BY <2>1, <2>2, <2>3 DEF Layout, TypeOK
<1>2. OfCall(db, t)' = {}
  BY <1>1 DEF OfCall, Mine
<1>3. /\ \A i \in DOMAIN With(view, k, Mine(t)) : With(view, k, Mine(t))[i] \notin declined
      /\ \A i \in DOMAIN Without(view, k) : Without(view, k)[i] \notin declined
  <2>1. Mine(t) \notin declined
    BY <1>1, TransactionConstants DEF Mine, History, Answered, Layout, TypeOK
  <2> QED
    BY <2>1 DEF With, Without
<1> HIDE DEF k
<1>4. CASE connection = "broken"
  <2>1. (InsertOrIgnore(t) \/ Delete(t)) /\ ret'[t] = 0 /\ pc'[t] = "end" /\ UNCHANGED view
    BY <1>1, <1>4 DEF InsertOrIgnore, Ignored, Update, Delete, Counted, Fails, Answer, At, Go,
                      disk, Shut, Layout, TypeOK
  <2> QED
    BY <1>1, <1>2, <1>4, <2>1 DEF Shut
<1>5. CASE connection = "up"
  <2> USE <1>5
  <2>1. ASSUME pc'[t] \in {"ignored", "update", "counted", "end"}, Underway(t)',
               view' \in {view, With(view, k, Mine(t)), Without(view, k)}
        PROVE  Orderly(t)'
    BY <1>1, <1>2, <1>3, <2>1
  <2>2. CASE InsertOrIgnore(t)
    <3>1. pc'[t] = "ignored" /\ pc[t] = "ignore" /\ job[t].kind = "update"
      BY <1>1, <2>2 DEF InsertOrIgnore, Fails, At, Go, Layout, CallPlace
    <3>2. \/ k \in DOMAIN view /\ view' = view /\ changes' = 0
          \/ view' = With(view, k, Mine(t)) /\ changes' = 1
      BY <1>1, <2>2 DEF InsertOrIgnore, Executed, Fails, k
    <3>3. changes' # 0 => Complete(t, view)'
      BY <1>1, <3>1, <3>2 DEF Complete, With, Mine, k
    <3>4. Underway(t)'
      BY <1>1, <3>1, <3>2, <3>3 DEF Underway, k
    <3> QED
      BY <2>1, <3>1, <3>2, <3>4
  <2>3. CASE Ignored(t)
    <3>1. /\ pc[t] = "ignored" /\ UNCHANGED <<view, changes>>
          /\ IF changes = 0 THEN pc'[t] = "update" ELSE pc'[t] = "end"
      BY <1>1, <2>3 DEF Ignored, At, Go, disk
    <3>2. changes # 0 => Complete(t, view)'
      BY <1>1, <3>1 DEF Complete, Mine, Underway
    <3>3. Underway(t)'
      BY <1>1, <3>1, <3>2 DEF Underway
    <3> QED
      BY <2>1, <3>1, <3>3
  <2>4. CASE Update(t)
    <3>1. /\ pc[t] = "update" /\ pc'[t] = "counted" /\ k \in DOMAIN view
          /\ job[t].kind = "update" /\ view' = With(view, k, Mine(t))
      BY <1>1, <2>4 DEF Update, Executed, Fails, At, Go, Underway, Layout, CallPlace, k
    <3>2. Complete(t, view)'
      BY <1>1, <3>1 DEF Complete, With, Mine, k
    <3>3. Underway(t)'
      BY <1>1, <3>1, <3>2 DEF Underway
    <3> QED
      BY <2>1, <3>1, <3>3
  <2>5. CASE Delete(t)
    <3>1. /\ pc'[t] = "counted" /\ job[t].kind = "delete" /\ view' = Without(view, k)
      BY <1>1, <2>5 DEF Delete, Executed, Fails, At, Go, Layout, CallPlace, k
    <3>2. Complete(t, view)'
      BY <1>1, <3>1 DEF Complete, Without, k
    <3>3. Underway(t)'
      BY <1>1, <3>1, <3>2 DEF Underway
    <3> QED
      BY <2>1, <3>1, <3>3
  <2>6. CASE Counted(t)
    <3>1. pc[t] = "counted" /\ pc'[t] = "end" /\ UNCHANGED view
      BY <1>1, <2>6 DEF Counted, At, Go, disk
    <3>2. Complete(t, view)'
      BY <1>1, <3>1 DEF Complete, Mine, Underway
    <3>3. Underway(t)'
      BY <1>1, <3>1, <3>2 DEF Underway
    <3> QED
      BY <2>1, <3>1, <3>3
  <2> QED
    BY <2>2, <2>3, <2>4, <2>5, <2>6
<1> QED
  BY <1>1, <1>4, <1>5

(* The end of a call, and the end of the process.                          *)
LEMMA EndOrderly ==
  ASSUME Layout, Transactions, History, NEW t \in Threads, Orderly(t), End(t)
  PROVE  Orderly(t)'
<1> USE DEF Orderly
<1>1. /\ UNCHANGED <<calls, job, connection>> /\ pc[t] = "end" /\ pc'[t] = "idle"
      /\ InCall(t) /\ OfCall(db, t) = {} /\ job[t].kind # "nodata"
      /\ connection \in {"up", "broken"}
  BY DEF End, Close, At, Go, conn, local, InCall, Layout, TypeOK, OneOpener, CallPlace
<1>2. CASE ret[t] # 0 /\ open /\ db' = view /\ view' = view
  <2>1. declined' = declined /\ connection = "up"
    BY <1>2 DEF End, Close, Transactions
  <2>2. Complete(t, view)
    BY <1>1, <2>1 DEF Underway
  <2>3. job[t].kind = "insert" => Cardinality(OfCall(db, t)') = job'[t].items
    BY <1>1, <1>2, <2>2 DEF Complete, OfCall, Mine
  <2> QED
    BY <1>1, <1>2, <2>1, <2>3 DEF InCall
<1>3. CASE db' = db /\ view' \in {db, view} /\ declined' \subseteq declined \cup {Mine(t)}
           /\ (declined' = declined \/ view' = db)
  <2>1. OfCall(db, t)' = {}
    BY <1>1, <1>3 DEF OfCall, Mine
  <2>2. \A i \in DOMAIN db : db[i] # Mine(t)
    BY <1>1 DEF OfCall
  <2>3. /\ \A i \in DOMAIN db' : db'[i] \notin declined'
        /\ \A i \in DOMAIN view' : view'[i] \notin declined'
    BY <1>3, <2>2
  <2> QED
    BY <1>1, <2>1, <2>3, NoneOfCall DEF InCall
<1>4. \/ ret[t] # 0 /\ open /\ db' = view /\ view' = view
      \/ /\ db' = db /\ view' \in {db, view} /\ declined' \subseteq declined \cup {Mine(t)}
         /\ (declined' = declined \/ view' = db)
  BY DEF End, Close, Commit, Rollback, disk, Transactions
<1> QED
  BY <1>2, <1>3, <1>4

LEMMA CrashOrderly ==
  ASSUME Layout, NEW t \in Threads, Orderly(t), Crash
  PROVE  Orderly(t)'
<1>1. /\ UNCHANGED <<db, calls, job, declined>> /\ view' = db /\ pc'[t] = "idle"
  BY DEF Crash, local
<1>2. OfCall(db, t)' = OfCall(db, t)
  BY <1>1 DEF OfCall, Mine
<1> QED
  BY <1>1, <1>2, NoneOfCall DEF Orderly, InCall

(* Who calls alone is the only one who makes a step.                       *)
LEMMA Lonely ==
  ASSUME Layout, Alone
  PROVE  \E u \in Threads : users = {u}
<1>1. users \in SUBSET Threads
  BY TransactionConstants DEF Layout, TypeOK
<1>2. IsFiniteSet(users)
  BY <1>1, TransactionConstants, FS_Subset
<1> QED
  BY <1>1, <1>2, FS_Singleton DEF Alone

LEMMA Steps ==
  ASSUME Layout, NEW t \in Threads, Step(t) \/ \E j \in Jobs : Call(t, j)
  PROVE  t \in users
BY DEF Step, Lock, Look, Connect, NoData, Begin, Sequence, Insert, NoItems, InsertOrIgnore,
       Ignored, Update, Delete, Counted, End, Call, At, Layout, CallPlace

LEMMA UsersStay == ASSUME [Next]_vars PROVE UNCHANGED fixed
<1>1. ASSUME NEW t \in Threads, Step(t) PROVE UNCHANGED fixed
  <2>1. CASE Lock(t) \/ Look(t) \/ Connect(t) \/ NoData(t) \/ Begin(t)
    BY <2>1 DEF Lock, Look, Connect, NoData, Begin, conn
  <2>2. CASE \/ Sequence(t) \/ Insert(t) \/ NoItems(t) \/ InsertOrIgnore(t) \/ Ignored(t)
             \/ Update(t) \/ Delete(t) \/ Counted(t)
    BY <2>2 DEF Sequence, Insert, NoItems, InsertOrIgnore, Ignored, Update, Delete, Counted,
                settled, conn
  <2>3. CASE End(t)
    BY <2>3 DEF End, Close, conn
  <2> QED
    BY <1>1, <2>1, <2>2, <2>3 DEF Step
<1>2. ASSUME NEW t \in Threads, NEW j \in Jobs, Call(t, j) PROVE UNCHANGED fixed
  BY <1>2 DEF Call, conn
<1>3. CASE Crash \/ UNCHANGED vars
  BY <1>3 DEF Crash, vars, conn
<1> QED
  BY <1>1, <1>2, <1>3 DEF Next

LEMMA AloneStarts == Init => AloneInv
<1> SUFFICES ASSUME Init PROVE AloneInv
  OBVIOUS
<1>1. Layout /\ Transactions
  BY LayoutStarts DEF Init, Transactions
<1>2. History
  BY DEF Init, History, Past, Answered
<1>3. ASSUME NEW t \in users PROVE Orderly(t)
  <2>1. t \in Threads
    BY <1>1, TransactionConstants DEF Layout, TypeOK
  <2> QED
    BY <2>1 DEF Init, Orderly, InCall
<1> QED
  BY <1>1, <1>2, <1>3 DEF AloneInv

LEMMA AloneSteps == AloneInv /\ [Next]_vars => AloneInv'
<1> SUFFICES ASSUME AloneInv, [Next]_vars PROVE AloneInv'
  OBVIOUS
<1> USE DEF AloneInv
<1>1. Layout' /\ Transactions' /\ History' /\ UNCHANGED fixed
  BY LayoutSteps, TransactionSteps, HistorySteps, UsersStay
<1>2. ASSUME Calm PROVE \A t \in users : Orderly(t)'
  <2>1. PICK u \in Threads : users = {u}
    BY <1>2, Lonely DEF Calm
  <2>2. Orderly(u) /\ "statement" \notin failures
    BY <1>2, <2>1 DEF Calm
  <2>3. ASSUME NEW t \in Threads, Step(t) \/ \E j \in Jobs : Call(t, j) PROVE t = u
    BY <2>1, <2>3, Steps
  <2>4. ASSUME Step(u) PROVE Orderly(u)'
    BY <2>2, <2>4, OpeningOrderly, InsertOrderly, ChangeOrderly, EndOrderly DEF Step
  <2>5. ASSUME NEW j \in Jobs, Call(u, j) PROVE Orderly(u)'
    BY <2>2, <2>5, OpeningOrderly
  <2>6. ASSUME Crash PROVE Orderly(u)'
    BY <2>2, <2>6, CrashOrderly
  <2>7. ASSUME UNCHANGED vars PROVE Orderly(u)'
    BY <2>2, <2>7 DEF vars, conn, disk, local, Orderly, OfCall, Mine, InCall, Underway, Shut,
                      Complete
  <2>8. Orderly(u)'
    BY <2>3, <2>4, <2>5, <2>6, <2>7 DEF Next
  <2> QED
    BY <2>1, <2>8
<1>3. Calm' => Calm
  BY <1>1 DEF Calm, Alone, fixed
<1>4. ASSUME Calm' PROVE \A t \in users' : Orderly(t)'
  BY <1>1, <1>2, <1>3, <1>4 DEF fixed
<1> QED
  BY <1>1, <1>4

(* For a thread that calls alone the table on disk has all the rows of an  *)
(* insert or none, and nothing of a call that was answered with FALSE, at  *)
(* any time: also after a crash, a failed COMMIT and a database that could *)
(* not be opened, whatever it asks for and however large the insert is.    *)
THEOREM AllOrNothingAlone == Spec => []AllOrNothing
<1>1. AloneInv => AllOrNothing
  <2> SUFFICES ASSUME AloneInv, Alone, "statement" \notin failures
               PROVE  /\ \A k \in DOMAIN db : db[k] \notin declined
                      /\ \A t \in users : job[t].kind = "insert" =>
                           Written(t) \in {0, job[t].items}
    BY DEF AllOrNothing
  <2>1. PICK u \in Threads : users = {u}
    BY Lonely DEF AloneInv
  <2>2. Orderly(u)
    BY <2>1 DEF AloneInv, Calm
  <2>3. Written(u) = Cardinality(OfCall(db, u))
    BY DEF Written, OfCall
  <2> QED
    BY <2>1, <2>2, <2>3, NoneOfCall DEF Orderly
<1> QED
  BY <1>1, AloneStarts, AloneSteps, PTL DEF Spec

(* And when it is answered with TRUE, all it asked for is on disk, unless  *)
(* a statement or the COMMIT failed.                                       *)
THEOREM TrueIsCompleteAlone == Spec => CalmIsComplete
<1> DEFINE Keeps ==
      \A t \in Threads :
        (AnswersTrue(t) /\ Alone /\ failures \subseteq {"connect", "crash"}) => Complete(t, db')
<1>1. AloneInv /\ [Next]_vars => [Keeps]_vars
  <2> SUFFICES ASSUME AloneInv, [Next]_vars, NEW t \in Threads, AnswersTrue(t), Alone,
                      failures \subseteq {"connect", "crash"}
               PROVE  Complete(t, db')
    OBVIOUS
  <2> USE DEF AloneInv
  <2>1. /\ pc[t] = "end" /\ pc'[t] = "idle" /\ ret[t] # 0 /\ connection' # "none"
        /\ "commit" \notin failures /\ "statement" \notin failures
    BY DEF AnswersTrue, At
  <2>2. users = {t} /\ Orderly(t) /\ InCall(t)
    <3>1. t \in users /\ InCall(t)
      BY <2>1 DEF Layout, CallPlace, InCall
    <3> QED
      BY <2>1, <3>1, Lonely DEF Calm
  <2>3. End(t)
    <3>1. ~Crash /\ ~UNCHANGED vars
      BY <2>1 DEF Crash, vars
    <3>2. \A j \in Jobs : ~Call(t, j)
      BY <2>1 DEF Call, At
    <3>3. Step(t)
      BY <2>2, <3>1, <3>2, Steps DEF Next
    <3> QED
      BY <2>1, <3>3 DEF Step, Lock, Look, Connect, NoData, Begin, Sequence, Insert, NoItems,
                        InsertOrIgnore, Ignored, Update, Delete, Counted, At
  <2>4. /\ IF open THEN db' = view ELSE db' = db
        /\ connection \in {"up", "broken"} /\ job[t].kind # "nodata"
    BY <2>1, <2>2, <2>3 DEF End, Commit, disk, Layout, TypeOK, OneOpener, CallPlace
  <2>5. CASE connection = "up"
    BY <2>1, <2>2, <2>4, <2>5 DEF Orderly, Underway
  <2>6. CASE connection = "broken"
    <3>1. db' = db /\ OfCall(db, t) = {} /\ job[t].kind = "insert" /\ job[t].items = 0
      BY <2>1, <2>2, <2>4, <2>6 DEF Orderly, Shut, Transactions
    <3> QED
      BY <3>1, NoneOfCall DEF Complete, OfCall
  <2> QED
    BY <2>4, <2>5, <2>6
<1> QED
  BY <1>1, AloneStarts, AloneSteps, PTL DEF Spec, CalmIsComplete
==============================================================================
