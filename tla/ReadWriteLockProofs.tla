------------------------- MODULE ReadWriteLockProofs -------------------------
(***************************************************************************)
(* Proofs about EcReadWriteLock for any finite set of threads and any      *)
(* depth of nested reading.  The inductive invariant IInv says what each   *)
(* mutex is held for; the counting lemmas connect the counter of the code  *)
(* to the read locks that the threads hold.                                *)
(***************************************************************************)
EXTENDS ReadWriteLock, FiniteSetTheorems, TLAPS

USE LockConstants

Depths == [Threads -> 0..MaxNest]

(* There are finitely many read locks.                                     *)
LEMMA HeldFinite ==
  ASSUME NEW depth \in Depths
  PROVE  IsFiniteSet(HeldBy(depth)) /\ Cardinality(HeldBy(depth)) \in Nat
<1>1. IsFiniteSet(1..MaxNest)
  BY FS_Interval
<1>2. IsFiniteSet(Threads \X (1..MaxNest))
  BY <1>1, FS_Product
<1>3. HeldBy(depth) \in SUBSET (Threads \X (1..MaxNest))
  BY DEF HeldBy
<1>4. IsFiniteSet(HeldBy(depth))
  BY <1>2, <1>3, FS_Subset
<1> QED
  BY <1>4, FS_CardinalityType

(* One more read lock counts one more.                                     *)
LEMMA HeldOneMore ==
  ASSUME NEW depth \in Depths, NEW t \in Threads, depth[t] < MaxNest
  PROVE  LET deeper == [depth EXCEPT ![t] = depth[t] + 1]
         IN  /\ deeper \in Depths
             /\ Cardinality(HeldBy(deeper)) = Cardinality(HeldBy(depth)) + 1
<1> DEFINE deeper == [depth EXCEPT ![t] = depth[t] + 1]
           pair == <<t, depth[t] + 1>>
<1>1. deeper \in Depths
  BY DEF Depths
<1>2. pair \in Threads \X (1..MaxNest) /\ pair \notin HeldBy(depth)
  BY DEF HeldBy, Depths
<1>3. HeldBy(deeper) = HeldBy(depth) \cup {pair}
  BY <1>2 DEF HeldBy, Depths
<1>4. Cardinality(HeldBy(depth) \cup {pair}) = Cardinality(HeldBy(depth)) + 1
  BY <1>2, HeldFinite, FS_AddElement
<1> QED
  BY <1>1, <1>3, <1>4

(* One read lock less counts one less.                                     *)
LEMMA HeldOneLess ==
  ASSUME NEW depth \in Depths, NEW t \in Threads, depth[t] > 0
  PROVE  LET less == [depth EXCEPT ![t] = depth[t] - 1]
         IN  /\ less \in Depths
             /\ Cardinality(HeldBy(less)) = Cardinality(HeldBy(depth)) - 1
<1> DEFINE less == [depth EXCEPT ![t] = depth[t] - 1]
           pair == <<t, depth[t]>>
<1>1. less \in Depths
  BY DEF Depths
<1>2. pair \in HeldBy(depth)
  BY DEF HeldBy, Depths
<1>3. HeldBy(less) = HeldBy(depth) \ {pair}
  BY <1>2 DEF HeldBy, Depths
<1>4. Cardinality(HeldBy(depth) \ {pair}) = Cardinality(HeldBy(depth)) - 1
  BY <1>2, HeldFinite, FS_RemoveElement
<1> QED
  BY <1>1, <1>3, <1>4

(* The counter is zero exactly when nobody reads.                          *)
LEMMA HeldNone ==
  ASSUME NEW depth \in Depths
  PROVE  Cardinality(HeldBy(depth)) = 0 <=> \A t \in Threads : depth[t] = 0
<1>1. Cardinality(HeldBy(depth)) = 0 <=> HeldBy(depth) = {}
  BY HeldFinite, FS_EmptySet
<1>2. ASSUME HeldBy(depth) = {}, NEW t \in Threads
      PROVE  depth[t] = 0
  <2>1. <<t, 1>> \in Threads \X (1..MaxNest)
    OBVIOUS
  <2>2. ~(1 <= depth[t])
    BY <1>2, <2>1 DEF HeldBy
  <2> QED
    BY <2>2 DEF Depths
<1>3. ASSUME \A t \in Threads : depth[t] = 0
      PROVE  HeldBy(depth) = {}
  BY <1>3 DEF HeldBy
<1> QED
  BY <1>1, <1>2, <1>3

-----------------------------------------------------------------------------
(* What the counter says about the readers, and the lock about the writers.*)
LEMMA CounterZero ==
  ASSUME IInv
  PROVE  /\ counter = 0 <=> \A t \in Threads : nest[t] = 0
         /\ \A t \in Threads : nest[t] > 0 => counter > 0
<1>1. nest \in Depths
  BY DEF IInv, TypeOK, Depths
<1>2. counter = 0 <=> \A t \in Threads : nest[t] = 0
  BY <1>1, HeldNone DEF IInv, CounterCounts, Held
<1> QED
  BY <1>2 DEF IInv, TypeOK

(* The only reader: when the counter is one, every read lock is the same.  *)
LEMMA CounterOne ==
  ASSUME IInv, counter = 1, NEW t \in Threads, nest[t] > 0
  PROVE  nest[t] = 1 /\ \A u \in Threads \ {t} : nest[u] = 0
<1> DEFINE less == [nest EXCEPT ![t] = nest[t] - 1]
<1>1. nest \in Depths
  BY DEF IInv, TypeOK, Depths
<1>2. less \in Depths /\ Cardinality(HeldBy(less)) = Cardinality(Held) - 1
  BY <1>1, HeldOneLess DEF Held
<1>3. Cardinality(HeldBy(less)) = 0
  BY <1>2 DEF IInv, CounterCounts
<1>4. \A u \in Threads : less[u] = 0
  BY <1>2, <1>3, HeldNone
<1> QED
  BY <1>1, <1>4 DEF Depths

(* The invariant implies the properties.                                   *)
LEMMA InvariantExcludes ==
  ASSUME IInv
  PROVE  Exclusion /\ ReaderNeverBlocked
<1>1. ASSUME NEW t \in writing
      PROVE  writing = {t} /\ \A u \in Threads : nest[u] = 0
  <2>1. counter = 0 /\ writing = {t}
    BY <1>1 DEF IInv, TypeOK, WHeldFor
  <2> QED
    BY <2>1, CounterZero
<1>2. ASSUME NEW t \in Threads, NEW u \in Threads, nest[t] > 0
      PROVE  pc[u] \notin {"readFirst", "firstWait"}
  <2>1. counter > 0
    BY <1>2, CounterZero
  <2> QED
    BY <2>1 DEF IInv, WaitsWithoutReaders
<1> QED
  BY <1>1, <1>2 DEF Exclusion, ReaderNeverBlocked

-----------------------------------------------------------------------------
(* A call changes nothing but where its thread is, and asks for what the   *)
(* thread may ask for.                                                     *)
LEMMA CallKeeps ==
  ASSUME IInv, NEW t \in Threads, Call(t)
  PROVE  IInv'
<1>1. PICK to \in {"read", "unread", "write", "first", "last"} :
        /\ Move(t, "idle", to)
        /\ to \in {"unread", "last"} => nest[t] > 0
        /\ to \in {"read", "first"} => nest[t] < MaxNest
        /\ to \in {"read", "write", "first"} => t \notin writing
        /\ UNCHANGED <<mutex_r, mutex_w, counter, nest, writing>>
  BY DEF Call, CallRead, CallUnread, CallWrite, CallFirst, CallLast
<1>2. t \notin writing
  BY <1>1, InvariantExcludes DEF Exclusion
<1>3. TypeOK'
  BY <1>1 DEF IInv, TypeOK, Locations, Move
<1>4. ROwned'
  BY <1>1 DEF IInv, TypeOK, ROwned, InsideR, Locations, Move
<1>5. Releasing' = Releasing
  BY <1>1 DEF IInv, TypeOK, Releasing, Move
<1>6. WHeldFor' /\ WaitsWithoutReaders'
  BY <1>1, <1>5 DEF IInv, TypeOK, WHeldFor, WaitsWithoutReaders, Move
<1>7. CounterCounts'
  BY <1>1 DEF IInv, CounterCounts, Held
<1>8. Contract'
  BY <1>1, <1>2 DEF IInv, TypeOK, Contract, Move
<1> QED
  BY <1>3, <1>4, <1>6, <1>7, <1>8 DEF IInv

(* mutex_r changes hands, or its owner goes from one place to another.     *)
LEMMA MutexRKeeps ==
  ASSUME IInv, NEW t \in Threads,
         \/ EnterR(t)
         \/ ReadFirst(t) \/ FirstWait(t)
         \/ ReadLeave(t) \/ UnreadLeave(t) \/ FirstLeave(t) \/ LastLeave(t)
  PROVE  IInv'
<1>1. PICK from \in Locations, to \in Locations :
        /\ Move(t, from, to)
        /\ \/ <<from, to>> \in {<<"read", "readIn">>, <<"unread", "unreadIn">>,
                                <<"first", "firstIn">>, <<"last", "lastIn">>}
              /\ mutex_r = Nobody /\ mutex_r' = t
           \/ <<from, to>> \in {<<"readIn", "readFirst">>, <<"firstIn", "firstWait">>}
              /\ counter = 0 /\ mutex_r' = mutex_r
           \/ from \in {"readLeave", "unreadLeave", "firstLeave", "lastLeave"}
              /\ to = "idle" /\ mutex_r' = Nobody
        /\ UNCHANGED <<mutex_w, counter, nest, writing>>
  BY DEF EnterR, ReadEnter, UnreadEnter, FirstEnter, LastEnter, LockR, ReadFirst,
         FirstWait, ReadLeave, UnreadLeave, FirstLeave, LastLeave, UnlockR, Locations
<1>2. TypeOK'
  BY <1>1 DEF IInv, TypeOK, Move
<1>3. ROwned'
  BY <1>1 DEF IInv, TypeOK, ROwned, InsideR, Locations, Move
<1>4. Releasing' = Releasing
  BY <1>1 DEF IInv, TypeOK, Releasing, Move
<1>5. WHeldFor' /\ WaitsWithoutReaders'
  BY <1>1, <1>4 DEF IInv, TypeOK, WHeldFor, WaitsWithoutReaders, Move
<1>6. CounterCounts'
  BY <1>1 DEF IInv, CounterCounts, Held
<1>7. Contract'
  BY <1>1 DEF IInv, TypeOK, Contract, Move
<1> QED
  BY <1>2, <1>3, <1>5, <1>6, <1>7 DEF IInv

(* A reader is counted, under mutex_r: no other thread waits for mutex_w   *)
(* there.  The first one finds mutex_w free, so nobody writes.             *)
LEMMA CountUpKeeps ==
  ASSUME IInv, NEW t \in Threads, ReadMore(t) \/ FirstMore(t) \/ ReadLockW(t)
  PROVE  IInv'
<1>1. PICK from \in {"readIn", "firstIn", "readFirst"}, to \in {"readLeave", "firstLeave"} :
        /\ Move(t, from, to)
        /\ IF from = "readFirst" THEN mutex_w = "free" /\ mutex_w' = "locked"
                                 ELSE counter # 0 /\ mutex_w' = mutex_w
        /\ counter' = counter + 1
        /\ nest' = [nest EXCEPT ![t] = nest[t] + 1]
        /\ UNCHANGED <<mutex_r, writing>>
  BY DEF ReadMore, FirstMore, ReadLockW
<1>2. nest[t] < MaxNest /\ nest \in Depths
  BY <1>1 DEF IInv, TypeOK, Contract, Move, Depths
<1>3. nest' \in Depths /\ Cardinality(HeldBy(nest')) = Cardinality(HeldBy(nest)) + 1
  BY <1>1, <1>2, HeldOneMore
<1>4. TypeOK'
  BY <1>1, <1>3 DEF IInv, TypeOK, Locations, Move, Depths
<1>5. ROwned'
  BY <1>1 DEF IInv, TypeOK, ROwned, InsideR, Locations, Move
<1>6. ~Releasing /\ ~Releasing'
  BY <1>1 DEF IInv, TypeOK, ROwned, InsideR, Locations, Releasing, Move
<1>7. WHeldFor'
  BY <1>1, <1>6 DEF IInv, TypeOK, WHeldFor
<1>8. CounterCounts'
  BY <1>1, <1>3 DEF IInv, CounterCounts, Held
<1>9. WaitsWithoutReaders'
  BY <1>1 DEF IInv, TypeOK, ROwned, InsideR, Locations, WaitsWithoutReaders, Move
<1>10. Contract'
  BY <1>1 DEF IInv, TypeOK, ROwned, InsideR, Locations, Contract, Move
<1> QED
  BY <1>4, <1>5, <1>7, <1>8, <1>9, <1>10 DEF IInv

(* A reader leaves, under mutex_r.  The last one has mutex_w to unlock, or *)
(* to write under.                                                         *)
LEMMA CountDownKeeps ==
  ASSUME IInv, NEW t \in Threads, UnreadCount(t) \/ LastCount(t)
  PROVE  IInv'
<1>1. PICK from \in {"unreadIn", "lastIn"} :
        /\ Move(t, from, IF from = "lastIn" THEN "lastLeave"
                         ELSE IF counter = 1 THEN "unreadLast" ELSE "unreadLeave")
        /\ counter' = counter - 1
        /\ nest' = [nest EXCEPT ![t] = nest[t] - 1]
        /\ writing' = IF from = "lastIn" /\ counter = 1 THEN writing \cup {t} ELSE writing
        /\ UNCHANGED <<mutex_r, mutex_w>>
  BY DEF UnreadCount, LastCount
<1>2. nest[t] > 0 /\ nest \in Depths
  BY <1>1 DEF IInv, TypeOK, Contract, Move, Depths
<1>3. nest' \in Depths /\ Cardinality(HeldBy(nest')) = Cardinality(HeldBy(nest)) - 1
  BY <1>1, <1>2, HeldOneLess
<1>4. counter > 0
  BY <1>2, CounterZero
<1>5. writing = {} /\ ~Releasing /\ mutex_w = "locked"
  BY <1>4 DEF IInv, TypeOK, WHeldFor
<1>6. TypeOK'
  BY <1>1, <1>3, <1>4 DEF IInv, TypeOK, Locations, Move, Depths
<1>7. ROwned'
  BY <1>1 DEF IInv, TypeOK, ROwned, InsideR, Locations, Move
<1>8. Releasing' <=> from = "unreadIn" /\ counter = 1
  BY <1>1, <1>5 DEF IInv, TypeOK, Releasing, Move
<1>9. WHeldFor'
  <2>1. CASE counter = 1
    BY <1>1, <1>5, <1>8, <2>1 DEF WHeldFor
  <2>2. CASE counter # 1
    BY <1>1, <1>4, <1>5, <1>8, <2>2 DEF IInv, TypeOK, WHeldFor
  <2> QED
    BY <2>1, <2>2
<1>10. CounterCounts'
  BY <1>1, <1>3 DEF IInv, CounterCounts, Held
<1>11. WaitsWithoutReaders'
  BY <1>1 DEF IInv, TypeOK, ROwned, InsideR, Locations, WaitsWithoutReaders, Move
<1>12. Contract'
  BY <1>1, <1>5 DEF IInv, TypeOK, ROwned, InsideR, Locations, Contract, Move
<1> QED
  BY <1>6, <1>7, <1>9, <1>10, <1>11, <1>12 DEF IInv

(* A thread becomes the writer: mutex_w was free, so nobody reads, writes  *)
(* or is about to unlock it.                                               *)
LEMMA BeginWriteKeeps ==
  ASSUME IInv, NEW t \in Threads, LockWrite(t) \/ FirstLockW(t)
  PROVE  IInv'
<1>1. PICK from \in {"write", "firstWait"} :
        /\ Move(t, from, IF from = "write" THEN "idle" ELSE "firstLeave")
        /\ mutex_w = "free"
        /\ mutex_w' = "locked"
        /\ writing' = writing \cup {t}
        /\ UNCHANGED <<mutex_r, counter, nest>>
  BY DEF LockWrite, FirstLockW
<1>2. writing = {} /\ ~Releasing /\ counter = 0
  BY <1>1 DEF IInv, TypeOK, WHeldFor
<1>3. TypeOK'
  BY <1>1 DEF IInv, TypeOK, Locations, Move
<1>4. ROwned'
  BY <1>1 DEF IInv, TypeOK, ROwned, InsideR, Locations, Move
<1>5. ~Releasing'
  BY <1>1, <1>2 DEF IInv, TypeOK, Releasing, Move
<1>6. WHeldFor'
  BY <1>1, <1>2, <1>5 DEF WHeldFor
<1>7. CounterCounts'
  BY <1>1 DEF IInv, CounterCounts, Held
<1>8. WaitsWithoutReaders'
  BY <1>1 DEF IInv, TypeOK, WaitsWithoutReaders, Move
<1>9. Contract'
  BY <1>1, <1>2 DEF IInv, TypeOK, Contract, Move
<1> QED
  BY <1>3, <1>4, <1>6, <1>7, <1>8, <1>9 DEF IInv

(* mutex_w is unlocked, by the writer or by the last reader.               *)
LEMMA UnlockWKeeps ==
  ASSUME IInv, NEW t \in Threads, UnlockWrite(t) \/ UnreadUnlockW(t)
  PROVE  IInv'
<1>1. CASE UnlockWrite(t)
  <2>1. writing = {t} /\ counter = 0 /\ ~Releasing
    BY <1>1 DEF IInv, TypeOK, WHeldFor, UnlockWrite
  <2>2. writing' = {} /\ mutex_w' = "free" /\ ~Releasing' /\ counter' = 0
    BY <1>1, <2>1 DEF UnlockWrite, Releasing
  <2>3. TypeOK' /\ WHeldFor'
    BY <1>1, <2>2 DEF IInv, TypeOK, WHeldFor, UnlockWrite
  <2>4. ROwned' /\ WaitsWithoutReaders' /\ Contract'
    BY <1>1, <2>2 DEF IInv, ROwned, WaitsWithoutReaders, Contract, UnlockWrite
  <2>5. CounterCounts'
    BY <1>1 DEF IInv, CounterCounts, Held, UnlockWrite
  <2> QED
    BY <2>3, <2>4, <2>5 DEF IInv
<1>2. CASE UnreadUnlockW(t)
  <2> USE DEF UnreadUnlockW, Move
  <2>1. writing = {} /\ counter = 0
    BY <1>2 DEF IInv, TypeOK, WHeldFor, Releasing
  <2>2. ~Releasing'
    BY <1>2 DEF IInv, TypeOK, ROwned, InsideR, Locations, Releasing
  <2>3. TypeOK' /\ WHeldFor'
    BY <1>2, <2>1, <2>2 DEF IInv, TypeOK, WHeldFor, Locations
  <2>4. ROwned'
    BY <1>2 DEF IInv, TypeOK, ROwned, InsideR, Locations
  <2>5. WaitsWithoutReaders' /\ Contract'
    BY <1>2, <2>1 DEF IInv, TypeOK, WaitsWithoutReaders, Contract
  <2>6. CounterCounts'
    BY <1>2 DEF IInv, CounterCounts, Held
  <2> QED
    BY <2>3, <2>4, <2>5, <2>6 DEF IInv
<1> QED
  BY <1>1, <1>2

-----------------------------------------------------------------------------
(* The invariant holds in every reachable state.                           *)
LEMMA InitInvariant == Init => IInv
<1> SUFFICES ASSUME Init
             PROVE  IInv
  OBVIOUS
<1> USE DEF Init
<1>1. TypeOK
  BY DEF TypeOK, Locations
<1>2. ROwned /\ WaitsWithoutReaders /\ Contract
  BY DEF ROwned, InsideR, Locations, WaitsWithoutReaders, Contract
<1>3. WHeldFor
  BY DEF WHeldFor, Releasing
<1>4. CounterCounts
  <2>1. nest \in Depths /\ \A t \in Threads : nest[t] = 0
    BY DEF Depths
  <2> QED
    BY <2>1, HeldNone DEF CounterCounts, Held
<1> QED
  BY <1>1, <1>2, <1>3, <1>4 DEF IInv

LEMMA NextKeeps == IInv /\ [Next]_vars => IInv'
<1> SUFFICES ASSUME IInv, [Next]_vars
             PROVE  IInv'
  OBVIOUS
<1>1. ASSUME NEW t \in Threads,
             Call(t) \/ Inner(t) \/ EnterR(t) \/ EnterW(t) \/ UnlockWrite(t)
      PROVE  IInv'
  <2>1. CASE Call(t)
    BY <2>1, CallKeeps
  <2>2. CASE \/ EnterR(t)
             \/ ReadFirst(t) \/ FirstWait(t)
             \/ ReadLeave(t) \/ UnreadLeave(t) \/ FirstLeave(t) \/ LastLeave(t)
    BY <2>2, MutexRKeeps
  <2>3. CASE ReadMore(t) \/ FirstMore(t) \/ ReadLockW(t)
    BY <2>3, CountUpKeeps
  <2>4. CASE UnreadCount(t) \/ LastCount(t)
    BY <2>4, CountDownKeeps
  <2>5. CASE LockWrite(t) \/ FirstLockW(t)
    BY <2>5, BeginWriteKeeps
  <2>6. CASE UnlockWrite(t) \/ UnreadUnlockW(t)
    BY <2>6, UnlockWKeeps
  <2> QED
    BY <1>1, <2>1, <2>2, <2>3, <2>4, <2>5, <2>6 DEF Inner, EnterW
<1>2. CASE UNCHANGED vars
  BY <1>2 DEF vars, IInv, TypeOK, ROwned, WHeldFor, Releasing, CounterCounts, Held,
              WaitsWithoutReaders, Contract
<1> QED
  BY <1>1, <1>2 DEF Next

(* Every reachable state satisfies the inductive invariant: mutex_r has    *)
(* one owner, mutex_w is locked for one of three reasons, the counter      *)
(* counts the read locks.                                                  *)
THEOREM LockInvariant == Spec => []IInv
<1> QED
  BY InitInvariant, NextKeeps, PTL DEF Spec

(* The variables of ecmutex_unix.c and its callers keep their types.       *)
THEOREM LockTyped == Spec => []TypeOK
<1>1. IInv => TypeOK
  BY DEF IInv
<1> QED
  BY <1>1, LockInvariant, PTL

(* Readers and a writer never meet, nor two writers, for any number of     *)
(* threads and any depth of nested reading.                                *)
THEOREM LockExcludes == Spec => []Exclusion
<1>1. IInv => Exclusion
  BY InvariantExcludes
<1> QED
  BY <1>1, LockInvariant, PTL

(* A thread that reads never finds mutex_r held by a thread that waits for *)
(* mutex_w: reading again and leaving are always possible.                 *)
THEOREM LockReentrant == Spec => []ReaderNeverBlocked
<1>1. IInv => ReaderNeverBlocked
  BY InvariantExcludes
<1> QED
  BY <1>1, LockInvariant, PTL

-----------------------------------------------------------------------------
(* Every step of the two mutexes is a step of the promised lock, or none.  *)
LEMMA StepKeepsPromise ==
  ASSUME IInv, [Next]_vars
  PROVE  [Promise!Next]_<<nest, writing>>
<1> USE DEF Promise!Next
<1>1. ASSUME NEW t \in Threads, Call(t)
      PROVE  UNCHANGED <<nest, writing>>
  BY <1>1 DEF Call, CallRead, CallUnread, CallWrite, CallFirst, CallLast
<1>2. ASSUME NEW t \in Threads, EnterR(t)
      PROVE  UNCHANGED <<nest, writing>>
  BY <1>2 DEF EnterR, ReadEnter, UnreadEnter, FirstEnter, LastEnter, LockR
<1>3. ASSUME NEW t \in Threads,
             \/ ReadFirst(t) \/ FirstWait(t) \/ UnreadUnlockW(t)
             \/ ReadLeave(t) \/ UnreadLeave(t) \/ FirstLeave(t) \/ LastLeave(t)
      PROVE  UNCHANGED <<nest, writing>>
  BY <1>3 DEF ReadFirst, FirstWait, UnreadUnlockW, ReadLeave, UnreadLeave, FirstLeave,
              LastLeave, UnlockR
<1>4. ASSUME NEW t \in Threads, ReadMore(t) \/ FirstMore(t) \/ ReadLockW(t)
      PROVE  Promise!BeginRead(t)
  <2>1. writing = {}
    BY <1>4 DEF IInv, TypeOK, WHeldFor, ReadMore, FirstMore, ReadLockW
  <2>2. nest[t] < MaxNest
    BY <1>4 DEF IInv, Contract, ReadMore, FirstMore, ReadLockW, Move
  <2> QED
    BY <1>4, <2>1, <2>2 DEF Promise!BeginRead, ReadMore, FirstMore, ReadLockW
<1>5. ASSUME NEW t \in Threads, UnreadCount(t) \/ LastCount(t)
      PROVE  Promise!EndRead(t) \/ Promise!Upgrade(t)
  <2>1. nest[t] > 0
    BY <1>5 DEF IInv, Contract, UnreadCount, LastCount, Move
  <2>2. writing = {}
    BY <2>1, CounterZero DEF IInv, WHeldFor
  <2>3. CASE LastCount(t) /\ counter = 1
    <3>1. nest[t] = 1 /\ \A u \in Threads \ {t} : nest[u] = 0
      BY <2>1, <2>3, CounterOne
    <3> QED
      BY <2>2, <2>3, <3>1 DEF Promise!Upgrade, LastCount
  <2>4. CASE UnreadCount(t) \/ counter # 1
    BY <1>5, <2>1, <2>4 DEF Promise!EndRead, UnreadCount, LastCount
  <2> QED
    BY <1>5, <2>3, <2>4
<1>6. ASSUME NEW t \in Threads, LockWrite(t) \/ FirstLockW(t)
      PROVE  Promise!BeginWrite(t)
  <2>1. writing = {} /\ counter = 0
    BY <1>6 DEF IInv, TypeOK, WHeldFor, LockWrite, FirstLockW
  <2>2. \A u \in Threads : nest[u] = 0
    BY <2>1, CounterZero
  <2> QED
    BY <1>6, <2>1, <2>2 DEF Promise!BeginWrite, Promise!NobodyReads, LockWrite, FirstLockW
<1>7. ASSUME NEW t \in Threads, UnlockWrite(t)
      PROVE  Promise!EndWrite(t)
  BY <1>7, InvariantExcludes DEF Exclusion, Promise!EndWrite, UnlockWrite
<1>8. CASE UNCHANGED vars
  BY <1>8 DEF vars
<1> QED
  BY <1>1, <1>2, <1>3, <1>4, <1>5, <1>6, <1>7, <1>8 DEF Next, Inner, EnterW

(* The two mutexes and the counter implement the lock that SharedExclusive *)
(* specifies, operation by operation.                                      *)
THEOREM LockKeepsPromise == Spec => KeepsPromise
<1>1. Init => Promise!Init
  BY DEF Init, Promise!Init
<1>2. IInv /\ [Next]_vars => [Promise!Next]_<<nest, writing>>
  BY StepKeepsPromise
<1> QED
  BY <1>1, <1>2, LockInvariant, PTL DEF Spec, KeepsPromise, Promise!Spec
=============================================================================
