---------------------------- MODULE ReadWriteLock ----------------------------
(***************************************************************************)
(* EcReadWriteLock of src/entc/system/ecmutex_unix.c, two pthread mutexes  *)
(* and a counter: mutex_r protects the counter, mutex_w is held by the     *)
(* writer or, on behalf of all the readers, from the first reader's entry  *)
(* to the last one's leave.  The first reader waits for mutex_w while it   *)
(* HOLDS mutex_r; mutex_w is often unlocked by another thread than the one *)
(* that locked it, which the default mutexes of glibc allow.               *)
(*                                                                         *)
(* A thread may read again while it reads (a message callback that sends a *)
(* message in utils/ecmessages.c), up to MaxNest times; it asks to write   *)
(* only when it holds nothing.                                             *)
(***************************************************************************)
EXTENDS Naturals, FiniteSets

CONSTANTS
  Threads,
  MaxNest,    \* bound on how often a thread reads while it reads
  Nobody

ASSUME LockConstants ==
  /\ IsFiniteSet(Threads)
  /\ MaxNest \in Nat \ {0}
  /\ Nobody \notin Threads

VARIABLES
  mutex_r,   \* owner of mutex_r, or Nobody
  mutex_w,   \* "free" or "locked"
  counter,
  pc,        \* where each thread is
  nest,      \* how many read locks each thread holds
  writing    \* the threads that were told they may write

vars == <<mutex_r, mutex_w, counter, pc, nest, writing>>

(* lockRead: read, readFirst, readIn.  unlockRead: unread, unreadOut,      *)
(* unreadLeave.  lockWrite: write.                                         *)
(* lockReadAndTransformIfFirst: first, firstIn, firstWait.                 *)
(* unlockReadAndTransformIfLast: last, lastOut.                            *)
Locations == {"idle", "read", "readIn", "readFirst", "readLeave",
              "unread", "unreadIn", "unreadLast", "unreadLeave", "write",
              "first", "firstIn", "firstWait", "firstLeave",
              "last", "lastIn", "lastLeave"}

TypeOK ==
  /\ mutex_r \in Threads \cup {Nobody}
  /\ mutex_w \in {"free", "locked"}
  /\ counter \in Nat
  /\ pc \in [Threads -> Locations]
  /\ nest \in [Threads -> 0..MaxNest]
  /\ writing \subseteq Threads

Init ==
  /\ mutex_r = Nobody
  /\ mutex_w = "free"
  /\ counter = 0
  /\ pc = [t \in Threads |-> "idle"]
  /\ nest = [t \in Threads |-> 0]
  /\ writing = {}

Move(t, from, to) == pc[t] = from /\ pc' = [pc EXCEPT ![t] = to]

-----------------------------------------------------------------------------
(* The calls, in the order their contract allows.                          *)
CallRead(t) ==
  /\ t \notin writing /\ nest[t] < MaxNest
  /\ Move(t, "idle", "read")
  /\ UNCHANGED <<mutex_r, mutex_w, counter, nest, writing>>

CallUnread(t) ==
  /\ nest[t] > 0
  /\ Move(t, "idle", "unread")
  /\ UNCHANGED <<mutex_r, mutex_w, counter, nest, writing>>

CallWrite(t) ==
  /\ t \notin writing /\ nest[t] = 0
  /\ Move(t, "idle", "write")
  /\ UNCHANGED <<mutex_r, mutex_w, counter, nest, writing>>

CallFirst(t) ==
  /\ t \notin writing /\ nest[t] < MaxNest
  /\ Move(t, "idle", "first")
  /\ UNCHANGED <<mutex_r, mutex_w, counter, nest, writing>>

CallLast(t) ==
  /\ nest[t] > 0
  /\ Move(t, "idle", "last")
  /\ UNCHANGED <<mutex_r, mutex_w, counter, nest, writing>>

-----------------------------------------------------------------------------
(* The first statement of the four operations on readers, and the last.    *)
LockR(t, from, to) ==
  /\ mutex_r = Nobody
  /\ mutex_r' = t
  /\ Move(t, from, to)
  /\ UNCHANGED <<mutex_w, counter, nest, writing>>

UnlockR(t, from) ==
  /\ mutex_r' = Nobody
  /\ Move(t, from, "idle")
  /\ UNCHANGED <<mutex_w, counter, nest, writing>>

(* Mutation: the reader is not counted.                                    *)
ReadUncounted(t) ==
  /\ counter # 0
  /\ nest' = [nest EXCEPT ![t] = nest[t] + 1]
  /\ Move(t, "readIn", "readLeave")
  /\ UNCHANGED <<mutex_r, mutex_w, counter, writing>>

(* ecreadwritelock_lockRead                                                *)
ReadEnter(t) == LockR(t, "read", "readIn")

(* Mutation: every reader locks mutex_w, not only the first.               *)
ReadAlwaysFirst(t) ==
  /\ Move(t, "readIn", "readFirst")
  /\ UNCHANGED <<mutex_r, mutex_w, counter, nest, writing>>

ReadMore(t) ==
  /\ counter # 0
  /\ counter' = counter + 1
  /\ nest' = [nest EXCEPT ![t] = nest[t] + 1]
  /\ Move(t, "readIn", "readLeave")
  /\ UNCHANGED <<mutex_r, mutex_w, writing>>

(* Mutation: the first reader does not wait for mutex_w.                   *)
ReadBarges(t) ==
  /\ mutex_w' = "locked"
  /\ counter' = counter + 1
  /\ nest' = [nest EXCEPT ![t] = nest[t] + 1]
  /\ Move(t, "readFirst", "readLeave")
  /\ UNCHANGED <<mutex_r, writing>>

(* Mutation: the first reader only tries mutex_w, and starts again.        *)
ReadTries(t) ==
  /\ counter = 0
  /\ \/ mutex_w = "free" /\ Move(t, "readIn", "readFirst") /\ UNCHANGED mutex_r
     \/ mutex_w = "locked" /\ Move(t, "readIn", "read") /\ mutex_r' = Nobody
  /\ UNCHANGED <<mutex_w, counter, nest, writing>>

ReadFirst(t) ==
  /\ counter = 0
  /\ Move(t, "readIn", "readFirst")
  /\ UNCHANGED <<mutex_r, mutex_w, counter, nest, writing>>

ReadLockW(t) ==
  /\ mutex_w = "free"
  /\ mutex_w' = "locked"
  /\ counter' = counter + 1
  /\ nest' = [nest EXCEPT ![t] = nest[t] + 1]
  /\ Move(t, "readFirst", "readLeave")
  /\ UNCHANGED <<mutex_r, writing>>

ReadLeave(t) == UnlockR(t, "readLeave")

(* ecreadwritelock_unlockRead                                              *)
UnreadEnter(t) == LockR(t, "unread", "unreadIn")

UnreadCount(t) ==
  /\ counter' = counter - 1
  /\ nest' = [nest EXCEPT ![t] = nest[t] - 1]
  /\ Move(t, "unreadIn", IF counter = 1 THEN "unreadLast" ELSE "unreadLeave")
  /\ UNCHANGED <<mutex_r, mutex_w, writing>>

UnreadUnlockW(t) ==
  /\ mutex_w' = "free"
  /\ Move(t, "unreadLast", "unreadLeave")
  /\ UNCHANGED <<mutex_r, counter, nest, writing>>

UnreadLeave(t) == UnlockR(t, "unreadLeave")

(* ecreadwritelock_lockWrite and ecreadwritelock_unlockWrite               *)
LockWrite(t) ==
  /\ mutex_w = "free"
  /\ mutex_w' = "locked"
  /\ writing' = writing \cup {t}
  /\ Move(t, "write", "idle")
  /\ UNCHANGED <<mutex_r, counter, nest>>

UnlockWrite(t) ==
  /\ t \in writing
  /\ pc[t] = "idle"
  /\ mutex_w' = "free"
  /\ writing' = writing \ {t}
  /\ UNCHANGED <<mutex_r, counter, pc, nest>>

(* ecreadwritelock_lockReadAndTransformIfFirst: the first one is told that *)
(* it is the writer, and the counter stays zero.                           *)
FirstEnter(t) == LockR(t, "first", "firstIn")

FirstMore(t) ==
  /\ counter # 0
  /\ counter' = counter + 1
  /\ nest' = [nest EXCEPT ![t] = nest[t] + 1]
  /\ Move(t, "firstIn", "firstLeave")
  /\ UNCHANGED <<mutex_r, mutex_w, writing>>

FirstWait(t) ==
  /\ counter = 0
  /\ Move(t, "firstIn", "firstWait")
  /\ UNCHANGED <<mutex_r, mutex_w, counter, nest, writing>>

FirstLockW(t) ==
  /\ mutex_w = "free"
  /\ mutex_w' = "locked"
  /\ writing' = writing \cup {t}
  /\ Move(t, "firstWait", "firstLeave")
  /\ UNCHANGED <<mutex_r, counter, nest>>

FirstLeave(t) == UnlockR(t, "firstLeave")

(* Mutation: the last but one is told that it is the last.                 *)
LastTooEarly(t) ==
  /\ counter' = counter - 1
  /\ nest' = [nest EXCEPT ![t] = nest[t] - 1]
  /\ writing' = IF counter <= 2 THEN writing \cup {t} ELSE writing
  /\ Move(t, "lastIn", "lastLeave")
  /\ UNCHANGED <<mutex_r, mutex_w>>

(* ecreadwritelock_unlockReadAndTransformIfLast: the last one keeps        *)
(* mutex_w locked and is told that it is the writer.                       *)
LastEnter(t) == LockR(t, "last", "lastIn")

LastCount(t) ==
  /\ counter' = counter - 1
  /\ nest' = [nest EXCEPT ![t] = nest[t] - 1]
  /\ writing' = IF counter = 1 THEN writing \cup {t} ELSE writing
  /\ Move(t, "lastIn", "lastLeave")
  /\ UNCHANGED <<mutex_r, mutex_w>>

LastLeave(t) == UnlockR(t, "lastLeave")

-----------------------------------------------------------------------------
Call(t) == CallRead(t) \/ CallUnread(t) \/ CallWrite(t) \/ CallFirst(t) \/ CallLast(t)

Inner(t) ==
  \/ ReadMore(t) \/ ReadFirst(t) \/ ReadLeave(t)
  \/ UnreadCount(t) \/ UnreadUnlockW(t) \/ UnreadLeave(t)
  \/ FirstMore(t) \/ FirstWait(t) \/ FirstLeave(t)
  \/ LastCount(t) \/ LastLeave(t)

EnterR(t) == ReadEnter(t) \/ UnreadEnter(t) \/ FirstEnter(t) \/ LastEnter(t)
EnterW(t) == ReadLockW(t) \/ LockWrite(t) \/ FirstLockW(t)

Next == \E t \in Threads : Call(t) \/ Inner(t) \/ EnterR(t) \/ EnterW(t) \/ UnlockWrite(t)

Spec == Init /\ [][Next]_vars

(* A thread that is inside an operation goes on; a mutex that is free again*)
(* and again is got in the end; whoever holds the lock gives it back, a    *)
(* reader through one of the two ways to do so.                            *)
Fairness ==
  \A t \in Threads :
    /\ WF_vars(Inner(t))
    /\ SF_vars(EnterR(t))
    /\ SF_vars(EnterW(t))
    /\ WF_vars(UnlockWrite(t))
    /\ SF_vars(CallUnread(t))

FairSpec == Spec /\ Fairness

-----------------------------------------------------------------------------
(* Properties.                                                             *)

(* One writer and no reader, or readers and no writer, although the writer *)
(* never looks at the counter and the readers change between threads that  *)
(* lock mutex_w and threads that unlock it.                                *)
Exclusion ==
  \A t \in writing : writing = {t} /\ \A u \in Threads : nest[u] = 0

(* The read locks that are held, one pair for each.                        *)
HeldBy(depth) == {p \in Threads \X (1..MaxNest) : p[2] <= depth[p[1]]}
Held == HeldBy(nest)

(* A thread that reads can always read again, or leave: nobody sits on     *)
(* mutex_r waiting for mutex_w meanwhile.  Otherwise a callback that sends *)
(* a message while a writer waits would be the end of the process.         *)
ReaderNeverBlocked ==
  \A t, u \in Threads : nest[t] > 0 => pc[u] \notin {"readFirst", "firstWait"}

(* Who asked to read, or to give a read lock back, is served, whatever the *)
(* writers do.                                                             *)
ReaderServed == \A t \in Threads : pc[t] \in {"read", "unread"} ~> pc[t] = "idle"

(* The lock does what SharedExclusive says.                                *)
Promise == INSTANCE SharedExclusive WITH reads <- nest, writer <- writing
KeepsPromise == Promise!Spec

-----------------------------------------------------------------------------
(* The inductive invariant: what the two mutexes are held for.             *)

InsideR == Locations \ {"idle", "read", "unread", "write", "first", "last"}

(* mutex_r has one owner, the thread inside one of the four operations.    *)
ROwned == \A t \in Threads : pc[t] \in InsideR <=> mutex_r = t

Releasing == \E t \in Threads : pc[t] = "unreadLast"

(* mutex_w is locked for exactly one of three reasons.                     *)
WHeldFor ==
  /\ mutex_w = "locked" <=> counter > 0 \/ writing # {} \/ Releasing
  /\ counter > 0 => writing = {} /\ ~Releasing
  /\ Releasing => writing = {}
  /\ \A t, u \in writing : t = u

CounterCounts == counter = Cardinality(Held)

WaitsWithoutReaders ==
  \A t \in Threads : pc[t] \in {"readFirst", "firstWait"} => counter = 0

(* What a thread may ask for.                                              *)
Contract ==
  \A t \in Threads :
    /\ pc[t] \in {"unread", "unreadIn", "last", "lastIn"} => nest[t] > 0
    /\ pc[t] \in {"read", "readIn", "readFirst", "first", "firstIn", "firstWait"}
         => nest[t] < MaxNest
    /\ t \in writing => pc[t] \in {"idle", "firstLeave", "lastLeave"}

IInv ==
  /\ TypeOK /\ ROwned /\ WHeldFor /\ CounterCounts
  /\ WaitsWithoutReaders /\ Contract
=============================================================================
