--------------------------- MODULE AsyncIOProofs ---------------------------
(***************************************************************************)
(* Proofs about AsyncIO, for any number of threads, clients and sends: a   *)
(* client has one home, the queues stay of like size, and the accept       *)
(* context lives as long as it is in a queue.                              *)
(***************************************************************************)
EXTENDS AsyncIO, FiniteSetTheorems, TLAPS

(* A client that is to be in no queue and in no thread's hands.            *)
Away(c) == c \notin known \/ c \in backlog \/ c \in gone \/ c \in lost
HeldBy(t, c) == Holding(t) /\ client[t] = c

(* The owner counts no further than there are threads.                     *)
OwnerCounts == owner.does \in {"stop", "join"} => owner.next \in Threads

(* Homes(c) without counting: a client that is away is nowhere, any other  *)
(* one is in one queue or in one thread's hands, never in both.            *)
Homed ==
  /\ backlog \cap (gone \cup lost) = {} /\ gone \cap lost = {}
  /\ backlog \subseteq known /\ gone \subseteq known /\ lost \subseteq known
  /\ \A c \in Clients : Away(c) => \A t \in Threads : c \notin queue[t] /\ ~HeldBy(t, c)
  /\ \A c \in Clients : ~Away(c) => \E t \in Threads : c \in queue[t] \/ HeldBy(t, c)
  /\ \A c \in Clients, t, u \in Threads :
       /\ c \in queue[t] => ~HeldBy(u, c)
       /\ t # u => ~(c \in queue[t] /\ c \in queue[u]) /\ ~(HeldBy(t, c) /\ HeldBy(u, c))

(* A context that is run or removed is one of the thread's own queue; only *)
(* a thread that has the accept context carries a client.                  *)
AtWork ==
  \A t \in Threads :
    /\ pc[t] \in {"recv", "del", "remove"} => client[t] \in Clients /\ client[t] \in queue[t]
    /\ pc[t] = "accept" => Listener \in queue[t]
    /\ Holding(t) => client[t] \in Clients /\ Listener \in queue[t]
    /\ pc[t] = "size" => seen[t] < NumThreads
    /\ pc[t] \in {"store", "put"} => seen[t] = NumThreads

Size(t) == Cardinality(queue[t])

(* The threads on their way to the queue of t that saw it no larger than v.*)
Aiming(t, v) ==
  {p \in Threads : Holding(p) /\ seen[p] > 0 /\ mthread[p] = t /\ min[p] <= v}

(* What a thread takes for the smallest size was not larger than any it    *)
(* has seen, and queues only grow while no context is removed.             *)
Stale ==
  gone = {} =>
    \A t \in Threads : Holding(t) => \A u \in 1 .. seen[t] : min[t] <= Size(u)

(* Why stale sizes do so little harm: what a queue has above the level v   *)
(* of some queue was put there by different threads, each of which saw it  *)
(* at v or below; and the threads that still aim at it from there are none *)
(* of them.  All of them have the accept context.                          *)
Slack ==
  gone = {} =>
    \A t, u \in Threads, v \in Nat :
      Size(u) <= v /\ v <= Size(t) =>
        Cardinality(Aiming(t, v)) + Size(t) <= v + Cardinality(Acceptors)

Placed == TypeOK /\ OwnerCounts /\ AtWork /\ Homed /\ closed = FALSE
PoolIInv == Placed /\ Stale /\ Slack

(* TypeOK in parts.                                                        *)
OwnerTyped ==
  owner \in [does : {"add", "put", "added", "serve", "stop", "join", "done"}, next : 1 .. NumThreads + 1]
ThreadsTyped ==
  /\ pc \in [Threads -> Places]
  /\ client \in [Threads -> Clients \cup {NoClient, Listener}]
SearchTyped ==
  /\ seen \in [Threads -> 0 .. NumThreads]
  /\ min \in [Threads -> Nat]
  /\ mthread \in [Threads -> Threads]
QueueTyped ==
  /\ queue \in [Threads -> SUBSET (Clients \cup {Listener})]
  /\ intr \in [Threads -> Nat]
RestTyped ==
  /\ shared \in Ways /\ cnt \in Nat
  /\ abort \subseteq Threads /\ freed \subseteq Threads
  /\ backlog \subseteq Clients /\ readable \subseteq Clients
  /\ hungup \subseteq Clients /\ known \subseteq Clients
  /\ sent \in [Clients -> 0 .. MaxSends]
  /\ gone \subseteq Clients /\ lost \subseteq Clients

-----------------------------------------------------------------------------
(* Types and places.                                                       *)

LEMMA Typed == TypeOK <=> /\ OwnerTyped /\ ThreadsTyped /\ SearchTyped /\ QueueTyped /\ RestTyped
                          /\ closed \in BOOLEAN
BY DEF TypeOK, OwnerTyped, ThreadsTyped, SearchTyped, QueueTyped, RestTyped

LEMMA TypedNext ==
  ASSUME OwnerTyped', ThreadsTyped', SearchTyped', QueueTyped', RestTyped', closed' = FALSE
  PROVE  TypeOK'
BY DEF TypeOK, OwnerTyped, ThreadsTyped, SearchTyped, QueueTyped, RestTyped

LEMMA ThreadNumbers ==
  /\ NumThreads \in Nat /\ NumThreads \in Threads /\ 1 \in Threads /\ NumThreads > 0
  /\ \A n \in Nat : n \in Threads <=> 0 < n /\ n <= NumThreads
  /\ Threads \subseteq Nat
BY PoolConstants DEF Threads

LEMMA PoolStarts == Init => Placed
<1> SUFFICES ASSUME Init PROVE Placed
  OBVIOUS
<1>1. OwnerTyped /\ RestTyped
  BY PoolConstants, ThreadNumbers DEF Init, OwnerTyped, RestTyped
<1>2. ThreadsTyped /\ SearchTyped /\ QueueTyped
  BY PoolConstants, ThreadNumbers DEF Init, ThreadsTyped, SearchTyped, QueueTyped, Places
<1>3. closed = FALSE /\ OwnerCounts /\ AtWork
  BY DEF Init, OwnerCounts, AtWork, Holding
<1>4. Homed
  BY DEF Init, Homed, Away, HeldBy, Holding
<1> QED BY <1>1, <1>2, <1>3, <1>4, Typed DEF Placed

LEMMA OwnerAims == ASSUME Placed PROVE OwnerTarget \in Threads /\ 1 \in Threads
BY Typed, ThreadNumbers DEF Placed, OwnerTyped, OwnerTarget

LEMMA OwnerPlaced == ASSUME Placed, Owner \/ Clear PROVE Placed'
<1> USE ThreadNumbers DEF pool, accept, world, search, queues, fate
<1>1. CASE OwnerAdd \/ OwnerAdded
  <2>1. OwnerTyped' /\ OwnerCounts'
    BY <1>1, Typed DEF OwnerAdd, OwnerAdded, Placed, OwnerTyped, OwnerCounts
  <2>2. QueueTyped'
    BY <1>1, OwnerAims, Typed DEF OwnerAdd, OwnerAdded, Interrupt, ResetEvent, Placed, QueueTyped
  <2>3. ThreadsTyped' /\ SearchTyped' /\ RestTyped' /\ closed' = FALSE
    BY <1>1, Typed DEF OwnerAdd, OwnerAdded, Placed, ThreadsTyped, SearchTyped, RestTyped
  <2>4. AtWork' /\ Homed'
    BY <1>1 DEF OwnerAdd, OwnerAdded, Placed, AtWork, Homed, Away, HeldBy, Holding
  <2> QED BY <2>1, <2>2, <2>3, <2>4, TypedNext DEF Placed
<1>2. CASE OwnerPut
  <2>1. PICK u \in Threads : u = OwnerTarget
    BY OwnerAims
  <2>2. OwnerTyped' /\ OwnerCounts'
    BY <1>2, Typed DEF OwnerPut, Placed, OwnerTyped, OwnerCounts
  <2>3. QueueTyped'
    BY <1>2, <2>1, Typed DEF OwnerPut, Registered, Placed, QueueTyped
  <2>4. ThreadsTyped' /\ SearchTyped' /\ RestTyped' /\ closed' = FALSE
    BY <1>2, Typed DEF OwnerPut, Placed, ThreadsTyped, SearchTyped, RestTyped
  <2>5. \A t \in Threads : \A c : c \in queue'[t] <=> c \in queue[t] \/ (t = u /\ c = Listener)
    BY <1>2, <2>1, Typed DEF OwnerPut, Registered, Placed, QueueTyped
  <2>6. AtWork'
    BY <1>2, <2>5 DEF OwnerPut, Placed, AtWork, Holding
  <2>7. Homed'
    BY <1>2, <2>5, PoolConstants DEF OwnerPut, Placed, Homed, Away, HeldBy, Holding
  <2> QED BY <2>2, <2>3, <2>4, <2>6, <2>7, TypedNext DEF Placed
<1>3. CASE Clear \/ Stop \/ Join
  <2>1. OwnerTyped'
    BY <1>3, Typed DEF Clear, Stop, Join, Placed, OwnerTyped, OwnerCounts
  <2>2. OwnerCounts'
    BY <1>3, Typed DEF Clear, Stop, Join, Placed, OwnerTyped, OwnerCounts
  <2>3. ThreadsTyped' /\ SearchTyped' /\ QueueTyped' /\ closed' = FALSE /\ AtWork'
    BY <1>3, Typed DEF Clear, Stop, Join, Placed, ThreadsTyped, SearchTyped, QueueTyped, AtWork, Holding
  <2>4. RestTyped'
    BY <1>3, Typed DEF Clear, Stop, Join, Placed, RestTyped, OwnerCounts
  <2>5. Homed'
    BY <1>3 DEF Clear, Stop, Join, Placed, Homed, Away, HeldBy, Holding
  <2> QED BY <2>1, <2>2, <2>3, <2>4, <2>5, TypedNext DEF Placed
<1> QED BY <1>1, <1>2, <1>3 DEF Owner

LEMMA ClientsPlaced ==
  ASSUME Placed, NEW c \in Clients, Connect(c) \/ Send(c) \/ HangUp(c) PROVE Placed'
<1> USE DEF inside, pool, accept, search, queues, fate
<1>1. /\ OwnerTyped' /\ OwnerCounts' /\ ThreadsTyped' /\ SearchTyped' /\ QueueTyped'
      /\ closed' = FALSE /\ AtWork'
  BY Typed DEF Connect, Send, HangUp, Placed, OwnerTyped, OwnerCounts, ThreadsTyped, SearchTyped, QueueTyped, AtWork, Holding
<1>2. RestTyped'
  BY Typed, PoolConstants DEF Connect, Send, HangUp, Placed, RestTyped
<1>3. Homed'
  <2>1. CASE Connect(c)
    BY <2>1 DEF Connect, Placed, Homed, Away, HeldBy, Holding
  <2>2. CASE Send(c) \/ HangUp(c)
    BY <2>2 DEF Send, HangUp, Placed, Homed, Away, HeldBy, Holding
  <2> QED BY <2>1, <2>2
<1> QED BY <1>1, <1>2, <1>3, TypedNext DEF Placed

(* Steps that change neither a queue nor what a thread holds.              *)
LEMMA WaitPlaced ==
  ASSUME Placed, NEW t \in Threads,
         \/ Lock(t) \/ WaitAbort(t) \/ WaitInternal(t) \/ WaitSignal(t) \/ WaitTimeout(t)
         \/ AcceptFailed(t) \/ Removed(t)
         \/ \E c \in Clients \cup {Listener} : WaitEvent(t, c)
  PROVE  Placed'
<1> USE DEF Home, Go, accept, world, search, queues, fate
<1>1. /\ OwnerTyped' /\ OwnerCounts' /\ SearchTyped' /\ QueueTyped' /\ RestTyped' /\ closed' = FALSE
  BY Typed DEF Lock, WaitAbort, WaitInternal, WaitSignal, WaitTimeout, AcceptFailed, Removed, WaitEvent, ResetEvent,
               Placed, OwnerTyped, OwnerCounts, SearchTyped, QueueTyped, RestTyped
<1>2. ThreadsTyped'
  BY Typed DEF Lock, WaitAbort, WaitInternal, WaitSignal, WaitTimeout, AcceptFailed, Removed, WaitEvent, Placed,
               ThreadsTyped, Places
<1>3. AtWork'
  BY Typed, PoolConstants
  DEF Lock, WaitAbort, WaitInternal, WaitSignal, WaitTimeout, AcceptFailed, Removed, WaitEvent, Ready, Placed, AtWork,
      Holding, ThreadsTyped
<1>4. \A u \in Threads, c \in Clients : HeldBy(u, c)' <=> HeldBy(u, c)
  BY Typed DEF Lock, WaitAbort, WaitInternal, WaitSignal, WaitTimeout, AcceptFailed, Removed, WaitEvent, Placed,
               ThreadsTyped, HeldBy, Holding
<1>5. UNCHANGED <<known, backlog, fate, queue>>
  BY DEF Lock, WaitAbort, WaitInternal, WaitSignal, WaitTimeout, AcceptFailed, Removed, WaitEvent
<1>6. Homed'
  BY <1>4, <1>5 DEF Placed, Homed, Away
<1> QED BY <1>1, <1>2, <1>3, <1>6, TypedNext DEF Placed

(* Steps of a change besides the change itself, and a read.                *)
LEMMA TokensPlaced ==
  ASSUME Placed, NEW t \in Threads, Recv(t) \/ Del(t) \/ Store(t) \/ Added(t)
  PROVE  Placed'
<1> USE DEF Home, Go, accept, world, search, queues, fate
<1>1. mthread[t] \in Threads /\ 1 \in Threads
  BY Typed, ThreadNumbers DEF Placed, SearchTyped
<1>2. OwnerTyped' /\ OwnerCounts' /\ RestTyped' /\ closed' = FALSE
  BY Typed DEF Recv, Del, Store, Added, Placed, OwnerTyped, OwnerCounts, RestTyped
<1>3. SearchTyped'
  BY <1>1, Typed, ThreadNumbers DEF Recv, Del, Store, Added, Placed, SearchTyped
<1>4. QueueTyped'
  BY <1>1, Typed DEF Recv, Del, Store, Added, Interrupt, ResetEvent, Placed, QueueTyped
<1>5. ThreadsTyped'
  BY Typed DEF Recv, Del, Store, Added, Placed, ThreadsTyped, Places
<1>6. AtWork'
  BY Typed DEF Recv, Del, Store, Added, Placed, ThreadsTyped, SearchTyped, AtWork, Holding
<1>7. /\ \A u \in Threads, c \in Clients : HeldBy(u, c)' <=> HeldBy(u, c)
      /\ UNCHANGED <<known, backlog, fate, queue>>
  BY Typed DEF Recv, Del, Store, Added, Placed, ThreadsTyped, HeldBy, Holding
<1>8. Homed'
  BY <1>7 DEF Placed, Homed, Away
<1> QED BY <1>2, <1>3, <1>4, <1>5, <1>6, <1>8, TypedNext DEF Placed

LEMMA WorkPlaced ==
  ASSUME Placed, NEW t \in Threads,
         Remove(t) \/ ReadSize(t) \/ Put(t) \/ Refused(t) \/ \E c \in Clients : Accept(t, c)
  PROVE  Placed'
<1> USE DEF Home, Go, accept, world, search, queues, fate
<1>2. CASE Remove(t)
  <2>1. client[t] \in Clients /\ client[t] \in queue[t] /\ client[t] # Listener
    BY <1>2, PoolConstants DEF Remove, Placed, AtWork
  <2>2. /\ OwnerTyped' /\ OwnerCounts' /\ SearchTyped' /\ QueueTyped' /\ RestTyped' /\ closed' = FALSE
    BY <1>2, <2>1, Typed DEF Remove, Placed, OwnerTyped, OwnerCounts, SearchTyped, QueueTyped, RestTyped
  <2>3. ThreadsTyped'
    BY <1>2, Typed DEF Remove, Placed, ThreadsTyped, Places
  <2>4. AtWork'
    BY <1>2, <2>1, Typed DEF Remove, Placed, ThreadsTyped, QueueTyped, AtWork, Holding
  <2>5. Homed'
    <3>1. /\ \A u \in Threads, c \in Clients : HeldBy(u, c)' <=> HeldBy(u, c)
          /\ \A u \in Threads, c \in Clients :
               c \in queue'[u] <=> c \in queue[u] /\ ~(u = t /\ c = client[t])
          /\ \A c \in Clients : Away(c)' <=> Away(c) \/ c = client[t]
          /\ known' = known /\ backlog' = backlog /\ gone' = gone \cup {client[t]} /\ lost' = lost
      BY <1>2, <2>1, Typed DEF Remove, Placed, ThreadsTyped, QueueTyped, HeldBy, Holding, Away
    <3> QED BY <2>1, <3>1 DEF Placed, Homed, Away
  <2> QED BY <2>2, <2>3, <2>4, <2>5, TypedNext DEF Placed
<1>3. CASE ReadSize(t)
  <2>1. seen[t] + 1 \in Threads /\ seen[t] + 1 \in 0 .. NumThreads /\ seen[t] \in Nat
    BY <1>3, Typed, ThreadNumbers DEF ReadSize, Placed, AtWork, SearchTyped
  <2>2. Cardinality(queue[seen[t] + 1]) \in Nat
    <3>1. queue[seen[t] + 1] \subseteq Clients \cup {Listener}
      BY <2>1, Typed DEF Placed, QueueTyped
    <3>2. IsFiniteSet(Clients \cup {Listener})
      BY PoolConstants, FS_AddElement
    <3> QED BY <3>1, <3>2, FS_Subset, FS_CardinalityType
  <2>3. /\ OwnerTyped' /\ OwnerCounts' /\ QueueTyped' /\ RestTyped' /\ closed' = FALSE
    BY <1>3, Typed DEF ReadSize, Placed, OwnerTyped, OwnerCounts, QueueTyped, RestTyped
  <2>4. ThreadsTyped'
    BY <1>3, Typed DEF ReadSize, Placed, ThreadsTyped, Places
  <2>5. SearchTyped'
    BY <1>3, <2>1, <2>2, Typed DEF ReadSize, Placed, SearchTyped
  <2>6. AtWork'
    BY <1>3, <2>1, Typed, ThreadNumbers DEF ReadSize, Placed, ThreadsTyped, SearchTyped, AtWork, Holding
  <2>7. Homed'
    BY <1>3, Typed DEF ReadSize, Placed, ThreadsTyped, Homed, Away, HeldBy, Holding
  <2> QED BY <2>3, <2>4, <2>5, <2>6, <2>7, TypedNext DEF Placed
<1>4. CASE Put(t)
  <2>1. client[t] \in Clients /\ client[t] # Listener /\ mthread[t] \in Threads
    BY <1>4, PoolConstants, Typed DEF Put, Placed, AtWork, Holding, SearchTyped
  <2>2. /\ OwnerTyped' /\ OwnerCounts' /\ SearchTyped' /\ QueueTyped' /\ RestTyped' /\ closed' = FALSE
    BY <1>4, <2>1, Typed DEF Put, Placed, OwnerTyped, OwnerCounts, SearchTyped, QueueTyped, RestTyped
  <2>3. ThreadsTyped'
    BY <1>4, Typed DEF Put, Placed, ThreadsTyped, Places
  <2>4. AtWork'
    BY <1>4, <2>1, Typed DEF Put, Placed, ThreadsTyped, QueueTyped, AtWork, Holding
  <2>5. Homed'
    <3>1. /\ HeldBy(t, client[t])
          /\ \A u \in Threads, c \in Clients : HeldBy(u, c)' <=> HeldBy(u, c) /\ u # t
          /\ \A u \in Threads, c \in Clients :
               c \in queue'[u] <=> c \in queue[u] \/ (u = mthread[t] /\ c = client[t])
          /\ known' = known /\ backlog' = backlog /\ gone' = gone /\ lost' = lost
      BY <1>4, <2>1, Typed DEF Put, Placed, ThreadsTyped, QueueTyped, HeldBy, Holding
    <3> QED BY <2>1, <3>1 DEF Placed, Homed, Away, HeldBy
  <2> QED BY <2>2, <2>3, <2>4, <2>5, TypedNext DEF Placed
<1>6. CASE Refused(t)
  <2>1. client[t] \in Clients /\ HeldBy(t, client[t]) /\ client[t] \in known \ (backlog \cup gone \cup lost)
    BY <1>6 DEF Refused, Placed, AtWork, Homed, Away, HeldBy, Holding
  <2>2. /\ OwnerTyped' /\ OwnerCounts' /\ SearchTyped' /\ QueueTyped' /\ RestTyped' /\ closed' = FALSE
    BY <1>6, <2>1, Typed DEF Refused, Placed, OwnerTyped, OwnerCounts, SearchTyped, QueueTyped, RestTyped
  <2>3. ThreadsTyped'
    BY <1>6, Typed DEF Refused, Placed, ThreadsTyped, Places
  <2>4. AtWork'
    BY <1>6, Typed DEF Refused, Placed, ThreadsTyped, AtWork, Holding
  <2>5. Homed'
    <3>1. /\ \A u \in Threads, c \in Clients : HeldBy(u, c)' <=> HeldBy(u, c) /\ u # t
          /\ \A c \in Clients : Away(c)' <=> Away(c) \/ c = client[t]
          /\ UNCHANGED <<known, backlog, gone, queue>> /\ lost' = lost \cup {client[t]}
      BY <1>6, <2>1, Typed DEF Refused, Placed, ThreadsTyped, HeldBy, Holding, Away
    <3> QED BY <2>1, <3>1 DEF Placed, Homed, Away, HeldBy
  <2> QED BY <2>2, <2>3, <2>4, <2>5, TypedNext DEF Placed
<1>5. ASSUME NEW c \in Clients, Accept(t, c) PROVE Placed'
  <2>1. c \in known /\ c \notin gone /\ c \notin lost
    BY <1>5 DEF Accept, Placed, Homed
  <2>2. /\ OwnerTyped' /\ OwnerCounts' /\ QueueTyped' /\ RestTyped' /\ closed' = FALSE
    BY <1>5, Typed DEF Accept, Placed, OwnerTyped, OwnerCounts, QueueTyped, RestTyped
  <2>3. ThreadsTyped'
    BY <1>5, Typed DEF Accept, Placed, ThreadsTyped, Places
  <2>4. SearchTyped'
    BY <1>5, Typed, ThreadNumbers DEF Accept, Placed, SearchTyped
  <2>5. AtWork'
    BY <1>5, Typed, ThreadNumbers DEF Accept, Placed, ThreadsTyped, SearchTyped, AtWork, Holding
  <2>6. Homed'
    <3>1. /\ \A u \in Threads, d \in Clients : HeldBy(u, d)' <=> HeldBy(u, d) \/ (u = t /\ d = c)
          /\ \A d \in Clients : Away(d)' <=> Away(d) /\ d # c
          /\ known' = known /\ backlog' = backlog \ {c} /\ gone' = gone /\ lost' = lost /\ queue' = queue
      BY <1>5, <2>1, Typed DEF Accept, Placed, ThreadsTyped, HeldBy, Holding, Away
    <3>2. Away(c)
      BY <1>5 DEF Accept, Away
    <3> QED BY <2>1, <3>1, <3>2 DEF Placed, Homed
  <2> QED BY <2>2, <2>3, <2>4, <2>5, <2>6, TypedNext DEF Placed
<1> QED BY <1>2, <1>3, <1>4, <1>5, <1>6

LEMMA PoolPlaced == ASSUME Placed, [Next]_vars PROVE Placed'
<1>1. CASE UNCHANGED vars
  <2>1. TypeOK' /\ OwnerCounts' /\ AtWork' /\ closed' = FALSE
    BY <1>1 DEF vars, accept, search, world, queues, fate, Placed, TypeOK, OwnerCounts, AtWork, Holding
  <2>2. Homed'
    BY <1>1 DEF vars, accept, search, world, queues, fate, Placed, Homed, Away, HeldBy, Holding
  <2> QED BY <2>1, <2>2 DEF Placed
<1>2. CASE Owner \/ Clear
  BY <1>2, OwnerPlaced
<1>3. ASSUME NEW t \in Threads, Work(t) \/ Lock(t) \/ WaitSignal(t) \/ AcceptFailed(t) PROVE Placed'
  BY <1>3, WaitPlaced, TokensPlaced, WorkPlaced DEF Work
<1>4. ASSUME NEW c \in Clients, Connect(c) \/ Send(c) \/ HangUp(c) PROVE Placed'
  BY <1>4, ClientsPlaced
<1> QED BY <1>1, <1>2, <1>3, <1>4 DEF Next
-----------------------------------------------------------------------------
(* Like size.                                                              *)

LEMMA QueuesFinite ==
  ASSUME TypeOK
  PROVE  \A t \in Threads : IsFiniteSet(queue[t]) /\ Size(t) \in Nat
<1>1. IsFiniteSet(Clients \cup {Listener})
  BY PoolConstants, FS_AddElement
<1>2. \A t \in Threads : IsFiniteSet(queue[t])
  BY <1>1, FS_Subset, Typed DEF QueueTyped
<1> QED BY <1>2, FS_CardinalityType DEF Size

LEMMA SomeThreads ==
  ASSUME NEW S \in SUBSET Threads, NEW R \in SUBSET S
  PROVE  /\ IsFiniteSet(S) /\ Cardinality(S) \in Nat /\ Cardinality(R) \in Nat
         /\ Cardinality(R) <= Cardinality(S)
<1>1. IsFiniteSet(Threads)
  BY PoolConstants, FS_Interval DEF Threads
<1>2. IsFiniteSet(S) /\ IsFiniteSet(R)
  BY <1>1, FS_Subset
<1> QED BY <1>2, FS_Subset, FS_CardinalityType

LEMMA AimingAccept ==
  ASSUME Placed, NEW t, NEW v
  PROVE  Aiming(t, v) \subseteq Acceptors
BY DEF Placed, AtWork, Aiming, Acceptors

(* What happens outside of the queues: nobody aims at a queue who did not  *)
(* before.                                                                 *)
LEMMA SlackKept ==
  ASSUME Placed, Slack, gone' = {} => gone = {}, queue' = queue,
         \A t \in Threads, v \in Nat : Aiming(t, v)' \subseteq Aiming(t, v)
  PROVE  Slack'
<1> SUFFICES ASSUME gone' = {}, NEW t \in Threads, NEW u \in Threads, NEW v \in Nat,
                    Size(u)' <= v, v <= Size(t)'
             PROVE  Cardinality(Aiming(t, v)') + Size(t)' <= v + Cardinality(Acceptors')
  BY DEF Slack
<1>1. Size(u)' = Size(u) /\ Size(t)' = Size(t) /\ Acceptors' = Acceptors
  BY DEF Size, Acceptors
<1>2. Cardinality(Aiming(t, v)) + Size(t) <= v + Cardinality(Acceptors)
  BY <1>1 DEF Slack
<1>3. /\ Cardinality(Aiming(t, v)') <= Cardinality(Aiming(t, v))
      /\ Cardinality(Aiming(t, v)') \in Nat /\ Cardinality(Aiming(t, v)) \in Nat
  BY SomeThreads DEF Aiming
<1>4. Size(t) \in Nat /\ Cardinality(Acceptors) \in Nat
  BY QueuesFinite, SomeThreads DEF Placed, Acceptors
<1> QED BY <1>1, <1>2, <1>3, <1>4

LEMMA StaleKept ==
  ASSUME Placed, Stale, gone' = {} => gone = {}, queue' = queue,
         \A t \in Threads : Holding(t)' =>
            \/ Holding(t) /\ seen'[t] = seen[t] /\ min'[t] = min[t]
            \/ seen'[t] = 0
  PROVE  Stale'
<1> SUFFICES ASSUME gone' = {}, NEW t \in Threads, Holding(t)', NEW u \in 1 .. seen'[t]
             PROVE  min'[t] <= Size(u)'
  BY DEF Stale
<1> QED BY DEF Stale, Size

LEMMA PoolBalancedAtFirst == Init => Stale /\ Slack
<1> SUFFICES ASSUME Init PROVE Stale /\ Slack
  OBVIOUS
<1>1. \A t \in Threads : ~Holding(t) /\ Size(t) = 0
  BY FS_EmptySet DEF Init, Holding, Size
<1>2. Stale
  BY <1>1 DEF Stale
<1>3. \A t, v : Aiming(t, v) = {}
  BY <1>1 DEF Aiming
<1>4. Slack
  BY <1>1, <1>3, FS_EmptySet, SomeThreads DEF Slack, Acceptors
<1> QED BY <1>2, <1>4

(* The owner puts the accept context into one more queue: if it was not    *)
(* there, that queue is larger by one, and one thread more may accept.     *)
LEMMA ListenerBalanced ==
  ASSUME Placed, Stale, Slack, NEW n \in Threads, Registered(n), UNCHANGED <<pc, search, gone>>
  PROVE  Stale' /\ Slack'
<1> USE DEF search
<1>1. queue'[n] = queue[n] \cup {Listener} /\ \A t \in Threads \ {n} : queue'[t] = queue[t]
  BY Typed DEF Registered, Placed, QueueTyped
<1>2. \A t \in Threads : Size(t) \in Nat
  BY QueuesFinite DEF Placed
<1>3. Size(n)' = IF Listener \in queue[n] THEN Size(n) ELSE Size(n) + 1
  BY <1>1, QueuesFinite, FS_AddElement DEF Placed, Size
<1>4. \A t \in Threads \ {n} : Size(t)' = Size(t)
  BY <1>1 DEF Size
<1>5. \A t \in Threads : Size(t)' >= Size(t) /\ Size(t)' \in Nat
  BY <1>2, <1>3, <1>4
<1>6. Stale'
  <2> SUFFICES ASSUME gone' = {}, NEW t \in Threads, Holding(t)', NEW u \in 1 .. seen'[t]
               PROVE  min'[t] <= Size(u)'
    BY DEF Stale
  <2>1. u \in Threads /\ min[t] \in Nat
    BY Typed, ThreadNumbers DEF Placed, SearchTyped
  <2>2. min[t] <= Size(u)
    BY DEF Stale, Holding
  <2> QED BY <2>1, <2>2, <1>2, <1>5
<1>7. Slack'
  <2> SUFFICES ASSUME gone' = {}, NEW t \in Threads, NEW u \in Threads, NEW v \in Nat,
                      Size(u)' <= v, v <= Size(t)'
               PROVE  Cardinality(Aiming(t, v)') + Size(t)' <= v + Cardinality(Acceptors')
    BY DEF Slack
  <2>1. Aiming(t, v)' = Aiming(t, v)
    BY DEF Aiming, Holding
  <2>2. /\ Cardinality(Aiming(t, v)) <= Cardinality(Acceptors)
        /\ Cardinality(Aiming(t, v)) \in Nat /\ Cardinality(Acceptors) \in Nat
    BY AimingAccept, SomeThreads DEF Acceptors
  <2>3. v <= Size(t) => Cardinality(Aiming(t, v)) + Size(t) <= v + Cardinality(Acceptors)
    BY <1>2, <1>5 DEF Slack
  <2>4. CASE Listener \in queue[n]
    <3>1. Acceptors' = Acceptors
      BY <1>1, <2>4 DEF Acceptors
    <3> QED BY <1>2, <1>3, <1>4, <2>1, <2>2, <2>3, <2>4, <3>1
  <2>5. CASE Listener \notin queue[n]
    <3>1. Acceptors' = Acceptors \cup {n} /\ n \notin Acceptors
      BY <1>1, <2>5 DEF Acceptors
    <3>2. IsFiniteSet(Acceptors)
      BY SomeThreads DEF Acceptors
    <3>3. Cardinality(Acceptors') = Cardinality(Acceptors) + 1
      BY <3>1, <3>2, FS_AddElement
    <3> QED BY <1>2, <1>3, <1>4, <2>1, <2>2, <2>3, <2>5, <3>3
  <2> QED BY <2>4, <2>5
<1> QED BY <1>6, <1>7
(* A thread looks at the next queue.  If it chooses it, it saw the size    *)
(* the queue has: there is nothing above that level yet.                   *)
LEMMA ReadSizeBalanced ==
  ASSUME Placed, Stale, Slack, NEW t \in Threads, ReadSize(t)
  PROVE  Stale' /\ Slack'
<1> USE DEF search, Go, accept, world, queues, fate
<1> DEFINE u == seen[t] + 1
<1>1. u \in Threads /\ u \in Nat /\ seen[t] \in Nat /\ min[t] \in Nat /\ pc[t] = "size"
  BY Typed, ThreadNumbers DEF ReadSize, Placed, AtWork, SearchTyped
<1>2. \A x \in Threads : Size(x) \in Nat /\ Size(x)' = Size(x)
  BY QueuesFinite DEF Placed, Size, ReadSize
<1>3. /\ seen' = [seen EXCEPT ![t] = u]
      /\ IF u = 1 \/ Size(u) < min[t]
         THEN min' = [min EXCEPT ![t] = Size(u)] /\ mthread' = [mthread EXCEPT ![t] = u]
         ELSE min' = min /\ mthread' = mthread
      /\ UNCHANGED <<client, queue, gone>>
  BY DEF ReadSize, Size
<1>4. \A x \in Threads : Holding(x)' <=> Holding(x)
  BY <1>1, Typed DEF ReadSize, Holding, Placed, ThreadsTyped
<1>5. /\ seen'[t] = u /\ \A x \in Threads \ {t} : seen'[x] = seen[x]
      /\ \A x \in Threads \ {t} : min'[x] = min[x] /\ mthread'[x] = mthread[x]
  BY <1>3, Typed DEF Placed, SearchTyped
<1>6. \/ (u = 1 \/ Size(u) < min[t]) /\ min'[t] = Size(u) /\ mthread'[t] = u
      \/ u # 1 /\ Size(u) >= min[t] /\ min'[t] = min[t] /\ mthread'[t] = mthread[t]
  BY <1>1, <1>2, <1>3, Typed DEF Placed, SearchTyped
<1> HIDE DEF u
<1>7. Stale'
  <2> SUFFICES ASSUME gone' = {}, NEW x \in Threads, Holding(x)', NEW y \in 1 .. seen'[x]
               PROVE  min'[x] <= Size(y)'
    BY DEF Stale
  <2>1. gone = {} /\ Holding(x)
    BY <1>3, <1>4
  <2>2. CASE x # t
    BY <1>2, <1>5, <2>1, <2>2, Typed, ThreadNumbers DEF Stale, Placed, SearchTyped, Size, ReadSize
  <2>3. CASE x = t
    <3>1. y \in Threads /\ (y = u \/ y \in 1 .. seen[t])
      BY <1>1, <1>5, <2>3, ThreadNumbers DEF u
    <3>2. y \in 1 .. seen[t] => min[t] <= Size(y)
      BY <2>1, <2>3 DEF Stale
    <3>3. y \in 1 .. seen[t] => u # 1
      BY <1>1 DEF u
    <3> QED BY <1>1, <1>2, <1>6, <2>3, <3>1, <3>2, <3>3
  <2> QED BY <2>2, <2>3
<1>8. Slack'
  <2> SUFFICES ASSUME gone' = {}, NEW x \in Threads, NEW y \in Threads, NEW v \in Nat,
                      Size(y)' <= v, v <= Size(x)'
               PROVE  Cardinality(Aiming(x, v)') + Size(x)' <= v + Cardinality(Acceptors')
    BY DEF Slack
  <2>1. Cardinality(Aiming(x, v)) + Size(x) <= v + Cardinality(Acceptors)
    BY <1>2, <1>3 DEF Slack
  <2>2. Acceptors' = Acceptors
    BY <1>3 DEF Acceptors
  <2>3. Cardinality(Acceptors) \in Nat /\ Cardinality(Aiming(x, v)) \in Nat
    BY SomeThreads DEF Acceptors, Aiming
  <2>4. CASE Aiming(x, v)' \subseteq Aiming(x, v)
    <3>1. /\ Cardinality(Aiming(x, v)') \in Nat
          /\ Cardinality(Aiming(x, v)') <= Cardinality(Aiming(x, v))
      BY <2>4, SomeThreads DEF Aiming
    <3> QED BY <1>2, <2>1, <2>2, <2>3, <3>1
  <2>5. CASE ~(Aiming(x, v)' \subseteq Aiming(x, v))
    <3>1. t \in Aiming(x, v)' /\ t \notin Aiming(x, v)
      BY <1>4, <1>5, <2>5 DEF Aiming
    <3>2. x = u /\ v = Size(u)
      BY <1>1, <1>2, <1>4, <1>6, <3>1 DEF Aiming, u
    <3>3. Placed'
      BY WorkPlaced
    <3>4. Aiming(x, v)' \subseteq Acceptors'
      BY <3>3 DEF Placed, AtWork, Aiming, Acceptors
    <3>5. /\ Cardinality(Aiming(x, v)') \in Nat
          /\ Cardinality(Aiming(x, v)') <= Cardinality(Acceptors')
      BY <3>4, SomeThreads DEF Acceptors
    <3> QED BY <1>2, <2>2, <2>3, <3>2, <3>5
  <2> QED BY <2>4, <2>5
<1> QED BY <1>7, <1>8

(* A thread stores its client: it was one of those who aim at that queue   *)
(* from any level some queue is at now, and is none of them any more.      *)
LEMMA PutBalanced ==
  ASSUME Placed, Stale, Slack, NEW t \in Threads, Put(t)
  PROVE  Stale' /\ Slack'
<1> USE DEF search, Go, accept, world, queues, fate
<1>0. PICK m \in Threads : m = mthread[t]
  BY Typed DEF Placed, SearchTyped
<1>1. /\ m \in Threads /\ seen[t] = NumThreads /\ min[t] \in Nat /\ Holding(t)
      /\ client[t] \in Clients /\ client[t] # Listener
  BY Typed, PoolConstants DEF Put, Placed, AtWork, SearchTyped, Holding
<1>2. client[t] \notin queue[m]
  BY <1>1 DEF Placed, Homed, HeldBy
<1>3. queue'[m] = queue[m] \cup {client[t]} /\ \A x \in Threads \ {m} : queue'[x] = queue[x]
  BY <1>0, <1>1, Typed DEF Put, Placed, QueueTyped
<1>4. \A x \in Threads : Size(x) \in Nat
  BY QueuesFinite DEF Placed
<1>5. Size(m)' = Size(m) + 1
  BY <1>1, <1>2, <1>3, QueuesFinite, FS_AddElement DEF Placed, Size
<1>6. \A x \in Threads \ {m} : Size(x)' = Size(x)
  BY <1>3 DEF Size
<1>7. /\ gone' = gone /\ seen' = seen /\ min' = min /\ mthread' = mthread
      /\ \A x \in Threads : Holding(x)' <=> Holding(x) /\ x # t
  BY Typed DEF Put, Placed, ThreadsTyped, Holding
<1>8. Acceptors' = Acceptors
  BY <1>1, <1>3 DEF Acceptors
<1>9. Stale'
  <2> SUFFICES ASSUME gone' = {}, NEW x \in Threads, Holding(x)', NEW y \in 1 .. seen'[x]
               PROVE  min'[x] <= Size(y)'
    BY DEF Stale
  <2>1. y \in Threads /\ min[x] \in Nat
    BY <1>7, Typed, ThreadNumbers DEF Placed, SearchTyped
  <2>2. min[x] <= Size(y)
    BY <1>7 DEF Stale
  <2> QED BY <1>4, <1>5, <1>6, <1>7, <2>1, <2>2
<1>10. Slack'
  <2> SUFFICES ASSUME gone' = {}, NEW x \in Threads, NEW y \in Threads, NEW v \in Nat,
                      Size(y)' <= v, v <= Size(x)'
               PROVE  Cardinality(Aiming(x, v)') + Size(x)' <= v + Cardinality(Acceptors')
    BY DEF Slack
  <2>1. Aiming(x, v)' = Aiming(x, v) \ {t}
    BY <1>7 DEF Aiming
  <2>2. /\ Cardinality(Aiming(x, v)') <= Cardinality(Aiming(x, v))
        /\ Cardinality(Aiming(x, v)) <= Cardinality(Acceptors)
        /\ Cardinality(Aiming(x, v)') \in Nat /\ Cardinality(Aiming(x, v)) \in Nat
        /\ Cardinality(Acceptors) \in Nat /\ IsFiniteSet(Aiming(x, v))
    BY <2>1, AimingAccept, SomeThreads DEF Acceptors, Aiming
  <2>3. Size(y) <= v
    BY <1>1, <1>4, <1>5, <1>6
  <2>4. v <= Size(x) => Cardinality(Aiming(x, v)) + Size(x) <= v + Cardinality(Acceptors)
    BY <1>7, <2>3 DEF Slack
  <2>5. CASE x # m
    BY <1>4, <1>6, <1>8, <2>2, <2>4, <2>5
  <2>6. CASE x = m
    <3>1. t \in Aiming(m, v)
      <4>1. min[t] <= Size(y)
        BY <1>1, <1>7, Typed, ThreadNumbers DEF Stale, Threads
      <4> QED BY <1>1, <1>4, <2>3, <1>0, <4>1, ThreadNumbers DEF Aiming
    <3>2. Cardinality(Aiming(x, v)') = Cardinality(Aiming(x, v)) - 1
      BY <2>1, <2>2, <2>6, <3>1, FS_RemoveElement
    <3> QED BY <1>4, <1>5, <1>8, <2>2, <2>4, <2>6, <3>2
  <2> QED BY <2>5, <2>6
<1> QED BY <1>9, <1>10

LEMMA PoolBalanced == ASSUME PoolIInv, [Next]_vars PROVE Stale' /\ Slack'
<1> USE DEF PoolIInv, pool, inside, Go, Home, accept, world, search, queues, fate
<1>1. CASE UNCHANGED vars
  BY <1>1, SlackKept, StaleKept DEF vars, Aiming, Holding
<1>2. CASE OwnerPut
  BY <1>2, OwnerAims, ListenerBalanced DEF OwnerPut
<1>3. CASE OwnerAdd \/ OwnerAdded \/ Clear \/ Stop \/ Join
  BY <1>3, SlackKept, StaleKept DEF OwnerAdd, OwnerAdded, Clear, Stop, Join, Aiming, Holding
<1>4. ASSUME NEW t \in Threads,
             \/ Lock(t) \/ WaitAbort(t) \/ WaitInternal(t) \/ WaitSignal(t) \/ WaitTimeout(t)
             \/ AcceptFailed(t) \/ Recv(t) \/ Del(t) \/ Removed(t) \/ Store(t)
             \/ \E c \in Clients \cup {Listener} : WaitEvent(t, c)
      PROVE  Stale' /\ Slack'
  <2>1. UNCHANGED <<gone, queue, search>> /\ \A x \in Threads : Holding(x)' <=> Holding(x)
    BY <1>4, Typed DEF Lock, WaitAbort, WaitInternal, WaitSignal, WaitTimeout, AcceptFailed, Recv, Del, Removed, Store,
                       WaitEvent, Placed, ThreadsTyped, Holding
  <2> QED BY <2>1, SlackKept, StaleKept DEF Aiming
<1>5. ASSUME NEW t \in Threads, Added(t) \/ Refused(t) PROVE Stale' /\ Slack'
  <2>1. /\ UNCHANGED <<gone, queue>> /\ ~Holding(t)'
        /\ \A x \in Threads \ {t} : /\ Holding(x)' <=> Holding(x)
                                   /\ seen'[x] = seen[x] /\ min'[x] = min[x] /\ mthread'[x] = mthread[x]
    BY <1>5, Typed DEF Added, Refused, Placed, ThreadsTyped, SearchTyped, Holding
  <2>2. \A x \in Threads, v \in Nat : Aiming(x, v)' \subseteq Aiming(x, v)
    BY <2>1 DEF Aiming
  <2> QED BY <2>1, <2>2, SlackKept, StaleKept
<1>6. ASSUME NEW t \in Threads, Remove(t) PROVE Stale' /\ Slack'
  <2>1. gone' # {}
    BY <1>6, PoolConstants DEF Remove, Placed, AtWork
  <2> QED BY <2>1 DEF Stale, Slack
<1>7. ASSUME NEW t \in Threads, NEW c \in Clients, Accept(t, c) PROVE Stale' /\ Slack'
  <2>1. /\ UNCHANGED <<gone, queue, min, mthread>>
        /\ seen'[t] = 0 /\ \A x \in Threads \ {t} : seen'[x] = seen[x] /\ (Holding(x)' <=> Holding(x))
    BY <1>7, Typed DEF Accept, Placed, ThreadsTyped, SearchTyped, Holding
  <2>2. \A x \in Threads, v \in Nat : Aiming(x, v)' \subseteq Aiming(x, v)
    BY <2>1 DEF Aiming
  <2> QED BY <2>1, <2>2, SlackKept, StaleKept
<1>8. ASSUME NEW t \in Threads, ReadSize(t) \/ Put(t) PROVE Stale' /\ Slack'
  BY <1>8, ReadSizeBalanced, PutBalanced
<1>9. ASSUME NEW c \in Clients, Connect(c) \/ Send(c) \/ HangUp(c) PROVE Stale' /\ Slack'
  BY <1>9, SlackKept, StaleKept DEF Connect, Send, HangUp, Aiming, Holding
<1> QED BY <1>1, <1>2, <1>3, <1>4, <1>5, <1>6, <1>7, <1>8, <1>9 DEF Next, Owner, Work

-----------------------------------------------------------------------------
(* The property.                                                           *)

LEMMA HomesCounted == ASSUME Placed PROVE OneHome
<1>0. backlog \cap (gone \cup lost) = {} /\ gone \cap lost = {}
  BY DEF Placed, Homed
<1> SUFFICES ASSUME NEW c \in known
             PROVE  Cardinality(Homes(c)) = IF c \in backlog \cup gone \cup lost THEN 0 ELSE 1
  BY <1>0 DEF OneHome
<1>1. c \in Clients
  BY Typed DEF Placed, RestTyped
<1>2. CASE c \in backlog \cup gone \cup lost
  <2>1. Homes(c) = {}
    BY <1>1, <1>2 DEF Placed, Homed, Homes, Away, HeldBy
  <2> QED BY <1>2, <2>1, FS_EmptySet
<1>3. CASE c \notin backlog \cup gone \cup lost
  <2>1. PICK t \in Threads : c \in queue[t] \/ HeldBy(t, c)
    BY <1>1, <1>3 DEF Placed, Homed, Away
  <2>2. Homes(c) = {t}
    BY <1>1, <2>1 DEF Placed, Homed, Homes, HeldBy
  <2> QED BY <1>3, <2>2, FS_Singleton
<1> QED BY <1>2, <1>3

LEMMA SizesAlike == ASSUME PoolIInv PROVE Balanced
<1> SUFFICES ASSUME gone = {}, NEW t \in Threads, NEW u \in Threads
             PROVE  Size(t) <= Size(u) + Cardinality(Acceptors)
  BY DEF Balanced, Size
<1>1. Size(t) \in Nat /\ Size(u) \in Nat
  BY QueuesFinite DEF PoolIInv, Placed
<1>2. Cardinality(Aiming(t, Size(u))) \in Nat /\ Cardinality(Acceptors) \in Nat
  BY SomeThreads DEF Aiming, Acceptors
<1>3. Size(u) <= Size(t) =>
        Cardinality(Aiming(t, Size(u))) + Size(t) <= Size(u) + Cardinality(Acceptors)
  BY <1>1 DEF PoolIInv, Slack
<1> QED BY <1>1, <1>2, <1>3

(* Whatever the threads of a pool interleave: a client that connected is   *)
(* in one place (ecasync_addSingle hands it to one queue), the queues      *)
(* differ by no more than the threads that accept, although their sizes    *)
(* are stale when they are compared, and the accept context is not         *)
(* destroyed while it is in a queue.                                       *)
THEOREM PoolKeepsClients == Spec => []PoolInv
<1>1. Init => PoolIInv
  BY PoolStarts, PoolBalancedAtFirst DEF PoolIInv
<1>2. PoolIInv /\ [Next]_vars => PoolIInv'
  BY PoolPlaced, PoolBalanced DEF PoolIInv
<1>3. PoolIInv => PoolInv
  BY HomesCounted, SizesAlike DEF PoolIInv, PoolInv, Placed, SharedAlive
<1> QED BY <1>1, <1>2, <1>3, PTL DEF Spec
=============================================================================
