------------------------------ MODULE AsyncIO ------------------------------
(***************************************************************************)
(* EcAsync of src/entc/system/ecasyncio.c, with the TCP contexts of        *)
(* src/entc/tools/ecasyncvc.c: a pool of threads, each with its own        *)
(* EcEventContext and EventQueue.  The accept context is in the queue of   *)
(* several threads (ecasync_addToAll, a shared context with a reference    *)
(* counter) or of one; the thread that accepts a client makes a worker     *)
(* context of it and hands it to the thread whose queue has the fewest     *)
(* entries, looking at one queue after the other.  The owner of the pool   *)
(* sets it up and destroys it.                                             *)
(*                                                                         *)
(* Of an EventQueue (see the module of that name) the pool keeps what its  *)
(* threads meet of each other: a thread holds the mutex of its own queue   *)
(* while it is in select(); ece_list_size waits for that mutex; ece_list_  *)
(* add and _del put a token into intrfd first, which ends the select(),    *)
(* then change the queue under the mutex, then read the tokens back, which *)
(* blocks while there is none.                                             *)
(***************************************************************************)
EXTENDS Naturals, FiniteSets

CONSTANTS
  NumThreads,   \* ecasync_create (threads)
  Ways,         \* how the owner may add the accept context: TRUE, ecasync_addToAll,
                \* FALSE, ecasync_addSingle
  Clients,      \* the clients that may connect
  MaxSends,     \* bound on how often a client sends
  Listener,     \* the accept context, or the wrapper of it in a queue
  NoClient

ASSUME PoolConstants ==
  /\ NumThreads \in Nat \ {0}
  /\ Ways \subseteq BOOLEAN
  /\ IsFiniteSet(Clients)
  /\ MaxSends \in Nat
  /\ Listener \notin Clients
  /\ NoClient \notin Clients

Threads == 1 .. NumThreads

VARIABLES
  shared,     \* the way the owner has chosen
  owner,      \* what the owner of the pool does, and for which thread
  pc,         \* where each pool thread is
  client,     \* the client a thread receives from, removes or hands over
  seen,       \* ecasync_addSingle: how many queues it has looked at
  min,        \* ... the smallest size it has seen
  mthread,    \* ... and whose it was
  queue,      \* the contexts in the queue of each thread
  intr,       \* the tokens in intrfd of each queue
  abort,      \* threads whose EcEventContext was told to abort
  freed,      \* threads whose EcAsyncThread was freed
  cnt,        \* the reference counter of the accept context
  closed,     \* the accept context was destroyed
  backlog,    \* clients that connected and were not accepted
  readable,   \* clients that sent something that was not read
  hungup,     \* clients that closed their end
  known,      \* clients that ever connected
  sent,       \* how often each client has sent
  gone,       \* clients whose context was destroyed
  lost        \* clients whose context was refused by the queue and forgotten

search == <<seen, min, mthread>>
accept == <<shared, cnt, closed>>
world  == <<backlog, readable, hungup, known, sent>>
queues == <<queue, intr>>
fate   == <<gone, lost>>
vars   == <<owner, pc, client, search, queues, abort, freed, accept, world, fate>>

(* wait: in ece_list_wait, wants the mutex.  select: holds it.  recv,      *)
(* accept: runs a context.  size, store: in ecasync_addSingle.  put,       *)
(* added: in ece_list_add, before and after the change.  del: the          *)
(* context's run answered FALSE.  remove, removed: in ece_list_del, before *)
(* and after the change.                                                   *)
Places == {"wait", "select", "recv", "accept", "size", "store", "put", "added",
           "del", "remove", "removed", "ended"}

TypeOK ==
  /\ shared \in Ways
  /\ owner \in [does : {"add", "put", "added", "serve", "stop", "join", "done"},
               next : 1 .. NumThreads + 1]
  /\ pc \in [Threads -> Places]
  /\ client \in [Threads -> Clients \cup {NoClient, Listener}]
  /\ seen \in [Threads -> 0 .. NumThreads]
  /\ min \in [Threads -> Nat]
  /\ mthread \in [Threads -> Threads]
  /\ queue \in [Threads -> SUBSET (Clients \cup {Listener})]
  /\ intr \in [Threads -> Nat]
  /\ abort \subseteq Threads /\ freed \subseteq Threads
  /\ cnt \in Nat /\ closed \in BOOLEAN
  /\ backlog \subseteq Clients /\ readable \subseteq Clients
  /\ hungup \subseteq Clients /\ known \subseteq Clients
  /\ sent \in [Clients -> 0 .. MaxSends]
  /\ gone \subseteq Clients /\ lost \subseteq Clients

(* ecasync_create: the threads are started and have nothing to wait for.   *)
(* The listening socket is open.  The owner gives the accept context to    *)
(* the threads from the second on and then to the first, or to that alone. *)
Init ==
  /\ shared \in Ways
  /\ owner = [does |-> "add", next |-> IF shared THEN 2 ELSE NumThreads + 1]
  /\ pc = [t \in Threads |-> "wait"]
  /\ client = [t \in Threads |-> NoClient]
  /\ seen = [t \in Threads |-> 0]
  /\ min = [t \in Threads |-> 0]
  /\ mthread = [t \in Threads |-> 1]
  /\ queue = [t \in Threads |-> {}]
  /\ intr = [t \in Threads |-> 0]
  /\ abort = {} /\ freed = {}
  /\ cnt = 1 /\ closed = FALSE
  /\ backlog = {} /\ readable = {} /\ hungup = {} /\ known = {}
  /\ sent = [c \in Clients |-> 0]
  /\ gone = {} /\ lost = {}

-----------------------------------------------------------------------------
(* The steps of ece_list_add and ece_list_del on the queue of thread u.    *)
Interrupt(u) == intr' = [intr EXCEPT ![u] = @ + 1]
Unlocked(u) == pc[u] # "select"
ResetEvent(u) == intr[u] > 0 /\ intr' = [intr EXCEPT ![u] = 0]

-----------------------------------------------------------------------------
(* The owner.                                                              *)
pool == <<pc, client, search>>

Registered(u) == queue' = [queue EXCEPT ![u] = @ \cup {Listener}]
OwnerTarget == IF owner.next <= NumThreads THEN owner.next ELSE 1

(* ecasync_addToAll: the clones go to the threads after the first one, the *)
(* first wrapper to the first thread, last.  The counter stays at one.     *)
(* ecasync_addSingle, when every queue is empty, takes the first thread.   *)
(* The listening socket was opened early: its descriptor is not refused.   *)
OwnerAdd ==
  /\ owner.does = "add"
  /\ Interrupt(OwnerTarget)
  /\ owner' = [owner EXCEPT !.does = "put"]
  /\ UNCHANGED <<pool, queue, abort, freed, accept, world, fate>>

OwnerPut ==
  /\ owner.does = "put" /\ Unlocked(OwnerTarget)
  /\ Registered(OwnerTarget)
  /\ owner' = [owner EXCEPT !.does = "added"]
  /\ UNCHANGED <<pool, intr, abort, freed, accept, world, fate>>

OwnerAdded ==
  /\ owner.does = "added"
  /\ ResetEvent(OwnerTarget)
  /\ owner' = IF owner.next <= NumThreads
              THEN [does |-> "add", next |-> owner.next + 1]
              ELSE [does |-> "serve", next |-> 1]
  /\ UNCHANGED <<pool, queue, abort, freed, accept, world, fate>>

(* ecasync_clear stops every thread, then joins one after the other and    *)
(* frees what it has joined.  What is left in the queues is not destroyed. *)
Clear ==
  /\ owner.does = "serve"
  /\ owner' = [does |-> "stop", next |-> 1]
  /\ UNCHANGED <<pool, queues, abort, freed, accept, world, fate>>

(* Mutation: the first thread is told again and again.                     *)
StopFirstOnly ==
  /\ owner.does = "stop"
  /\ abort' = abort \cup {1}
  /\ owner' = IF owner.next < NumThreads
              THEN [owner EXCEPT !.next = @ + 1]
              ELSE [does |-> "join", next |-> 1]
  /\ UNCHANGED <<pool, queues, freed, accept, world, fate>>

(* Mutation: one thread too many.                                          *)
StopTooFar ==
  /\ owner.does = "stop"
  /\ abort' = abort \cup {owner.next}
  /\ owner' = IF owner.next <= NumThreads
              THEN [owner EXCEPT !.next = @ + 1]
              ELSE [does |-> "join", next |-> 1]
  /\ UNCHANGED <<pool, queues, freed, accept, world, fate>>

Stop ==
  /\ owner.does = "stop"
  /\ abort' = abort \cup {owner.next}
  /\ owner' = IF owner.next < NumThreads
              THEN [owner EXCEPT !.next = @ + 1]
              ELSE [does |-> "join", next |-> 1]
  /\ UNCHANGED <<pool, queues, freed, accept, world, fate>>

Join ==
  /\ owner.does = "join"
  /\ pc[owner.next] = "ended"
  /\ freed' = freed \cup {owner.next}
  /\ owner' = IF owner.next < NumThreads
              THEN [owner EXCEPT !.next = @ + 1]
              ELSE [does |-> "done", next |-> 1]
  /\ UNCHANGED <<pool, queues, abort, accept, world, fate>>

-----------------------------------------------------------------------------
(* ecasync_thread_run, called again and again while it answers TRUE.       *)

Go(t, place) == pc' = [pc EXCEPT ![t] = place]

Ready(t) ==
  {c \in queue[t] : IF c = Listener THEN backlog # {} ELSE c \in readable \cup hungup}

Lock(t) ==
  /\ pc[t] = "wait"
  /\ Go(t, "select")
  /\ UNCHANGED <<owner, client, search, queues, abort, freed, accept, world, fate>>

(* ece_list_select looks at the abort first, then at intrfd, then at the   *)
(* contexts.  The tokens stay where they are.                              *)
WaitAbort(t) ==
  /\ pc[t] = "select" /\ t \in abort
  /\ Go(t, "ended")
  /\ UNCHANGED <<owner, client, search, queues, abort, freed, accept, world, fate>>

(* Somebody changes the queue: ece_list_wait releases the mutex and takes  *)
(* it again ...                                                            *)
WaitInternal(t) ==
  /\ pc[t] = "select" /\ t \notin abort /\ intr[t] > 0
  /\ Go(t, "wait")
  /\ UNCHANGED <<owner, client, search, queues, abort, freed, accept, world, fate>>

(* ... as it does when a signal interrupts select().                       *)
WaitSignal(t) ==
  /\ pc[t] = "select"
  /\ Go(t, "wait")
  /\ UNCHANGED <<owner, client, search, queues, abort, freed, accept, world, fate>>

(* The queue answers with one of its contexts that is ready.               *)
WaitEvent(t, c) ==
  /\ pc[t] = "select" /\ t \notin abort /\ intr[t] = 0
  /\ c \in Ready(t)
  /\ Go(t, IF c = Listener THEN "accept" ELSE "recv")
  /\ client' = [client EXCEPT ![t] = c]
  /\ UNCHANGED <<owner, search, queues, abort, freed, accept, world, fate>>

(* Nothing happened for 1000 ms.  The thread takes the mutex once more for *)
(* ece_list_sortout, but the worker contexts were made with ENTC_INFINITE  *)
(* and the accept context has no time-out callback: nothing is sorted out. *)
WaitTimeout(t) ==
  /\ pc[t] = "select" /\ t \notin abort /\ intr[t] = 0
  /\ Ready(t) = {}
  /\ Go(t, "wait")
  /\ UNCHANGED <<owner, client, search, queues, abort, freed, accept, world, fate>>

Home(t) ==
  /\ Go(t, "wait")
  /\ client' = [client EXCEPT ![t] = NoClient]

(* Mutation: the end of the stream does not end the context.               *)
RecvKeepsDead(t) ==
  /\ pc[t] = "recv"
  /\ readable' = readable \ {client[t]}
  /\ Home(t)
  /\ UNCHANGED <<owner, search, queues, abort, freed, accept, backlog, hungup, known, sent, fate>>

(* ecasync_worker_run: what was sent is read and given to the callback, or *)
(* the peer is gone and the context will be removed.                       *)
Recv(t) ==
  /\ pc[t] = "recv"
  /\ IF client[t] \in readable
     THEN readable' = readable \ {client[t]} /\ Home(t)
     ELSE Go(t, "del") /\ UNCHANGED <<readable, client>>
  /\ UNCHANGED <<owner, search, queues, abort, freed, accept, backlog, hungup, known, sent, fate>>

(* ece_list_del on the thread's own queue, with ecasync_context_destroy.   *)
(* For the accept context that is ecasync_smartcontext_destroy: the last   *)
(* reference destroys it.                                                  *)
Del(t) ==
  /\ pc[t] = "del"
  /\ Interrupt(t)
  /\ Go(t, "remove")
  /\ UNCHANGED <<owner, client, search, queue, abort, freed, accept, world, fate>>

Remove(t) ==
  /\ pc[t] = "remove"
  /\ queue' = [queue EXCEPT ![t] = @ \ {client[t]}]
  /\ IF client[t] = Listener
     THEN /\ cnt' = IF cnt > 0 THEN cnt - 1 ELSE 0
          /\ closed' = (closed \/ cnt = 1)
          /\ UNCHANGED <<shared, gone>>
     ELSE gone' = gone \cup {client[t]} /\ UNCHANGED accept
  /\ Go(t, "removed")
  /\ UNCHANGED <<owner, client, search, intr, abort, freed, world, lost>>

Removed(t) ==
  /\ pc[t] = "removed"
  /\ ResetEvent(t)
  /\ Home(t)
  /\ UNCHANGED <<owner, search, queue, abort, freed, accept, world, fate>>

-----------------------------------------------------------------------------
(* ecasync_accept_run: accept() on a socket that blocks.  With several     *)
(* threads at the same socket the client may be gone by now.               *)
Accept(t, c) ==
  /\ pc[t] = "accept"
  /\ c \in backlog
  /\ backlog' = backlog \ {c}
  /\ client' = [client EXCEPT ![t] = c]
  /\ seen' = [seen EXCEPT ![t] = 0]
  /\ Go(t, "size")
  /\ UNCHANGED <<owner, min, mthread, queues, abort, freed, accept, readable, hungup, known, sent, fate>>

(* Mutation: the accept context asks to be removed after an error.         *)
AcceptFailedRemoves(t) ==
  /\ pc[t] = "accept"
  /\ Go(t, "del")
  /\ UNCHANGED <<owner, client, search, queues, abort, freed, accept, world, fate>>

(* accept() was interrupted by a signal: no client, run answers TRUE.      *)
AcceptFailed(t) ==
  /\ pc[t] = "accept"
  /\ Home(t)
  /\ UNCHANGED <<owner, search, queues, abort, freed, accept, world, fate>>

(* ecasync_addSingle: the size of one queue after the other, each read     *)
(* under the mutex of that queue alone.                                    *)
ReadSize(t) ==
  /\ pc[t] = "size"
  /\ LET u    == seen[t] + 1
         size == Cardinality(queue[u])
     IN  /\ Unlocked(u)
         /\ seen' = [seen EXCEPT ![t] = u]
         /\ IF u = 1 \/ size < min[t]
            THEN min' = [min EXCEPT ![t] = size] /\ mthread' = [mthread EXCEPT ![t] = u]
            ELSE UNCHANGED <<min, mthread>>
         /\ IF u = NumThreads THEN Go(t, "store") ELSE UNCHANGED pc
  /\ UNCHANGED <<owner, client, queues, abort, freed, accept, world, fate>>

(* ecasync_thread_add: ece_list_add on the queue of the thread it chose.   *)
Store(t) ==
  /\ pc[t] = "store"
  /\ Interrupt(mthread[t])
  /\ Go(t, "put")
  /\ UNCHANGED <<owner, client, search, queue, abort, freed, accept, world, fate>>

(* Mutation: the new context stays with the thread that accepted it.       *)
PutHere(t) ==
  /\ pc[t] = "put" /\ Unlocked(mthread[t])
  /\ queue' = [queue EXCEPT ![t] = @ \cup {client[t]}]
  /\ Go(t, "added")
  /\ UNCHANGED <<owner, client, search, intr, abort, freed, accept, world, fate>>

(* Mutation: the new context is put into every queue.                      *)
PutEverywhere(t) ==
  /\ pc[t] = "put" /\ Unlocked(mthread[t])
  /\ queue' = [u \in Threads |-> queue[u] \cup {client[t]}]
  /\ Go(t, "added")
  /\ UNCHANGED <<owner, client, search, intr, abort, freed, accept, world, fate>>

Put(t) ==
  /\ pc[t] = "put" /\ Unlocked(mthread[t])
  /\ queue' = [queue EXCEPT ![mthread[t]] = @ \cup {client[t]}]
  /\ Go(t, "added")
  /\ UNCHANGED <<owner, client, search, intr, abort, freed, accept, world, fate>>

(* The descriptor that accept() gave is not below FD_SETSIZE, when the     *)
(* process has that many open: ece_list_add answers FALSE, which nobody    *)
(* looks at.  The context is in no queue, and *pcontext is set to NULL.    *)
Refused(t) ==
  /\ pc[t] = "put" /\ Unlocked(mthread[t])
  /\ lost' = lost \cup {client[t]}
  /\ Go(t, "added")
  /\ UNCHANGED <<owner, client, search, queues, abort, freed, accept, world, gone>>

(* The token is read back, and the locals of ecasync_addSingle are gone.   *)
Added(t) ==
  /\ pc[t] = "added"
  /\ ResetEvent(mthread[t])
  /\ seen' = [seen EXCEPT ![t] = 0]
  /\ min' = [min EXCEPT ![t] = 0]
  /\ mthread' = [mthread EXCEPT ![t] = 1]
  /\ Home(t)
  /\ UNCHANGED <<owner, queue, abort, freed, accept, world, fate>>

-----------------------------------------------------------------------------
(* The clients.                                                            *)
inside == <<owner, pool, queues, abort, freed, accept, fate>>

Connect(c) ==
  /\ c \notin known
  /\ known' = known \cup {c}
  /\ backlog' = backlog \cup {c}
  /\ UNCHANGED <<inside, readable, hungup, sent>>

Send(c) ==
  /\ c \in known \ hungup
  /\ sent[c] < MaxSends
  /\ sent' = [sent EXCEPT ![c] = @ + 1]
  /\ readable' = readable \cup {c}
  /\ UNCHANGED <<inside, backlog, hungup, known>>

HangUp(c) ==
  /\ c \in known \ hungup
  /\ hungup' = hungup \cup {c}
  /\ UNCHANGED <<inside, backlog, readable, known, sent>>

-----------------------------------------------------------------------------
Owner == OwnerAdd \/ OwnerPut \/ OwnerAdded \/ Stop \/ Join

Work(t) ==
  \/ WaitAbort(t) \/ WaitInternal(t) \/ WaitTimeout(t)
  \/ Recv(t) \/ Del(t) \/ Remove(t) \/ Removed(t)
  \/ ReadSize(t) \/ Store(t) \/ Put(t) \/ Refused(t) \/ Added(t)
  \/ \E c \in Clients \cup {Listener} : WaitEvent(t, c)
  \/ \E c \in Clients : Accept(t, c)

Next ==
  \/ Owner \/ Clear
  \/ \E t \in Threads : Work(t) \/ Lock(t) \/ WaitSignal(t) \/ AcceptFailed(t)
  \/ \E c \in Clients : Connect(c) \/ Send(c) \/ HangUp(c)

Spec == Init /\ [][Next]_vars

(* A thread goes on as far as it can.  Strong where it waits for what      *)
(* others give back again and again: a mutex that a thread leaves after    *)
(* 1000 ms of select() at the latest, a select() or an accept() that       *)
(* signals cut short, but not each time.  No signal and no shutdown        *)
(* (Clear) is promised, nor that a token comes back.  The clients send     *)
(* MaxSends times at most: the queue prefers lower handles, and one that   *)
(* never rests would starve the others.                                    *)
Fairness ==
  /\ SF_vars(Owner)
  /\ \A t \in Threads :
       WF_vars(Lock(t)) /\ SF_vars(Work(t)) /\ SF_vars(\E c \in Clients : Accept(t, c))

FairSpec == Spec /\ Fairness

-----------------------------------------------------------------------------
(* Properties.                                                             *)

Holding(t) == pc[t] \in {"size", "store", "put"}
Homes(c) == {t \in Threads : c \in queue[t]} \cup {t \in Threads : Holding(t) /\ client[t] = c}

(* However many threads race for a client, one thread gets it: a client    *)
(* that connected is not accepted yet, on its way into one queue, in one   *)
(* queue, its context was destroyed, or the queue refused its descriptor   *)
(* and nobody has it; only one of these.                                   *)
OneHome ==
  /\ backlog \cap (gone \cup lost) = {} /\ gone \cap lost = {}
  /\ \A c \in known :
       Cardinality(Homes(c)) = IF c \in backlog \cup gone \cup lost THEN 0 ELSE 1

(* "add context to the thread queue which has least entries": the sizes    *)
(* are stale when they are used, so each thread that may accept at the     *)
(* same time can be wrong by one.  (Once contexts are removed there is no  *)
(* such bound.)                                                            *)
Acceptors == {t \in Threads : Listener \in queue[t]}
Balanced ==
  gone = {} =>
     \A t, u \in Threads : Cardinality(queue[t]) <= Cardinality(queue[u]) + Cardinality(Acceptors)

(* The accept context is not destroyed while a thread may run it, though   *)
(* the clones never counted their reference.                               *)
SharedAlive == \A t \in Threads : Listener \in queue[t] => ~closed

(* ecasync_addSingle uses no thread of the pool that was freed already.    *)
LooksAtLiving ==
  \A t \in Threads :
    /\ pc[t] = "size" => seen[t] + 1 \notin freed
    /\ pc[t] \in {"store", "put", "added"} => mthread[t] \notin freed

(* A change whose token another change has read back: it waits for the    *)
(* token of a later change of that queue, if there is one.  This happens   *)
(* in a pool of two threads: the first hands a client to the second, which *)
(* removes another one (see queue_overlap in the README).                  *)
Stuck ==
  \/ \E t \in Threads : \/ pc[t] = "added" /\ intr[mthread[t]] = 0
                        \/ pc[t] = "removed" /\ intr[t] = 0
  \/ owner.does = "added" /\ intr[OwnerTarget] = 0

(* What a client sent is received, and a client that hung up is removed,   *)
(* unless the pool is shut down, its descriptor was refused, or changes of *)
(* a queue overlap and one of them is stuck.  (Shared, a thread that is    *)
(* stuck in accept() serves no client: see DestroyReturns.)                *)
ClientServed ==
  \A c \in Clients :
    (c \in readable \cup hungup /\ ~shared)
       ~> \/ c \notin readable /\ (c \in hungup => c \in gone)
          \/ c \in lost \/ abort # {} \/ Stuck

(* ecasync_destroy returns, when one thread alone accepts and no change is *)
(* stuck: it calls accept() only when a client is there ...                *)
AloneReturns == (owner.does = "stop" /\ ~shared) ~> (owner.does = "done" \/ Stuck)

(* ... and whoever accepts, and whatever overlaps.                         *)
DestroyReturns == (owner.does = "stop") ~> (owner.does = "done")

(* Types, one home for every client, queues of like size, and an accept    *)
(* context that lives as long as it is in a queue.                         *)
PoolInv == TypeOK /\ OneHome /\ Balanced /\ SharedAlive

(* Clients are served, and the pool of one accepting thread is destroyed,  *)
(* where no queue refuses and no change is stuck.                          *)
PoolServes == ClientServed /\ AloneReturns
=============================================================================
