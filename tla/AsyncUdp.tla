------------------------------ MODULE AsyncUdp ------------------------------
(***************************************************************************)
(* The UDP dispatcher of src/entc/tools/ecasyncvc.c.  Pool threads read    *)
(* datagrams; the dispatcher keeps one EcAsyncUdpContext per peer in a map *)
(* under its mutex.  A context has a mutex of its own: it is held while    *)
(* the receive callback runs, and while a broadcast sends to its peer.     *)
(* The callback may broadcast to the other peers, and so may threads       *)
(* outside the pool, which keep a reference to the dispatcher.             *)
(***************************************************************************)
EXTENDS Naturals, FiniteSets

CONSTANTS
  Dispatchers,   \* pool threads whose queue has the dispatcher's socket
  Callers,       \* other threads that call ecasync_udpdisp_broadcast
  Peers,         \* the idents: address and port of the senders
  Contexts,      \* what the dispatcher callback can create
  Nothing,       \* NULL, no thread, no peer
  Settings,      \* which threads there are, and what the receive callback may
                 \* do (keep, close, broadcast), in one behaviour
  MaxDatagrams   \* bound on the datagrams of a peer

Threads == Dispatchers \cup Callers

ASSUME DispatcherConstants ==
  /\ IsFiniteSet(Threads) /\ Dispatchers \cap Callers = {}
  /\ Nothing \notin Threads \cup Peers \cup Contexts
  /\ Settings \subseteq [threads : SUBSET Threads, replies : SUBSET {"keep", "close", "broadcast"}]
  /\ MaxDatagrams \in Nat
  \* the callback never runs out of contexts: a peer needs one, or, when
  \* contexts are closed, one for each of its datagrams
  /\ IsFiniteSet(Contexts) /\ IsFiniteSet(Peers)
  /\ Cardinality(Contexts) >= Cardinality(Peers) *
       (IF \E s \in Settings : "close" \in s.replies THEN MaxDatagrams ELSE Cardinality(Dispatchers))

VARIABLES
  threads,    \* the threads there are
  replies,    \* what the receive callback may do
  mutex,      \* owner of the dispatcher's mutex
  cmutex,     \* owner of each context's mutex
  contexts,   \* self->contexts: the context of each ident
  memory,     \* unused, live or freed, for each context
  peer,       \* the sender of the datagram a context holds (self->dg)
  inbox,      \* datagrams in the socket, by sender
  received,   \* datagrams that arrived so far, by sender
  pc,         \* where each thread is
  ident,      \* the sender of the datagram a thread has read
  context,    \* the context it works with; for a broadcast, the one to leave out
  todo,       \* the contexts its broadcast still has to send to
  touched     \* contexts that were used after they were freed

fixed == <<threads, replies>>
locks == <<mutex, cmutex>>
mem   == <<memory, peer, touched>>
net   == <<inbox, received>>
vars  == <<fixed, locks, contexts, mem, net, pc, ident, context, todo>>

Places == {"idle", "find", "lock", "recv", "close", "destroy", "erase",
           "disp", "next", "send"}

TypeOK ==
  /\ [threads |-> threads, replies |-> replies] \in Settings
  /\ mutex \in Threads \cup {Nothing}
  /\ cmutex \in [Contexts -> Threads \cup {Nothing}]
  /\ contexts \in [Peers -> Contexts \cup {Nothing}]
  /\ memory \in [Contexts -> {"unused", "live", "freed"}]
  /\ peer \in [Contexts -> Peers \cup {Nothing}]
  /\ inbox \in [Peers -> 0 .. MaxDatagrams]
  /\ received \in [Peers -> 0 .. MaxDatagrams]
  /\ pc \in [Threads -> Places]
  /\ ident \in [Threads -> Peers \cup {Nothing}]
  /\ context \in [Threads -> Contexts \cup {Nothing}]
  /\ todo \in [Threads -> SUBSET Contexts]
  /\ touched \subseteq Contexts

(* ecasync_udpdisp_create, added to the queues of the pool threads.        *)
Init ==
  /\ \E s \in Settings : threads = s.threads /\ replies = s.replies
  /\ mutex = Nothing
  /\ cmutex = [c \in Contexts |-> Nothing]
  /\ contexts = [p \in Peers |-> Nothing]
  /\ memory = [c \in Contexts |-> "unused"]
  /\ peer = [c \in Contexts |-> Nothing]
  /\ inbox = [p \in Peers |-> 0] /\ received = [p \in Peers |-> 0]
  /\ pc = [t \in Threads |-> "idle"]
  /\ ident = [t \in Threads |-> Nothing]
  /\ context = [t \in Threads |-> Nothing]
  /\ todo = [t \in Threads |-> {}]
  /\ touched = {}

-----------------------------------------------------------------------------
Go(t, place) == pc' = [pc EXCEPT ![t] = place]

(* Using a context is fine as long as it was not freed.                    *)
Touch(c) == touched' = touched \cup (IF memory[c] = "freed" THEN {c} ELSE {})

(* Mutation: a datagram is made of an empty socket.                        *)
ReadNothing(t, p) ==
  /\ t \in Dispatchers \cap threads /\ pc[t] = "idle"
  /\ received[p] > 0
  /\ inbox' = [inbox EXCEPT ![p] = @ - 1]
  /\ ident' = [ident EXCEPT ![t] = p]
  /\ Go(t, "find")
  /\ UNCHANGED <<fixed, locks, contexts, mem, received, context, todo>>

(* ecasync_udpdisp_run.  The socket was ready; recvfrom() takes a datagram *)
(* (or blocks, when another thread was faster).                            *)
Read(t, p) ==
  /\ t \in Dispatchers \cap threads /\ pc[t] = "idle"
  /\ inbox[p] > 0
  /\ inbox' = [inbox EXCEPT ![p] = @ - 1]
  /\ ident' = [ident EXCEPT ![t] = p]
  /\ Go(t, "find")
  /\ UNCHANGED <<fixed, locks, contexts, mem, received, context, todo>>

(* Mutation: the callback runs without the mutex, which is taken again to   *)
(* append what it made, without a second look.                             *)
FindInTwoSteps(t) ==
  /\ pc[t] = "find"
  /\ mutex = Nothing
  /\ IF context[t] # Nothing
     THEN /\ contexts' = [contexts EXCEPT ![ident[t]] = context[t]]
          /\ Go(t, "lock")
          /\ UNCHANGED <<memory, context>>
     ELSE IF contexts[ident[t]] # Nothing
     THEN /\ context' = [context EXCEPT ![t] = contexts[ident[t]]]
          /\ Go(t, "lock")
          /\ UNCHANGED <<contexts, memory>>
     ELSE /\ \E c \in Contexts :
               /\ memory[c] = "unused"
               /\ memory' = [memory EXCEPT ![c] = "live"]
               /\ context' = [context EXCEPT ![t] = c]
          /\ UNCHANGED <<contexts, pc>>
  /\ UNCHANGED <<fixed, locks, peer, touched, net, ident, todo>>

(* Under the dispatcher's mutex: the context of the sender, made by the    *)
(* dispatcher callback if there is none.  The mutex is released.           *)
Find(t) ==
  /\ pc[t] = "find"
  /\ mutex = Nothing
  /\ IF contexts[ident[t]] # Nothing
     THEN /\ context' = [context EXCEPT ![t] = contexts[ident[t]]]
          /\ UNCHANGED <<contexts, memory>>
     ELSE \E c \in Contexts :
            /\ memory[c] = "unused"
            /\ memory' = [memory EXCEPT ![c] = "live"]
            /\ contexts' = [contexts EXCEPT ![ident[t]] = c]
            /\ context' = [context EXCEPT ![t] = c]
  /\ Go(t, "lock")
  /\ UNCHANGED <<fixed, locks, peer, touched, net, ident, todo>>

(* ecasync_udpcontext_recv: under the context's mutex the datagram         *)
(* replaces the one of before, and the callback is called.                 *)
RecvLock(t) ==
  /\ pc[t] = "lock"
  /\ LET c == context[t]
     IN  /\ cmutex[c] = Nothing
         /\ Touch(c)
         /\ cmutex' = [cmutex EXCEPT ![c] = t]
         /\ peer' = [peer EXCEPT ![c] = ident[t]]
  /\ ident' = [ident EXCEPT ![t] = Nothing]
  /\ Go(t, "recv")
  /\ UNCHANGED <<fixed, mutex, contexts, memory, net, context, todo>>

Leave(t, place) ==
  /\ cmutex' = [cmutex EXCEPT ![context[t]] = Nothing]
  /\ Go(t, place)

(* The callback answers TRUE ...                                           *)
RecvKeep(t) ==
  /\ pc[t] = "recv" /\ "keep" \in replies
  /\ Leave(t, "idle")
  /\ context' = [context EXCEPT ![t] = Nothing]
  /\ UNCHANGED <<fixed, mutex, contexts, mem, net, ident, todo>>

(* ... or FALSE: the context is to be closed ...                           *)
RecvClose(t) ==
  /\ pc[t] = "recv" /\ "close" \in replies
  /\ Leave(t, "destroy")
  /\ UNCHANGED <<fixed, mutex, contexts, mem, net, ident, context, todo>>

(* ... or it broadcasts to the others first.                               *)
RecvBroadcast(t) ==
  /\ pc[t] = "recv" /\ "broadcast" \in replies
  /\ Go(t, "disp")
  /\ UNCHANGED <<fixed, locks, contexts, mem, net, ident, context, todo>>

(* ecasync_udpcontext_destroy, without any mutex: the map still has it.    *)
CloseDestroy(t) ==
  /\ pc[t] = "destroy"
  /\ memory' = [memory EXCEPT ![context[t]] = "freed"]
  /\ Touch(context[t])
  /\ Go(t, "erase")
  /\ UNCHANGED <<fixed, locks, contexts, peer, net, ident, context, todo>>

(* Mutation: the node stays in the map.                                    *)
CloseForgets(t) ==
  /\ pc[t] = "erase"
  /\ mutex = Nothing
  /\ context' = [context EXCEPT ![t] = Nothing]
  /\ Go(t, "idle")
  /\ UNCHANGED <<fixed, locks, contexts, mem, net, ident, todo>>

(* Then, under the dispatcher's mutex, its node leaves the map.            *)
CloseErase(t) ==
  /\ pc[t] = "erase"
  /\ mutex = Nothing
  /\ contexts' = [p \in Peers |-> IF contexts[p] = context[t] THEN Nothing ELSE contexts[p]]
  /\ context' = [context EXCEPT ![t] = Nothing]
  /\ Go(t, "idle")
  /\ UNCHANGED <<fixed, locks, mem, net, ident, todo>>

-----------------------------------------------------------------------------
(* ecasync_udpdisp_broadcast.                                              *)

(* A thread outside the pool broadcasts to all peers (ctx is NULL).        *)
BroadcastCall(t) ==
  /\ t \in Callers \cap threads /\ pc[t] = "idle"
  /\ Go(t, "disp")
  /\ UNCHANGED <<fixed, locks, contexts, mem, net, ident, context, todo>>

(* The dispatcher's mutex is held over the whole loop: the map stays.      *)
BroadcastLock(t) ==
  /\ pc[t] = "disp"
  /\ mutex = Nothing
  /\ mutex' = t
  /\ todo' = [todo EXCEPT ![t] =
                {contexts[p] : p \in Peers} \ {context[t], Nothing}]
  /\ Go(t, "next")
  /\ UNCHANGED <<fixed, cmutex, contexts, mem, net, ident, context>>

(* ecasync_udpcontext_send to the next one: its mutex, the datagram, and   *)
(* the mutex is released.  A context that has no datagram yet is skipped.  *)
BroadcastSend(t, c) ==
  /\ pc[t] = "next"
  /\ c \in todo[t]
  /\ cmutex[c] = Nothing
  /\ Touch(c)
  /\ cmutex' = [cmutex EXCEPT ![c] = t]
  /\ Go(t, "send")
  /\ todo' = [todo EXCEPT ![t] = @ \ {c}]
  /\ UNCHANGED <<fixed, mutex, contexts, memory, peer, net, ident, context>>

(* Mutation: the context's mutex is kept until the broadcast is over.      *)
BroadcastKeepsContext(t) ==
  /\ pc[t] = "send"
  /\ Go(t, "next")
  /\ UNCHANGED <<fixed, locks, contexts, mem, net, ident, context, todo>>

BroadcastSent(t) ==
  /\ pc[t] = "send"
  /\ cmutex' = [c \in Contexts |->
                  IF cmutex[c] = t /\ c # context[t] THEN Nothing ELSE cmutex[c]]
  /\ Go(t, "next")
  /\ UNCHANGED <<fixed, mutex, contexts, mem, net, ident, context, todo>>

(* The callback that broadcast answers TRUE or FALSE; another thread is    *)
(* done.                                                                   *)
BroadcastDone(t) ==
  /\ pc[t] = "next" /\ todo[t] = {}
  /\ mutex' = Nothing
  /\ IF t \in Dispatchers
     THEN \/ /\ Leave(t, "idle")
             /\ context' = [context EXCEPT ![t] = Nothing]
          \/ /\ "close" \in replies
             /\ Leave(t, "destroy")
             /\ UNCHANGED context
     ELSE /\ Go(t, "idle")
          /\ UNCHANGED <<cmutex, context>>
  /\ UNCHANGED <<fixed, contexts, mem, net, ident, todo>>

(* ecasync_udpdisp_hasTimedOut: it walks through the map under the mutex   *)
(* and changes nothing (what it should do is commented out).               *)
Sortout(t) ==
  /\ t \in Dispatchers \cap threads /\ pc[t] = "idle"
  /\ mutex = Nothing
  /\ UNCHANGED vars

(* A peer sends a datagram.                                                *)
Arrive(p) ==
  /\ received[p] < MaxDatagrams
  /\ received' = [received EXCEPT ![p] = @ + 1]
  /\ inbox' = [inbox EXCEPT ![p] = @ + 1]
  /\ UNCHANGED <<fixed, locks, contexts, mem, pc, ident, context, todo>>

-----------------------------------------------------------------------------
(* The steps that wait for a mutex, and the others.                        *)
Locks(t) ==
  \/ Find(t) \/ RecvLock(t) \/ CloseErase(t) \/ BroadcastLock(t)
  \/ \E c \in Contexts : BroadcastSend(t, c)

Goes(t) ==
  \/ RecvKeep(t) \/ RecvClose(t) \/ RecvBroadcast(t) \/ CloseDestroy(t)
  \/ BroadcastSent(t) \/ BroadcastDone(t)

Next ==
  \/ \E t \in Threads : Locks(t) \/ Goes(t) \/ Sortout(t) \/ BroadcastCall(t)
  \/ \E t \in Threads, p \in Peers : Read(t, p)
  \/ \E p \in Peers : Arrive(p)

Spec == Init /\ [][Next]_vars

(* A thread that can go on does; a mutex that is free again and again is   *)
(* got in the end; a socket with a datagram is read in the end.            *)
Fairness ==
  /\ \A t \in Threads : SF_vars(Locks(t)) /\ WF_vars(Goes(t))
  /\ \A t \in Dispatchers, p \in Peers : WF_vars(Read(t, p))

FairSpec == Spec /\ Fairness

-----------------------------------------------------------------------------
(* Properties.                                                             *)

(* Whoever races to receive from a new peer, it gets one context, and that *)
(* context answers to no other peer.                                       *)
OneContextPerPeer ==
  /\ \A t, u \in Dispatchers :
       (t # u /\ pc[t] = "lock" /\ pc[u] = "lock" /\ ident[t] = ident[u]
          /\ "close" \notin replies)
         => context[t] = context[u]
  /\ \A p, q \in Peers : (p # q /\ contexts[p] # Nothing) => contexts[p] # contexts[q]
  /\ \A p \in Peers : contexts[p] # Nothing => peer[contexts[p]] \in {p, Nothing}

(* What is in the map can be used, but for the moment between the          *)
(* destruction of a context and the removal of its node.                   *)
MapIsLive ==
  \A p \in Peers :
    contexts[p] # Nothing =>
       \/ memory[contexts[p]] = "live"
       \/ \E t \in Dispatchers : pc[t] = "erase" /\ context[t] = contexts[p]

(* "we can close this context": nobody uses a context after it was freed.  *)
FreedIsUnused == touched = {}

(* ecasync_udpdisp_broadcast returns.                                      *)
Broadcasting(t) == pc[t] \in {"disp", "next", "send"}
BroadcastReturns == \A t \in Threads : Broadcasting(t) ~> ~Broadcasting(t)

(* Types, a map of contexts that can be used, one for each peer, and none  *)
(* that is used after it was freed.                                        *)
DispatcherInv == TypeOK /\ MapIsLive /\ OneContextPerPeer /\ FreedIsUnused
=============================================================================
