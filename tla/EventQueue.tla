----------------------------- MODULE EventQueue -----------------------------
(***************************************************************************)
(* EcEventQueue of src/entc/system/ecevents_linux.c: a set of file handles *)
(* that threads wait on with select(), and that other threads may change   *)
(* meanwhile.  One mutex protects the set; it is HELD DURING select(), so  *)
(* a thread that wants to change the set first writes a token into an      *)
(* internal eventfd (intrfd, itself a member of the set) to throw the      *)
(* waiter out of select(), takes the mutex, changes the set, releases the  *)
(* mutex and reads the token back.  An eventfd is a counter: a write adds  *)
(* one, a read returns the whole count and resets it to zero, and BLOCKS   *)
(* while the count is zero.                                                *)
(*                                                                         *)
(* The environment is the rest of the process: it opens handles and closes *)
(* them in the callback that destroys a context, data arrives on sockets,  *)
(* user events are set, and the process asks for termination (abort).      *)
(***************************************************************************)
EXTENDS Naturals, FiniteSets

CONSTANTS
  Waiters,      \* threads that call ece_list_wait and ece_list_sortout
  Droppers,     \* the waiters that may ece_list_del the handle they were woken for
  Changers,     \* threads that call ece_list_add and ece_list_size
  Handles,      \* file descriptors, ordered as numbers
  FdSetSize,    \* FD_SETSIZE: a handle at or above it is refused
  Objects,      \* the pointers handed to the queue
  NoObject,     \* NULL
  Null,         \* "no handle", "no thread"
  HasOnDel,     \* whether ece_list_create was given an ece_list_ondel_fct
  Expirable,    \* objects for which the sort-out callback may answer TRUE
  MaxSignals,   \* bound on the count of a user event
  MaxAborts     \* bound on the count of the abort event

Threads == Waiters \cup Changers

ASSUME QueueConstants ==
  /\ IsFiniteSet(Threads)
  /\ Droppers \subseteq Waiters
  /\ Handles \subseteq Nat
  /\ FdSetSize \in Nat
  /\ NoObject \notin Objects
  /\ Null \notin Threads \cup Handles
  /\ HasOnDel \in BOOLEAN
  /\ Expirable \subseteq Objects
  /\ MaxSignals \in Nat \ {0}
  /\ MaxAborts \in Nat \ {0}

VARIABLES
  mutex,      \* owner of self->mutex, Null if free
  intr,       \* count of self->intrfd
  abort,      \* count of ec->efd
  count,      \* counts of the user eventfds, by handle
  arrived,    \* sockets with something to read (level triggered)
  fdset,      \* fdset_r and fdset_w together, without efd and intrfd
  userhdl,    \* handles marked 0x42
  ptrset,     \* ptrset[h]
  pc,         \* where each thread is
  op,         \* the call it is in: kind and arguments
  result,     \* what its last ece_list_wait returned
  open,       \* handles the process has open
  given,      \* objects the queue is responsible for
  misfreed,   \* the destroy callback was applied to something not in given
  alive       \* ece_list_destroy has not been called

sets  == <<fdset, userhdl, ptrset>>
world == <<open, given, misfreed, alive>>
vars  == <<mutex, intr, abort, count, arrived, sets, pc, op, result, world>>

(* The arrays of the queue have FD_SETSIZE entries.                        *)
Slots == {h \in Handles : h < FdSetSize}

(* ENTC_EVENTTYPE_READ and _WRITE differ only in the fd_set that holds the *)
(* handle: both are "io" here.                                             *)
Types == {"io", "user"}
NoOp  == [kind |-> "none"]
NoResult == [event |-> "none", handle |-> Null, object |-> NoObject]

Ops == {NoOp}
       \cup [kind : {"wait", "size"}]
       \cup [kind : {"sortout"}, expired : SUBSET Objects]
       \cup [kind : {"add"}, handle : Handles, type : Types,
             object : Objects \cup {NoObject}]
       \cup [kind : {"del"}, handle : Handles]

(* lock: wants the mutex.  inside: holds it.  rewrite: has read efd and     *)
(* will write it back.  clear: ece_list_del called the callback and will    *)
(* clear the pointer.  reset: will read the token back.                     *)
Locations == {"idle", "lock", "inside", "rewrite", "clear", "reset"}

TypeOK ==
  /\ mutex \in Threads \cup {Null}
  /\ intr \in Nat
  /\ abort \in Nat
  /\ count \in [Handles -> Nat]
  /\ arrived \subseteq Handles
  /\ fdset \subseteq Slots
  /\ userhdl \subseteq Slots
  /\ ptrset \in [Handles -> Objects \cup {NoObject}]
  /\ pc \in [Threads -> Locations]
  /\ op \in [Threads -> Ops]
  /\ result \in [Threads -> [event : {"none", "abort", "timeout", "ready"},
                             handle : Handles \cup {Null},
                             object : Objects \cup {NoObject}]]
  /\ open \subseteq Handles
  /\ given \subseteq Objects
  /\ misfreed \in BOOLEAN
  /\ alive \in BOOLEAN

(* ece_list_create, with the threads not yet started.                      *)
Init ==
  /\ mutex = Null
  /\ intr = 0
  /\ abort = 0
  /\ count = [h \in Handles |-> 0]
  /\ arrived = {}
  /\ fdset = {}
  /\ userhdl = {}
  /\ ptrset = [h \in Handles |-> NoObject]
  /\ pc = [t \in Threads |-> "idle"]
  /\ op = [t \in Threads |-> NoOp]
  /\ result = [t \in Threads |-> NoResult]
  /\ open = {}
  /\ given = {}
  /\ misfreed = FALSE
  /\ alive = TRUE

-----------------------------------------------------------------------------
(* Calls.  A change puts its token into intrfd before it wants the mutex.  *)

Call(t, o) ==
  /\ alive
  /\ pc[t] = "idle"
  /\ op' = [op EXCEPT ![t] = o]
  /\ pc' = [pc EXCEPT ![t] = "lock"]
  /\ UNCHANGED <<mutex, abort, count, arrived, sets, misfreed, alive>>

(* Mutation: the token is forgotten.                                       *)
AddCallSilent(t, h, type, o) ==
  /\ h \notin open /\ o \notin given
  /\ open' = open \cup {h}
  /\ given' = given \cup ({o} \ {NoObject})
  /\ Call(t, [kind |-> "add", handle |-> h, type |-> type, object |-> o])
  /\ UNCHANGED <<intr, result>>

(* The caller has just opened h (accept, eventfd) and made o for it.       *)
AddCall(t, h, type, o) ==
  /\ h \notin open
  /\ o \notin given
  /\ open' = open \cup {h}
  /\ given' = given \cup ({o} \ {NoObject})
  /\ intr' = intr + 1
  /\ Call(t, [kind |-> "add", handle |-> h, type |-> type, object |-> o])
  /\ UNCHANGED result

Registering(h) == \E t \in Threads : op[t].kind = "add" /\ op[t].handle = h

(* A waiter removes the handle it was woken for: its peer is gone.         *)
DelCall(t, h) ==
  /\ result[t].event = "ready" /\ result[t].handle = h
  /\ intr' = intr + 1
  /\ result' = [result EXCEPT ![t] = NoResult]
  /\ Call(t, [kind |-> "del", handle |-> h])
  /\ UNCHANGED <<open, given>>

SizeCall(t) ==
  /\ Call(t, [kind |-> "size"])
  /\ UNCHANGED <<intr, open, given, result>>

(* A waiter that was told to abort does not come back.                     *)
WaitCall(t) ==
  /\ result[t].event \in {"none", "timeout"}
  /\ Call(t, [kind |-> "wait"])
  /\ UNCHANGED <<intr, open, given, result>>

SortoutCall(t, expired) ==
  /\ result[t].event = "timeout"
  /\ Call(t, [kind |-> "sortout", expired |-> expired])
  /\ UNCHANGED <<intr, open, given, result>>

(* Mutation: the mutex does not exclude.                                   *)
LockNotExclusive(t) ==
  /\ pc[t] = "lock"
  /\ mutex' = t
  /\ pc' = [pc EXCEPT ![t] = "inside"]
  /\ UNCHANGED <<intr, abort, count, arrived, sets, op, result, world>>

(* pthread_mutex_lock.                                                     *)
Lock(t) ==
  /\ pc[t] = "lock"
  /\ mutex = Null
  /\ mutex' = t
  /\ pc' = [pc EXCEPT ![t] = "inside"]
  /\ UNCHANGED <<intr, abort, count, arrived, sets, op, result, world>>

Inside(t, kind) == pc[t] = "inside" /\ op[t].kind = kind

(* pthread_mutex_unlock, and the call is over or goes on at "where".       *)
Unlock(t, where) ==
  /\ mutex' = Null
  /\ pc' = [pc EXCEPT ![t] = where]
  /\ op' = [op EXCEPT ![t] = IF where = "idle" THEN NoOp ELSE op[t]]

(* Mutation: no check against FD_SETSIZE.                                  *)
AddUnchecked(t) ==
  /\ Inside(t, "add")
  /\ fdset' = fdset \cup {op[t].handle}
  /\ ptrset' = [ptrset EXCEPT ![op[t].handle] = op[t].object]
  /\ Unlock(t, "reset")
  /\ UNCHANGED <<intr, abort, count, arrived, userhdl, result, world>>

-----------------------------------------------------------------------------
(* ece_list_add, under the mutex.  What is refused goes back to the caller *)
(* of ece_list_handle, which closes the handle; the pool's caller, ecasync_*)
(* thread_add, does not look at the answer (Refused in AsyncIO).           *)
Add(t) ==
  /\ Inside(t, "add")
  /\ LET h == op[t].handle
     IN  IF h < FdSetSize
         THEN /\ fdset' = fdset \cup {h}
              /\ userhdl' = IF op[t].type = "user" THEN userhdl \cup {h} ELSE userhdl \ {h}
              /\ ptrset' = [ptrset EXCEPT ![h] = op[t].object]
              /\ UNCHANGED <<open, given>>
         ELSE \* refused: ece_list_handle closes h
              /\ open' = open \ {h}
              /\ given' = given \ {op[t].object}
              /\ UNCHANGED sets
  /\ Unlock(t, "reset")
  /\ UNCHANGED <<intr, abort, count, arrived, result, misfreed, alive>>

(* The destroy callback: it frees the object and closes its handle.        *)
Destroy(o, h) ==
  /\ misfreed' = (misfreed \/ o \notin given)
  /\ given' = given \ {o}
  /\ open' = open \ {h}

(* Mutation: the mutex is released before the pointer is cleared.          *)
DelUnlocksEarly(t) ==
  /\ Inside(t, "del")
  /\ fdset' = fdset \ {op[t].handle}
  /\ Destroy(ptrset[op[t].handle], op[t].handle)
  /\ Unlock(t, "clear")
  /\ UNCHANGED <<intr, abort, count, arrived, userhdl, ptrset, result, alive>>

(* Mutation: the handle stays in the fd_set.                               *)
DelStillWatched(t) ==
  /\ Inside(t, "del")
  /\ Destroy(ptrset[op[t].handle], op[t].handle)
  /\ pc' = [pc EXCEPT ![t] = "clear"]
  /\ UNCHANGED <<mutex, op, intr, abort, count, arrived, sets, result, alive>>

(* ece_list_del, under the mutex: the first half, up to the callback.      *)
(* Without a callback the pointer stays where it is and the caller closes. *)
Del(t) ==
  /\ Inside(t, "del")
  /\ LET h == op[t].handle
         o == ptrset[h]
     IN  /\ fdset' = fdset \ {h}
         /\ count' = [count EXCEPT ![h] = 0]
         /\ arrived' = arrived \ {h}
         /\ IF o # NoObject /\ HasOnDel
            THEN /\ Destroy(o, h)
                 /\ pc' = [pc EXCEPT ![t] = "clear"]
                 /\ UNCHANGED <<mutex, op>>
            ELSE /\ open' = open \ {h}
                 /\ given' = given \ {o}
                 /\ Unlock(t, "reset")
                 /\ UNCHANGED misfreed
  /\ UNCHANGED <<intr, abort, userhdl, ptrset, result, alive>>

(* Mutation: the pointer is not cleared.                                   *)
DelKeepsPointer(t) ==
  /\ pc[t] = "clear"
  /\ Unlock(t, "reset")
  /\ UNCHANGED <<intr, abort, count, arrived, sets, result, world>>

(* The second half: self->ptrset [handle] = NULL.                          *)
DelClear(t) ==
  /\ pc[t] = "clear"
  /\ ptrset' = [ptrset EXCEPT ![op[t].handle] = NoObject]
  /\ Unlock(t, "reset")
  /\ UNCHANGED <<intr, abort, count, arrived, fdset, userhdl, result, world>>

(* ece_reset_event: the read blocks while there is no token to read.       *)
Reset(t) ==
  /\ pc[t] = "reset"
  /\ intr > 0
  /\ intr' = 0
  /\ pc' = [pc EXCEPT ![t] = "idle"]
  /\ op' = [op EXCEPT ![t] = NoOp]
  /\ UNCHANGED <<mutex, abort, count, arrived, sets, result, world>>

(* ece_list_size: it holds the mutex and changes nothing.                  *)
Size(t) ==
  /\ Inside(t, "size")
  /\ Unlock(t, "idle")
  /\ UNCHANGED <<intr, abort, count, arrived, sets, result, world>>

(* ece_list_sortout: an expired entry leaves the set, and the callback is  *)
(* applied to the ARGUMENT of the sort-out (the caller's stopwatch), which *)
(* is never an object of the queue.                                        *)
Sortout(t) ==
  /\ Inside(t, "sortout")
  /\ LET gone == {h \in Handles : ptrset[h] \in op[t].expired}
     IN  /\ ptrset' = [h \in Handles |-> IF h \in gone THEN NoObject ELSE ptrset[h]]
         /\ fdset' = fdset \ gone
         /\ misfreed' = (misfreed \/ (HasOnDel /\ gone # {}))
  /\ Unlock(t, "idle")
  /\ result' = [result EXCEPT ![t] = NoResult]
  /\ UNCHANGED <<intr, abort, count, arrived, userhdl, open, given, alive>>

-----------------------------------------------------------------------------
(* ece_list_select, under the mutex.  A handle is ready when it is in the  *)
(* set and its counter is not zero (user) or the kernel says so.           *)

Ready(h) ==
  /\ h \in fdset
  /\ IF h \in userhdl THEN count[h] > 0 ELSE h \in arrived

Return(t, event, h, object) ==
  /\ Unlock(t, "idle")
  /\ result' = [result EXCEPT ![t] = [event |-> event, handle |-> h, object |-> object]]

(* Mutation: the abort is not written back for the other waiters.          *)
AbortConsumed(t) ==
  /\ pc[t] = "rewrite"
  /\ Return(t, "abort", Null, NoObject)
  /\ UNCHANGED <<intr, abort, count, arrived, sets, world>>

(* efd comes first.  Its count is read, then one is written back so that   *)
(* the other waiters see the abort too.                                    *)
SelectAbort(t) ==
  /\ Inside(t, "wait")
  /\ abort > 0
  /\ abort' = 0
  /\ pc' = [pc EXCEPT ![t] = "rewrite"]
  /\ UNCHANGED <<mutex, intr, count, arrived, sets, op, result, world>>

RewriteAbort(t) ==
  /\ pc[t] = "rewrite"
  /\ abort' = abort + 1
  /\ Return(t, "abort", Null, NoObject)
  /\ UNCHANGED <<intr, count, arrived, sets, world>>

(* Mutation: select() again without releasing the mutex.                   *)
SelectKeepsMutex(t) ==
  /\ Inside(t, "wait")
  /\ abort = 0 /\ intr > 0
  /\ UNCHANGED vars

(* Then intrfd: ece_list_wait releases the mutex and starts again.         *)
SelectInternal(t) ==
  /\ Inside(t, "wait")
  /\ abort = 0 /\ intr > 0
  /\ Unlock(t, "lock")
  /\ UNCHANGED <<intr, abort, count, arrived, sets, result, world>>

(* Mutation: the event is read away and the wait starts again.             *)
SelectEventLost(t, h) ==
  /\ Inside(t, "wait")
  /\ abort = 0 /\ intr = 0
  /\ Ready(h)
  /\ count' = [count EXCEPT ![h] = IF h \in userhdl THEN 0 ELSE count[h]]
  /\ Unlock(t, "lock")
  /\ UNCHANGED <<intr, abort, arrived, sets, result, world>>

(* Then the lowest handle that is ready.  A user event is consumed.        *)
SelectEvent(t, h) ==
  /\ Inside(t, "wait")
  /\ abort = 0 /\ intr = 0
  /\ Ready(h)
  /\ \A g \in Handles : Ready(g) => h <= g
  /\ count' = [count EXCEPT ![h] = IF h \in userhdl THEN 0 ELSE count[h]]
  /\ Return(t, "ready", h, ptrset[h])
  /\ UNCHANGED <<intr, abort, arrived, sets, world>>

Quiet == abort = 0 /\ intr = 0 /\ \A h \in Handles : ~Ready(h)

SelectTimeout(t) ==
  /\ Inside(t, "wait")
  /\ Quiet
  /\ Return(t, "timeout", Null, NoObject)
  /\ UNCHANGED <<intr, abort, count, arrived, sets, world>>

(* select() was interrupted by a signal while it blocked (EINTR).          *)
SelectSignal(t) ==
  /\ Inside(t, "wait")
  /\ Quiet
  /\ Unlock(t, "lock")
  /\ UNCHANGED <<intr, abort, count, arrived, sets, result, world>>

-----------------------------------------------------------------------------
(* The environment.                                                        *)

calls == <<mutex, sets, pc, op>>

(* The waiter's thread has run what the event was for: it emptied the      *)
(* socket and will wait again.                                             *)
Serve(t) ==
  /\ pc[t] = "idle"
  /\ result[t].event = "ready"
  /\ arrived' = arrived \ {result[t].handle}
  /\ result' = [result EXCEPT ![t] = NoResult]
  /\ UNCHANGED <<intr, abort, count, calls, world>>

(* Something to read arrives on a socket.                                  *)
Arrive(h) ==
  /\ h \in open /\ h \notin userhdl
  /\ arrived' = arrived \cup {h}
  /\ UNCHANGED <<intr, abort, count, calls, result, world>>

(* ece_list_set, without the mutex: only a handle marked as a user event   *)
(* is written.                                                             *)
Set(h) ==
  /\ h \in open /\ h < FdSetSize /\ h \in userhdl /\ ~Registering(h)
  /\ count[h] < MaxSignals
  /\ count' = [count EXCEPT ![h] = count[h] + 1]
  /\ UNCHANGED <<intr, abort, arrived, calls, result, world>>

(* ece_context_setAbort.                                                   *)
SetAbort ==
  /\ abort < MaxAborts
  /\ abort' = abort + 1
  /\ UNCHANGED <<intr, count, arrived, calls, result, world>>

(* Mutation: the threads are not joined first.                             *)
TeardownEarly ==
  /\ alive
  /\ alive' = FALSE
  /\ given' = given \ {ptrset[h] : h \in Handles}
  /\ UNCHANGED <<intr, abort, count, arrived, calls, result, open, misfreed>>

(* ece_list_destroy, once the threads were told to abort and were joined.  *)
(* It applies the callback to whatever pointer is left.                    *)
Left == {h \in Handles : ptrset[h] # NoObject}

Teardown ==
  /\ alive
  /\ \A t \in Threads : pc[t] = "idle"
  /\ \A t \in Waiters : result[t].event = "abort"
  /\ alive' = FALSE
  /\ IF HasOnDel
     THEN /\ misfreed' = (misfreed \/ \E h \in Left : ptrset[h] \notin given)
          /\ given' = given \ {ptrset[h] : h \in Left}
          /\ open' = open \ Left
     ELSE UNCHANGED <<misfreed, given, open>>
  /\ UNCHANGED <<intr, abort, count, arrived, calls, result>>

-----------------------------------------------------------------------------
Step(t) ==
  \/ Lock(t) \/ Add(t) \/ Del(t) \/ DelClear(t) \/ Reset(t) \/ Size(t) \/ Sortout(t)
  \/ SelectAbort(t) \/ RewriteAbort(t) \/ SelectInternal(t) \/ SelectTimeout(t)
  \/ SelectSignal(t) \/ \E h \in Handles : SelectEvent(t, h)

Changes(t) ==
  \/ \E h \in Handles, type \in Types, o \in Objects \cup {NoObject} : AddCall(t, h, type, o)
  \/ SizeCall(t)

Waits(t) ==
  \/ WaitCall(t)
  \/ \E expired \in SUBSET Expirable : SortoutCall(t, expired)
  \/ Serve(t)

Environment ==
  \/ SetAbort \/ Teardown
  \/ \E h \in Handles : Arrive(h) \/ Set(h)

Next ==
  \/ \E t \in Threads : Step(t)
  \/ \E t \in Changers : Changes(t)
  \/ \E t \in Waiters : Waits(t)
  \/ \E t \in Droppers, h \in Handles : DelCall(t, h)
  \/ Environment

Spec == Init /\ [][Next]_vars

(* A thread that can go on does; a thread that wants the mutex gets it if  *)
(* the mutex is free again and again, however eager the others are; pool   *)
(* threads return to ece_list_wait (their loop) and run what they were     *)
(* woken for.  No timeout, no signal, no call of a changer is promised.    *)
Progress(t) ==
  /\ WF_vars(Add(t) \/ Del(t) \/ DelClear(t) \/ Reset(t) \/ Size(t) \/ Sortout(t))
  /\ WF_vars(SelectAbort(t) \/ RewriteAbort(t) \/ SelectInternal(t)
             \/ \E h \in Handles : SelectEvent(t, h))
  /\ SF_vars(Lock(t))

Fairness ==
  /\ \A t \in Threads : Progress(t)
  /\ \A t \in Waiters : WF_vars(WaitCall(t)) /\ WF_vars(Serve(t))

FairSpec == Spec /\ Fairness

-----------------------------------------------------------------------------
(* Properties.                                                             *)

(* The set is only looked at and changed by the owner of the mutex: what a *)
(* thread read inside cannot be stale while it is inside.                  *)
InsideOwns ==
  \A t \in Threads : pc[t] \in {"inside", "rewrite", "clear"} <=> mutex = t

(* An object handed to the queue stays reachable until its callback runs:  *)
(* it is registered, or its ece_list_add has not stored it yet.  A handle  *)
(* that the callback closes may be opened again at once by another thread, *)
(* which then registers it while the removal is still under way.           *)
NoObjectLost ==
  \A o \in given :
    \/ \E h \in fdset : ptrset[h] = o
    \/ \E t \in Threads : op[t].kind = "add" /\ op[t].object = o /\ pc[t] # "reset"

(* The destroy callback gets every object once and nothing else.           *)
NothingMisfreed == ~misfreed

(* A waiter that was woken for an object never finds it destroyed: its own *)
(* ece_list_del comes after it ran the object.                             *)
ServedObjectAlive ==
  \A t \in Waiters : result[t].object # NoObject => result[t].object \in given

(* An object is destroyed once, and not while it is served.                *)
ObjectsSafe == NothingMisfreed /\ ServedObjectAlive

(* What a thread holds while it is in the middle of a call.                *)
Adding(t, h) ==
  op[t].kind = "add" /\ pc[t] \in {"lock", "inside"} /\ op[t].handle = h

Leaving(t, h) ==
  \/ result[t].event = "ready" /\ result[t].handle = h
  \/ op[t].kind = "del" /\ pc[t] \in {"lock", "inside"} /\ op[t].handle = h

(* Every place in the code belongs to the call that passes through it.     *)
CallShape ==
  \A t \in Threads :
    /\ pc[t] = "idle" <=> op[t].kind = "none"
    /\ pc[t] = "rewrite" => op[t].kind = "wait"
    /\ pc[t] = "clear" => op[t].kind = "del" /\ op[t].handle \notin fdset
    /\ pc[t] = "reset" => op[t].kind \in {"add", "del"}
    /\ op[t].kind = "del" => t \in Droppers
    /\ op[t].kind \in {"wait", "sortout"} => t \in Waiters
    /\ op[t].kind = "sortout" => op[t].expired \subseteq Expirable
    /\ op[t].kind \in {"wait", "del", "sortout"} => result[t].event # "ready"
    /\ result[t].event # "none" => t \in Waiters
    /\ result[t].event = "ready" => result[t].handle \in Handles
    /\ result[t].event # "ready" => result[t].object = NoObject
    /\ ~alive => pc[t] = "idle" /\ (t \in Waiters => result[t].event = "abort")

(* select() never watches a handle that is closed: it would return EBADF,  *)
(* ece_list_wait an error, and the pool thread would stop.  The number of  *)
(* a handle that is being removed is not yet used again, and that of one   *)
(* that is being added is registered nowhere else.                         *)
WatchedHandlesOpen ==
  alive =>
    /\ fdset \subseteq open
    /\ \A t \in Threads, h \in Handles :
         Adding(t, h) => h \in open \ fdset /\ \A u \in Threads : Adding(u, h) => u = t
    /\ \A d \in Droppers, h \in Handles :
         Leaving(d, h) => h \in open \cap Slots /\ \A t \in Threads : ~Adding(t, h)

(* The queue is well-formed: its types, the owner of its mutex, and only   *)
(* open handles in the set.                                                *)
QueueInv == TypeOK /\ InsideOwns /\ CallShape /\ WatchedHandlesOpen

(* Who owns an object: a slot of the queue, or the ece_list_add that will  *)
(* store it, and never two of them.  With a callback no pointer is left    *)
(* behind but the one that is about to be cleared.                         *)
ObjectsOwned ==
  alive =>
    /\ \A h \in fdset : ptrset[h] \in given \cup {NoObject}
    /\ \A g, h \in fdset : ptrset[g] = ptrset[h] /\ ptrset[h] # NoObject => g = h
    /\ \A t \in Threads, h \in Handles :
         Adding(t, h) /\ op[t].object # NoObject =>
           /\ op[t].object \in given
           /\ \A g \in fdset : ptrset[g] # op[t].object
           /\ \A u \in Threads, g \in Handles :
                Adding(u, g) /\ op[u].object = op[t].object => u = t
           /\ \A w \in Waiters : result[w].object # op[t].object
    /\ \A d \in Droppers, h \in Handles : Leaving(d, h) => h \in fdset
    /\ HasOnDel =>
         \A h \in Handles : ptrset[h] # NoObject =>
           h \in fdset \/ \E t \in Threads : pc[t] = "clear" /\ op[t].handle = h

(* The inductive invariant behind the properties of the objects.           *)
IInv == QueueInv /\ ObjectsOwned /\ NoObjectLost /\ NothingMisfreed /\ ServedObjectAlive

(* Every ece_list_add and ece_list_del returns: "make it thread safe".     *)
Changing(t) == op[t].kind \in {"add", "del"}
ChangeReturns == \A t \in Threads : Changing(t) ~> ~Changing(t)

(* Once the abort was asked for, every waiter of the queue is told, though *)
(* each of them empties the event it is told by.                           *)
AbortReachesAll == \A t \in Waiters : abort > 0 ~> result[t].event = "abort"

(* A user event that is set wakes a waiter, which is told the handle.  The *)
(* lowest handle that is ready wins, so a handle below it may keep it from *)
(* being noticed, and so may the abort.                                    *)
EventNoticed ==
  \A h \in Handles :
    (h \in userhdl /\ Ready(h)) ~>
      \/ \E t \in Waiters : result[t].handle = h
      \/ \E g \in Handles : g < h /\ Ready(g)
      \/ abort > 0

(* Nobody waits in vain: every waiter is told of the abort, and one of them*)
(* of each user event.                                                     *)
WaitersAreTold == EventNoticed /\ AbortReachesAll

(* ece_list_sortout disposes of the entries it removes: "if true this      *)
(* entry must be removed", and the callback is there to destroy it.        *)
SortoutDestroys ==
  [][\A t \in Waiters, o \in Objects :
       (Sortout(t) /\ HasOnDel /\ o \in op[t].expired /\ o \in given
          /\ \E h \in Handles : ptrset[h] = o) => o \notin given']_vars
=============================================================================
