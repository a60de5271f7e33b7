------------------------------- MODULE Server -------------------------------
(***************************************************************************)
(* EcServer of src/entc/tools/ecserver.c: one thread accepts objects and   *)
(* appends them to a list, a pool of threads takes them off and works on   *)
(* them.  The list has its own mutex; the workers sleep in ece_list_wait   *)
(* on the EventQueue of the server, whose only handle is the user event    *)
(* worker_lock.  That event is one counter that one waiter empties, so the *)
(* worker that was woken sets it again for the next one before it works.   *)
(* The server is composed of its own variables and those of EventQueue.    *)
(***************************************************************************)
EXTENDS Naturals, Sequences, FiniteSets

CONSTANTS
  Workers,     \* the threads 1 .. poolSize
  Objects,     \* what the accept callback can return, each once
  Quitters,    \* the workers whose callback may answer FALSE
  NoObject, Null,
  MaxSignals,  \* bounds, as in EventQueue
  MaxAborts

VARIABLES mutex, intr, abort, count, arrived, fdset, userhdl, ptrset, pc, op, result,
          open, given, misfreed, alive    \* of self->equeue and self->mainabort

worker_lock == 1

Q == INSTANCE EventQueue WITH
       Waiters <- Workers, Droppers <- {}, Changers <- {}, Handles <- {worker_lock},
       FdSetSize <- 2, Objects <- {}, HasOnDel <- FALSE, Expirable <- {}

VARIABLES
  queue,       \* self->queue, under self->mutex
  accepter,    \* where the accept thread is
  accepted,    \* the object it has got from the accept callback
  run,         \* where each worker is in ecserver_worker_run
  object,      \* the objects each worker has in its hands
  done,        \* objects that went through the worker callback
  cleared,     \* objects that went through the clear callback
  joined       \* how many threads ecserver_destroy has joined

qvars  == <<mutex, intr, abort, count, arrived, fdset, userhdl, ptrset, pc, op, result,
            open, given, misfreed, alive>>
server == <<queue, accepter, accepted, run, object, done, cleared, joined>>
vars   == <<qvars, server>>

ASSUME ServerConstants ==
  /\ IsFiniteSet(Workers)
  /\ Quitters \subseteq Workers
  /\ NoObject \notin Objects
  /\ Null \notin Workers
  \* room for one signal of the accept thread and one of a worker per object:
  \* the bound never keeps a thread from setting the event
  /\ MaxSignals \in Nat /\ IsFiniteSet(Objects) /\ MaxSignals > 2 * Cardinality(Objects)
  /\ MaxAborts \in Nat \ {0}

Contents(s) == {s[i] : i \in DOMAIN s}

TypeOK ==
  /\ Q!TypeOK
  /\ queue \in Seq(Objects)
  /\ accepter \in {"accept", "append", "set", "stopped"}
  /\ accepted \in Objects \cup {NoObject}
  /\ run \in [Workers -> {"wait", "take", "set", "work", "stopped"}]
  /\ object \in [Workers -> SUBSET Objects]
  /\ done \subseteq Objects
  /\ cleared \subseteq Objects
  /\ joined \in 0 .. Cardinality(Workers) + 2

(* ecserver_create and ecserver_start: the event is registered, the        *)
(* threads are started.                                                    *)
Init ==
  /\ mutex = Null /\ intr = 0 /\ abort = 0
  /\ count = [h \in {worker_lock} |-> 0]
  /\ arrived = {}
  /\ fdset = {worker_lock} /\ userhdl = {worker_lock} /\ open = {worker_lock}
  /\ ptrset = [h \in {worker_lock} |-> NoObject]
  /\ pc = [w \in Workers |-> "idle"]
  /\ op = [w \in Workers |-> Q!NoOp]
  /\ result = [w \in Workers |-> Q!NoResult]
  /\ given = {} /\ misfreed = FALSE /\ alive = TRUE
  /\ queue = <<>>
  /\ accepter = "accept" /\ accepted = NoObject
  /\ run = [w \in Workers |-> "wait"]
  /\ object = [w \in Workers |-> {}]
  /\ done = {} /\ cleared = {}
  /\ joined = 0

-----------------------------------------------------------------------------
(* ecserver_accept_run.  The section under self->mutex is one step.        *)
Placed == Contents(queue) \cup done \cup cleared \cup UNION {object[w] : w \in Workers}

Accept(o) ==
  /\ accepter = "accept"
  /\ o \notin Placed
  /\ accepter' = "append"
  /\ accepted' = o
  /\ UNCHANGED <<qvars, queue, run, object, done, cleared, joined>>

(* Mutation: an aborted accept is taken for an object.                     *)
AcceptAbortedAppends ==
  /\ accepter = "accept"
  /\ abort > 0
  /\ accepter' = "append"
  /\ UNCHANGED <<qvars, queue, accepted, run, object, done, cleared, joined>>

(* The accept callback, which waits with the same context, was aborted.    *)
AcceptAborted ==
  /\ accepter = "accept"
  /\ abort > 0
  /\ accepter' = "stopped"
  /\ UNCHANGED <<qvars, queue, accepted, run, object, done, cleared, joined>>

(* Mutation: nobody is told of the object.                                 *)
AcceptSilent ==
  /\ accepter = "set"
  /\ accepter' = "accept"
  /\ UNCHANGED <<qvars, queue, accepted, run, object, done, cleared, joined>>

AppendObject ==
  /\ accepter = "append"
  /\ queue' = Append(queue, accepted)
  /\ accepter' = "set"
  /\ accepted' = NoObject
  /\ UNCHANGED <<qvars, run, object, done, cleared, joined>>

AcceptSet ==
  /\ accepter = "set"
  /\ accepter' = "accept"
  /\ Q!Set(worker_lock)
  /\ UNCHANGED <<queue, accepted, run, object, done, cleared, joined>>

-----------------------------------------------------------------------------
(* ecserver_worker_run.                                                    *)

(* Its ece_list_wait, step by step in EventQueue.                          *)
Wait(w) ==
  /\ run[w] = "wait"
  /\ \/ Q!WaitCall(w)
     \/ Q!Lock(w)
     \/ Q!SelectAbort(w)
     \/ Q!RewriteAbort(w)
     \/ Q!SelectEvent(w, worker_lock)
  /\ UNCHANGED server

(* A signal interrupts select(): the loop of ece_list_wait goes round.     *)
WaitSignal(w) ==
  /\ run[w] = "wait"
  /\ Q!SelectSignal(w)
  /\ UNCHANGED server

(* Mutation: the abort is not told from an event.                          *)
AbortIgnored(w) ==
  /\ run[w] = "wait"
  /\ pc[w] = "idle" /\ result[w].event = "abort"
  /\ run' = [run EXCEPT ![w] = "take"]
  /\ UNCHANGED <<qvars, queue, accepter, accepted, object, done, cleared, joined>>

Woken(w) ==
  /\ run[w] = "wait"
  /\ run' = [run EXCEPT ![w] = "take"]
  /\ Q!Serve(w)
  /\ UNCHANGED <<queue, accepter, accepted, object, done, cleared, joined>>

Aborted(w) ==
  /\ run[w] = "wait"
  /\ pc[w] = "idle" /\ result[w].event = "abort"
  /\ run' = [run EXCEPT ![w] = "stopped"]
  /\ UNCHANGED <<qvars, queue, accepter, accepted, object, done, cleared, joined>>

(* Mutation: the object is not erased from the list.                       *)
TakeKeeps(w) ==
  /\ run[w] = "take"
  /\ queue # <<>>
  /\ object' = [object EXCEPT ![w] = {Head(queue)}]
  /\ run' = [run EXCEPT ![w] = "set"]
  /\ UNCHANGED <<qvars, queue, accepter, accepted, done, cleared, joined>>

(* Mutation: the youngest object is taken.                                 *)
TakeLast(w) ==
  /\ run[w] = "take"
  /\ queue # <<>>
  /\ object' = [object EXCEPT ![w] = {queue[Len(queue)]}]
  /\ queue' = SubSeq(queue, 1, Len(queue) - 1)
  /\ run' = [run EXCEPT ![w] = "set"]
  /\ UNCHANGED <<qvars, accepter, accepted, done, cleared, joined>>

(* The section under self->mutex: somebody else may have been faster.      *)
TakeNothing(w) ==
  /\ run[w] = "take"
  /\ queue = <<>>
  /\ run' = [run EXCEPT ![w] = "wait"]
  /\ UNCHANGED <<qvars, queue, accepter, accepted, object, done, cleared, joined>>

(* Mutation: the next worker is not woken.                                 *)
WorkerSilent(w) ==
  /\ run[w] = "set"
  /\ run' = [run EXCEPT ![w] = "work"]
  /\ UNCHANGED <<qvars, queue, accepter, accepted, object, done, cleared, joined>>

TakeObject(w) ==
  /\ run[w] = "take"
  /\ queue # <<>>
  /\ object' = [object EXCEPT ![w] = {Head(queue)}]
  /\ queue' = Tail(queue)
  /\ run' = [run EXCEPT ![w] = "set"]
  /\ UNCHANGED <<qvars, accepter, accepted, done, cleared, joined>>

WorkerSet(w) ==
  /\ run[w] = "set"
  /\ run' = [run EXCEPT ![w] = "work"]
  /\ Q!Set(worker_lock)
  /\ UNCHANGED <<queue, accepter, accepted, object, done, cleared, joined>>

(* The worker callback destroys the object and says whether to go on.      *)
Work(w, goOn) ==
  /\ run[w] = "work"
  /\ goOn \/ w \in Quitters
  /\ done' = done \cup object[w]
  /\ object' = [object EXCEPT ![w] = {}]
  /\ run' = [run EXCEPT ![w] = IF goOn THEN "wait" ELSE "stopped"]
  /\ UNCHANGED <<qvars, queue, accepter, accepted, cleared, joined>>

-----------------------------------------------------------------------------
(* ece_context_setAbort by whoever ends the process (ecsignal, main).      *)
Abort ==
  /\ Q!SetAbort
  /\ UNCHANGED server

(* ecserver_destroy joins the accept thread, then the workers in order.    *)
JoinAccept ==
  /\ joined = 0
  /\ accepter = "stopped"
  /\ joined' = 1
  /\ UNCHANGED <<qvars, queue, accepter, accepted, run, object, done, cleared>>

JoinWorker ==
  /\ joined \in 1 .. Cardinality(Workers)
  /\ joined <= Cardinality({w \in Workers : run[w] = "stopped"})
  /\ joined' = joined + 1
  /\ UNCHANGED <<qvars, queue, accepter, accepted, run, object, done, cleared>>

(* Then it clears what is left in the list and destroys the event queue.   *)
Clear ==
  /\ joined = Cardinality(Workers) + 1
  /\ cleared' = cleared \cup Contents(queue)
  /\ queue' = <<>>
  /\ joined' = joined + 1
  /\ alive' = FALSE
  /\ UNCHANGED <<mutex, intr, abort, count, arrived, fdset, userhdl, ptrset, pc, op,
                 result, open, given, misfreed,
                 accepter, accepted, run, object, done>>

-----------------------------------------------------------------------------
AcceptThread == AcceptAborted \/ AppendObject \/ AcceptSet

WorkerThread(w) ==
  \/ Wait(w) \/ Woken(w) \/ Aborted(w)
  \/ TakeNothing(w) \/ TakeObject(w) \/ WorkerSet(w) \/ Work(w, TRUE)

Main == JoinAccept \/ JoinWorker \/ Clear

Next ==
  \/ \E o \in Objects : Accept(o)
  \/ AcceptThread
  \/ \E w \in Workers : WorkerThread(w) \/ WaitSignal(w) \/ Work(w, FALSE)
  \/ Abort
  \/ Main

Spec == Init /\ [][Next]_vars

(* Threads go on when they can; callbacks return; a worker that wants the  *)
(* mutex of the event queue gets it if it is free again and again.  Nobody *)
(* promises that an object arrives or that the process is told to end.     *)
Fairness ==
  /\ WF_vars(AcceptThread)
  /\ WF_vars(Main)
  /\ \A w \in Workers :
       /\ WF_vars(WorkerThread(w))
       /\ SF_vars(run[w] = "wait" /\ Q!Lock(w) /\ UNCHANGED server)

FairSpec == Spec /\ Fairness

-----------------------------------------------------------------------------
(* Properties.                                                             *)

(* An accepted object is in the list, in one worker's hands, or done with, *)
(* never in two of these places.                                           *)
OnePlace ==
  /\ \A i, j \in DOMAIN queue : i # j => queue[i] # queue[j]
  /\ \A o \in Objects :
       LET holders == {w \in Workers : o \in object[w]}
       IN  /\ Cardinality(holders) <= 1
           /\ o \in Contents(queue) => holders = {} /\ o \notin done \cup cleared
           /\ holders # {} => o \notin done \cup cleared
  /\ done \cap cleared = {}

(* No wake-up is lost: while objects wait and a worker could take them,    *)
(* the event is set, or somebody is about to set it or to look at the list.*)
(* One event serves all the workers, and whoever waits for it empties it.  *)
WakeUpPending ==
  queue # <<>> =>
    \/ count[worker_lock] > 0
    \/ accepter = "set"
    \/ \E w \in Workers : run[w] \in {"take", "set"}
    \/ \E w \in Workers : run[w] = "wait" /\ result[w].event = "ready"
    \/ \A w \in Workers : run[w] = "stopped"

(* A waiting object is worked on, or cleared when the server ends.         *)
ObjectServed == \A o \in Objects : o \in Contents(queue) ~> o \in done \cup cleared

(* The abort ends the accept thread and every worker, ecserver_destroy     *)
(* comes back, and nothing is left in the list.                            *)
ShutdownCompletes == abort > 0 ~> (~alive /\ queue = <<>>)

(* The server does what JobPool says: in order, once, nothing dropped.     *)
Promise == INSTANCE JobPool WITH
             waiting <- queue, hands <- object, finished <- done \cup cleared
KeepsPromise == Promise!Spec

(* Types, every object in one place, and no wake-up lost.                  *)
ServerInv == TypeOK /\ OnePlace /\ WakeUpPending

(* What waits is worked on or cleared, and the server ends when asked to.  *)
ServerCompletes == ObjectServed /\ ShutdownCompletes
=============================================================================
