---------------------------- MODULE ServerProofs ----------------------------
(***************************************************************************)
(* Proofs about EcServer for any number of workers and objects: what the   *)
(* threads hold between them, that no wake-up is lost, and that the server *)
(* implements JobPool.                                                     *)
(***************************************************************************)
EXTENDS Server, FiniteSetTheorems, SequenceTheorems, TLAPS

(* A worker that is inside ece_list_wait has not been told of an event.    *)
Unanswered == \A w \in Workers : pc[w] # "idle" => result[w].event # "ready"

(* A worker has one object from taking it to the end of its callback.      *)
HandsFull ==
  \A w \in Workers :
    IF run[w] \in {"set", "work"} THEN \E o \in Objects : object[w] = {o}
                                  ELSE object[w] = {}

(* The object the accept thread is about to append is nowhere yet.         *)
Fresh == accepter = "append" => accepted \in Objects /\ accepted \notin Placed

(* OnePlace without counting: who has an object in hands has it alone.     *)
Distinct(s) == \A i, j \in DOMAIN s : i # j => s[i] # s[j]

Apart ==
  /\ Distinct(queue)
  /\ \A v, w \in Workers : v # w => object[v] \cap object[w] = {}
  /\ \A w \in Workers : object[w] \cap (Contents(queue) \cup done \cup cleared) = {}
  /\ Contents(queue) \cap (done \cup cleared) = {}
  /\ done \cap cleared = {}

(* ecserver_destroy has joined no worker that is still running.            *)
Stopped == {w \in Workers : run[w] = "stopped"}
JoinedStopped ==
  joined \in 1 .. Cardinality(Workers) + 1 => joined <= Cardinality(Stopped) + 1

ServerIInv ==
  TypeOK /\ Unanswered /\ HandsFull /\ Fresh /\ Apart /\ JoinedStopped /\ WakeUpPending

-----------------------------------------------------------------------------
(* The steps of EventQueue that the server's threads take.                 *)
LEMMA QueueCalls ==
  ASSUME TypeOK, Unanswered, NEW w \in Workers, Wait(w) \/ WaitSignal(w)
  PROVE  /\ Q!TypeOK' /\ Unanswered' /\ UNCHANGED server
         /\ \/ /\ UNCHANGED count
               /\ \A v \in Workers : result[v].event = "ready" => UNCHANGED result[v]
            \/ run[w] = "wait" /\ result'[w].event = "ready"
<1> USE DEF Q!Threads, Q!sets, Q!world, Q!Locations, Q!NoOp
<1>1. CASE Q!WaitCall(w) /\ UNCHANGED server
  <2>1. [kind |-> "wait"] \in Q!Ops
    BY DEF Q!Ops
  <2>2. Q!TypeOK'
    BY <1>1, <2>1 DEF TypeOK, Q!TypeOK, Q!WaitCall, Q!Call
  <2> QED
    BY <1>1, <2>2 DEF TypeOK, Q!TypeOK, Q!WaitCall, Q!Call, Unanswered
<1>2. CASE Q!Lock(w) /\ UNCHANGED server
  BY <1>2 DEF TypeOK, Q!TypeOK, Q!Lock, Unanswered
<1>3. CASE Q!SelectAbort(w) /\ UNCHANGED server
  BY <1>3 DEF TypeOK, Q!TypeOK, Q!SelectAbort, Q!Inside, Unanswered
<1>4. CASE Q!SelectSignal(w) /\ UNCHANGED server
  <2>1. op' = op
    BY <1>4 DEF TypeOK, Q!TypeOK, Q!SelectSignal, Q!Unlock
  <2> QED
    BY <1>4, <2>1 DEF TypeOK, Q!TypeOK, Q!SelectSignal, Q!Unlock, Q!Inside, Unanswered
<1> DEFINE answer(e, h) == [event |-> e, handle |-> h, object |-> NoObject]
<1>5. Q!NoOp \in Q!Ops
  BY DEF Q!Ops
<1>6. CASE Q!RewriteAbort(w) /\ UNCHANGED server
  <2>1. /\ mutex' = Null /\ pc' = [pc EXCEPT ![w] = "idle"]
        /\ op' = [op EXCEPT ![w] = Q!NoOp]
        /\ result' = [result EXCEPT ![w] = answer("abort", Null)]
        /\ abort' = abort + 1
        /\ UNCHANGED <<intr, count, arrived, fdset, userhdl, ptrset, open, given, misfreed,
                       alive>>
    BY <1>6 DEF Q!RewriteAbort, Q!Return, Q!Unlock
  <2>2. Q!TypeOK'
    BY <2>1, <1>5 DEF TypeOK, Q!TypeOK
  <2>3. pc[w] = "rewrite"
    BY <1>6 DEF Q!RewriteAbort
  <2> QED
    BY <1>6, <2>1, <2>2, <2>3 DEF TypeOK, Q!TypeOK, Unanswered
<1>7. CASE Q!SelectEvent(w, worker_lock) /\ run[w] = "wait" /\ UNCHANGED server
  <2>1. /\ mutex' = Null /\ pc' = [pc EXCEPT ![w] = "idle"]
        /\ op' = [op EXCEPT ![w] = Q!NoOp]
        /\ result' = [result EXCEPT ![w] = [event |-> "ready", handle |-> worker_lock,
                                            object |-> ptrset[worker_lock]]]
        /\ count' = [count EXCEPT ![worker_lock] =
                       IF worker_lock \in userhdl THEN 0 ELSE count[worker_lock]]
        /\ UNCHANGED <<intr, abort, arrived, fdset, userhdl, ptrset, open, given, misfreed,
                       alive>>
    BY <1>7 DEF Q!SelectEvent, Q!Return, Q!Unlock
  <2>2. Q!TypeOK'
    BY <2>1, <1>5 DEF TypeOK, Q!TypeOK
  <2> QED
    BY <1>7, <2>1, <2>2 DEF TypeOK, Q!TypeOK, Unanswered
<1> QED
  BY <1>1, <1>2, <1>3, <1>4, <1>6, <1>7 DEF Wait, WaitSignal

(* The other steps that touch the event queue: an event is set, a worker   *)
(* goes on from the wait it was woken from, the abort.                     *)
LEMMA QueueEvents ==
  ASSUME TypeOK, Unanswered,
         \/ Q!Set(worker_lock) \/ Q!SetAbort \/ \E w \in Workers : Q!Serve(w)
  PROVE  Q!TypeOK' /\ Unanswered'
<1> USE DEF Q!Threads, Q!world, Q!calls, Q!sets, TypeOK, Q!TypeOK, Unanswered
<1>1. CASE Q!Set(worker_lock)
  BY <1>1 DEF Q!Set, worker_lock
<1>2. CASE Q!SetAbort
  BY <1>2 DEF Q!SetAbort
<1>3. ASSUME NEW w \in Workers, Q!Serve(w) PROVE Q!TypeOK' /\ Unanswered'
  BY <1>3 DEF Q!Serve, Q!NoResult
<1> QED
  BY <1>1, <1>2, <1>3

-----------------------------------------------------------------------------
(* What appending to a list and taking its first entry leave in it.        *)
LEMMA Appended ==
  ASSUME NEW S, NEW s \in Seq(S), NEW a \in S
  PROVE  /\ Contents(Append(s, a)) = Contents(s) \cup {a}
         /\ Distinct(s) /\ a \notin Contents(s) => Distinct(Append(s, a))
<1>1. /\ DOMAIN s = 1 .. Len(s) /\ DOMAIN Append(s, a) = 1 .. Len(s) + 1 /\ Len(s) \in Nat
      /\ \A i \in 1 .. Len(s) : Append(s, a)[i] = s[i]
      /\ Append(s, a)[Len(s) + 1] = a
  BY AppendProperties, LenProperties
<1> QED
  BY <1>1 DEF Contents, Distinct

LEMMA Taken ==
  ASSUME NEW S, NEW s \in Seq(S), s # <<>>
  PROVE  /\ Head(s) \in Contents(s)
         /\ Contents(Tail(s)) \subseteq Contents(s)
         /\ Contents(s) = Contents(Tail(s)) \cup {Head(s)}
         /\ Distinct(s) => Distinct(Tail(s)) /\ Head(s) \notin Contents(Tail(s))
<1>1. /\ DOMAIN s = 1 .. Len(s) /\ Len(s) \in Nat \ {0}
      /\ DOMAIN Tail(s) = 1 .. Len(s) - 1
      /\ \A i \in 1 .. Len(s) - 1 : Tail(s)[i] = s[i + 1]
      /\ Head(s) = s[1]
  BY HeadTailProperties, LenProperties, EmptySeq
<1>2. ASSUME NEW x \in Contents(s) PROVE x \in Contents(Tail(s)) \cup {Head(s)}
  <2>1. PICK i \in 1 .. Len(s) : x = s[i]
    BY <1>1, <1>2 DEF Contents
  <2>2. CASE i = 1
    BY <1>1, <2>1, <2>2
  <2>3. CASE i # 1
    <3>1. i - 1 \in 1 .. Len(s) - 1 /\ Tail(s)[i - 1] = x
      BY <1>1, <2>1, <2>3
    <3> QED
      BY <1>1, <3>1 DEF Contents
  <2> QED
    BY <2>2, <2>3
<1>3. Head(s) \in Contents(s) /\ Contents(Tail(s)) \subseteq Contents(s)
  BY <1>1 DEF Contents
<1>4. ASSUME Distinct(s) PROVE Distinct(Tail(s)) /\ Head(s) \notin Contents(Tail(s))
  BY <1>1, <1>4 DEF Contents, Distinct
<1> QED
  BY <1>2, <1>3, <1>4

LEMMA Placing ==
  ASSUME NEW o
  PROVE  o \in Placed <=> \/ o \in Contents(queue) \/ o \in done \/ o \in cleared
                          \/ \E w \in Workers : o \in object[w]
BY DEF Placed

LEMMA WorkersFinite == Cardinality(Workers) \in Nat
BY ServerConstants, FS_CardinalityType

(* Who has stopped does not come back, so ecserver_destroy never has joined*)
(* more workers than have stopped.                                         *)
LEMMA StoppedCounted ==
  ASSUME JoinedStopped, Stopped \subseteq Stopped', joined' = joined
  PROVE  JoinedStopped'
<1>1. Stopped' \in SUBSET Workers
  BY DEF Stopped
<1>2. /\ IsFiniteSet(Stopped') /\ Cardinality(Stopped') \in Nat
      /\ Cardinality(Stopped) \in Nat
      /\ Cardinality(Stopped) <= Cardinality(Stopped')
  BY <1>1, ServerConstants, FS_Subset, FS_CardinalityType
<1>3. ASSUME joined \in 1 .. Cardinality(Workers) + 1
      PROVE  joined <= Cardinality(Stopped') + 1
  BY <1>2, <1>3, WorkersFinite DEF JoinedStopped
<1> QED
  BY <1>3 DEF JoinedStopped

LEMMA ServerStarts == Init => ServerIInv
<1> SUFFICES ASSUME Init PROVE ServerIInv
  OBVIOUS
<1>1. TypeOK
  <2>1. Q!TypeOK
    <3>1. worker_lock \in Q!Slots
      BY DEF Q!Slots, worker_lock
    <3>2. Q!NoOp \in Q!Ops
      BY DEF Q!Ops
    <3>3. "idle" \in Q!Locations
      BY DEF Q!Locations
    <3> QED
      BY <3>1, <3>2, <3>3 DEF Init, Q!TypeOK, Q!Threads, Q!NoResult
  <2>2. joined \in 0 .. Cardinality(Workers) + 2 /\ queue \in Seq(Objects)
    BY WorkersFinite DEF Init
  <2> QED
    BY <2>1, <2>2 DEF Init, TypeOK
<1>2. Unanswered /\ HandsFull /\ Fresh /\ WakeUpPending
  BY DEF Init, Unanswered, HandsFull, Fresh, WakeUpPending
<1>3. Apart
  BY DEF Init, Apart, Distinct, Contents
<1>4. JoinedStopped
  BY DEF Init, JoinedStopped
<1> QED
  BY <1>1, <1>2, <1>3, <1>4 DEF ServerIInv

LEMMA QueueSame ==
  ASSUME TypeOK, Unanswered, UNCHANGED qvars
  PROVE  Q!TypeOK' /\ Unanswered'
BY DEF TypeOK, Q!TypeOK, Unanswered, qvars

(* The accept thread.                                                      *)
LEMMA AcceptSteps ==
  ASSUME ServerIInv, AcceptThread \/ \E o \in Objects : Accept(o)
  PROVE  ServerIInv'
<1> USE DEF ServerIInv
<1>1. ASSUME NEW o \in Objects, Accept(o) PROVE ServerIInv'
  <2>1. Q!TypeOK' /\ Unanswered'
    BY <1>1, QueueSame DEF Accept
  <2>2. TypeOK' /\ HandsFull' /\ Apart'
    BY <1>1, <2>1 DEF Accept, TypeOK, HandsFull, Apart
  <2>3. Fresh'
    BY <1>1 DEF Accept, Fresh, Placed
  <2>4. JoinedStopped' /\ WakeUpPending'
    BY <1>1 DEF Accept, JoinedStopped, Stopped, WakeUpPending, qvars
  <2> QED
    BY <2>1, <2>2, <2>3, <2>4
<1>2. CASE AcceptAborted
  <2>1. Q!TypeOK' /\ Unanswered'
    BY <1>2, QueueSame DEF AcceptAborted
  <2>2. TypeOK' /\ HandsFull' /\ Apart' /\ Fresh'
    BY <1>2, <2>1 DEF AcceptAborted, TypeOK, HandsFull, Apart, Fresh
  <2>3. JoinedStopped' /\ WakeUpPending'
    BY <1>2 DEF AcceptAborted, JoinedStopped, Stopped, WakeUpPending, qvars
  <2> QED
    BY <2>1, <2>2, <2>3
<1>3. CASE AppendObject
  <2>1. Q!TypeOK' /\ Unanswered'
    BY <1>3, QueueSame DEF AppendObject
  <2>2. /\ accepted \in Objects /\ queue \in Seq(Objects)
        /\ accepted \notin Contents(queue) \cup done \cup cleared
        /\ \A w \in Workers : accepted \notin object[w]
    BY <1>3, Placing DEF AppendObject, Fresh, TypeOK
  <2>3. /\ Contents(queue') = Contents(queue) \cup {accepted}
        /\ Distinct(queue') /\ queue' \in Seq(Objects)
    BY <1>3, <2>2, Appended, AppendProperties DEF AppendObject, Apart
  <2>4. TypeOK' /\ HandsFull' /\ Fresh'
    BY <1>3, <2>1, <2>3 DEF AppendObject, TypeOK, HandsFull, Fresh
  <2>5. Apart'
    BY <1>3, <2>2, <2>3 DEF AppendObject, Apart
  <2>6. JoinedStopped' /\ WakeUpPending'
    BY <1>3 DEF AppendObject, JoinedStopped, Stopped, WakeUpPending
  <2> QED
    BY <2>1, <2>4, <2>5, <2>6
<1>4. CASE AcceptSet
  <2>1. Q!TypeOK' /\ Unanswered'
    BY <1>4, QueueEvents DEF AcceptSet
  <2>2. TypeOK' /\ HandsFull' /\ Apart' /\ Fresh'
    BY <1>4, <2>1 DEF AcceptSet, TypeOK, HandsFull, Apart, Fresh
  <2>3. JoinedStopped'
    BY <1>4 DEF AcceptSet, JoinedStopped, Stopped
  <2>4. WakeUpPending'
    <3>1. count'[worker_lock] > 0
      BY <1>4 DEF AcceptSet, Q!Set, TypeOK, Q!TypeOK, worker_lock
    <3> QED
      BY <3>1 DEF WakeUpPending
  <2> QED
    BY <2>1, <2>2, <2>3, <2>4
<1> QED
  BY <1>1, <1>2, <1>3, <1>4 DEF AcceptThread

(* A worker waits, and finds out what it was woken for.                    *)
LEMMA WaitSteps ==
  ASSUME ServerIInv, NEW w \in Workers,
         Wait(w) \/ WaitSignal(w) \/ Woken(w) \/ Aborted(w)
  PROVE  ServerIInv'
<1> USE DEF ServerIInv
<1>1. CASE Wait(w) \/ WaitSignal(w)
  <2>1. /\ Q!TypeOK' /\ Unanswered' /\ UNCHANGED server
        /\ \/ /\ UNCHANGED count
              /\ \A v \in Workers : result[v].event = "ready" => UNCHANGED result[v]
           \/ run[w] = "wait" /\ result'[w].event = "ready"
    BY <1>1, QueueCalls
  <2>2. TypeOK' /\ HandsFull' /\ Apart'
    BY <2>1 DEF server, TypeOK, HandsFull, Apart
  <2>3. Fresh' /\ JoinedStopped'
    BY <2>1 DEF server, Fresh, Placed, JoinedStopped, Stopped
  <2>4. WakeUpPending'
    BY <2>1 DEF server, WakeUpPending
  <2> QED
    BY <2>1, <2>2, <2>3, <2>4
<1>2. CASE Woken(w)
  <2>1. Q!TypeOK' /\ Unanswered'
    BY <1>2, QueueEvents DEF Woken
  <2>2. /\ run \in [Workers -> {"wait", "take", "set", "work", "stopped"}]
        /\ run' = [run EXCEPT ![w] = "take"] /\ run[w] = "wait"
        /\ UNCHANGED <<queue, accepter, accepted, object, done, cleared, joined>>
    BY <1>2 DEF Woken, TypeOK
  <2>3. TypeOK' /\ HandsFull' /\ Apart' /\ Fresh'
    BY <2>1, <2>2 DEF TypeOK, HandsFull, Apart, Fresh, Placed
  <2>4. JoinedStopped'
    BY <2>2, StoppedCounted DEF Stopped
  <2>5. WakeUpPending'
    BY <2>2 DEF WakeUpPending
  <2> QED
    BY <2>1, <2>3, <2>4, <2>5
<1>3. CASE Aborted(w)
  <2>1. Q!TypeOK' /\ Unanswered'
    BY <1>3, QueueSame DEF Aborted
  <2>2. /\ run \in [Workers -> {"wait", "take", "set", "work", "stopped"}]
        /\ run' = [run EXCEPT ![w] = "stopped"] /\ run[w] = "wait"
        /\ UNCHANGED <<queue, accepter, accepted, object, done, cleared, joined>>
    BY <1>3 DEF Aborted, TypeOK
  <2>3. TypeOK' /\ HandsFull' /\ Apart' /\ Fresh'
    BY <2>1, <2>2 DEF TypeOK, HandsFull, Apart, Fresh, Placed
  <2>4. JoinedStopped'
    BY <2>2, StoppedCounted DEF Stopped
  <2>5. WakeUpPending'
    BY <1>3, <2>2 DEF WakeUpPending, Aborted, qvars
  <2> QED
    BY <2>1, <2>3, <2>4, <2>5
<1> QED
  BY <1>1, <1>2, <1>3

(* A worker takes an object, wakes the next one and works.                 *)
LEMMA WorkSteps ==
  ASSUME ServerIInv, NEW w \in Workers,
         \/ TakeNothing(w) \/ TakeObject(w) \/ WorkerSet(w)
         \/ \E goOn \in BOOLEAN : Work(w, goOn)
  PROVE  ServerIInv'
<1> USE DEF ServerIInv
<1>1. CASE TakeNothing(w)
  <2>1. Q!TypeOK' /\ Unanswered'
    BY <1>1, QueueSame DEF TakeNothing
  <2>2. TypeOK' /\ HandsFull' /\ Apart' /\ Fresh'
    BY <1>1, <2>1 DEF TakeNothing, TypeOK, HandsFull, Apart, Fresh, Placed
  <2>3. JoinedStopped'
    BY <1>1, StoppedCounted DEF TakeNothing, Stopped, TypeOK
  <2>4. WakeUpPending'
    BY <1>1 DEF TakeNothing, WakeUpPending
  <2> QED
    BY <2>1, <2>2, <2>3, <2>4
<1>2. CASE TakeObject(w)
  <2>1. Q!TypeOK' /\ Unanswered'
    BY <1>2, QueueSame DEF TakeObject
  <2> DEFINE o == Head(queue)
  <2>2. /\ run[w] = "take" /\ object[w] = {}
        /\ object' = [object EXCEPT ![w] = {o}] /\ run' = [run EXCEPT ![w] = "set"]
        /\ queue' = Tail(queue)
        /\ UNCHANGED <<accepter, accepted, done, cleared, joined>>
        /\ object \in [Workers -> SUBSET Objects]
        /\ run \in [Workers -> {"wait", "take", "set", "work", "stopped"}]
    BY <1>2 DEF TakeObject, TypeOK, HandsFull
  <2>3. queue \in Seq(Objects) /\ queue # <<>> /\ Distinct(queue)
    BY <1>2 DEF TakeObject, TypeOK, Apart
  <2>4. /\ o \in Contents(queue) /\ o \in Objects /\ queue' \in Seq(Objects)
        /\ Contents(queue) = Contents(queue') \cup {o}
        /\ Distinct(queue') /\ o \notin Contents(queue')
    BY <2>2, <2>3, Taken, HeadTailProperties
  <2> HIDE DEF o
  <2>5. TypeOK'
    BY <2>1, <2>2, <2>4 DEF TypeOK
  <2>6. HandsFull'
    BY <2>2, <2>4 DEF HandsFull
  <2>7. Apart'
    BY <2>2, <2>4 DEF Apart
  <2>8. Fresh'
    <3> SUFFICES ASSUME accepter' = "append"
                 PROVE  accepted' \in Objects /\ accepted' \notin Placed'
      BY DEF Fresh
    <3>1. accepted \in Objects /\ accepted \notin Placed
      BY <2>2 DEF Fresh
    <3>2. /\ accepted \notin Contents(queue) \cup done \cup cleared
          /\ \A v \in Workers : accepted \notin object[v]
      BY <3>1, Placing
    <3>3. /\ accepted \notin Contents(queue') \cup done' \cup cleared'
          /\ \A v \in Workers : accepted \notin object'[v]
      BY <2>2, <2>4, <3>2
    <3> QED
      BY <2>2, <3>1, <3>3 DEF Placed
  <2>9. JoinedStopped'
    BY <2>2, StoppedCounted DEF Stopped
  <2>10. WakeUpPending'
    BY <2>2 DEF WakeUpPending
  <2> QED
    BY <2>1, <2>5, <2>6, <2>7, <2>8, <2>9, <2>10
<1>3. CASE WorkerSet(w)
  <2>1. Q!TypeOK' /\ Unanswered'
    BY <1>3, QueueEvents DEF WorkerSet
  <2>2. TypeOK' /\ HandsFull' /\ Apart' /\ Fresh'
    BY <1>3, <2>1 DEF WorkerSet, TypeOK, HandsFull, Apart, Fresh, Placed
  <2>3. JoinedStopped'
    BY <1>3, StoppedCounted DEF WorkerSet, Stopped, TypeOK
  <2>4. WakeUpPending'
    <3>1. count'[worker_lock] > 0
      BY <1>3 DEF WorkerSet, Q!Set, TypeOK, Q!TypeOK, worker_lock
    <3> QED
      BY <3>1 DEF WakeUpPending
  <2> QED
    BY <2>1, <2>2, <2>3, <2>4
<1>4. ASSUME NEW goOn \in BOOLEAN, Work(w, goOn) PROVE ServerIInv'
  <2>1. Q!TypeOK' /\ Unanswered'
    BY <1>4, QueueSame DEF Work
  <2>2. PICK o \in Objects : object[w] = {o}
    BY <1>4 DEF Work, HandsFull
  <2>3. /\ run[w] = "work" /\ done' = done \cup {o}
        /\ object' = [object EXCEPT ![w] = {}]
        /\ \E next \in {"wait", "stopped"} : run' = [run EXCEPT ![w] = next]
        /\ UNCHANGED <<qvars, queue, accepter, accepted, cleared, joined>>
        /\ object \in [Workers -> SUBSET Objects]
        /\ run \in [Workers -> {"wait", "take", "set", "work", "stopped"}]
    BY <1>4, <2>2 DEF Work, TypeOK
  <2>4. TypeOK' /\ HandsFull'
    BY <2>1, <2>3 DEF TypeOK, HandsFull
  <2>5. Apart'
    BY <2>2, <2>3 DEF Apart
  <2>6. Fresh'
    <3> SUFFICES ASSUME accepter' = "append"
                 PROVE  accepted' \in Objects /\ accepted' \notin Placed'
      BY DEF Fresh
    <3>1. accepted \in Objects /\ accepted \notin Placed
      BY <2>3 DEF Fresh
    <3>2. /\ accepted \notin Contents(queue) \cup done \cup cleared
          /\ \A v \in Workers : accepted \notin object[v]
      BY <3>1, Placing
    <3>3. /\ accepted \notin Contents(queue') \cup done' \cup cleared'
          /\ \A v \in Workers : accepted \notin object'[v]
      BY <2>2, <2>3, <3>2
    <3> QED
      BY <2>3, <3>1, <3>3 DEF Placed
  <2>7. JoinedStopped'
    BY <2>3, StoppedCounted DEF Stopped
  <2>8. WakeUpPending'
    BY <2>3 DEF WakeUpPending, qvars
  <2> QED
    BY <2>1, <2>4, <2>5, <2>6, <2>7, <2>8
<1> QED
  BY <1>1, <1>2, <1>3, <1>4

(* The abort, and ecserver_destroy.                                        *)
LEMMA EndSteps ==
  ASSUME ServerIInv, Abort \/ Main
  PROVE  ServerIInv'
<1> USE DEF ServerIInv
<1>1. CASE Abort
  <2>1. Q!TypeOK' /\ Unanswered'
    BY <1>1, QueueEvents DEF Abort
  <2>2. TypeOK' /\ HandsFull' /\ Apart' /\ Fresh' /\ JoinedStopped'
    BY <1>1, <2>1 DEF Abort, server, TypeOK, HandsFull, Apart, Fresh, Placed, JoinedStopped,
                      Stopped
  <2>3. WakeUpPending'
    BY <1>1 DEF Abort, server, Q!SetAbort, WakeUpPending
  <2> QED
    BY <2>1, <2>2, <2>3
<1>2. CASE JoinAccept
  <2>1. Q!TypeOK' /\ Unanswered'
    BY <1>2, QueueSame DEF JoinAccept
  <2>2. JoinedStopped'
    <3>1. Cardinality(Stopped) \in Nat
      BY ServerConstants, FS_Subset, FS_CardinalityType DEF Stopped
    <3> QED
      BY <1>2, <3>1 DEF JoinAccept, JoinedStopped, Stopped
  <2>3. TypeOK' /\ HandsFull' /\ Apart' /\ Fresh' /\ WakeUpPending'
    BY <1>2, <2>1, WorkersFinite DEF JoinAccept, TypeOK, HandsFull, Apart, Fresh, Placed,
                      WakeUpPending, qvars
  <2> QED
    BY <2>1, <2>2, <2>3
<1>3. CASE JoinWorker
  <2>1. Q!TypeOK' /\ Unanswered'
    BY <1>3, QueueSame DEF JoinWorker
  <2>2. JoinedStopped'
    <3>1. Stopped' = Stopped /\ joined <= Cardinality(Stopped) /\ joined' = joined + 1
      BY <1>3 DEF JoinWorker, Stopped
    <3>2. Cardinality(Stopped) \in Nat /\ joined \in Nat
      BY <1>3, WorkersFinite, ServerConstants, FS_Subset, FS_CardinalityType
         DEF Stopped, JoinWorker
    <3> QED
      BY <3>1, <3>2 DEF JoinedStopped
  <2>3. TypeOK' /\ HandsFull' /\ Apart' /\ Fresh' /\ WakeUpPending'
    BY <1>3, <2>1, WorkersFinite DEF JoinWorker, TypeOK, HandsFull, Apart, Fresh, Placed,
                      WakeUpPending, qvars
  <2> QED
    BY <2>1, <2>2, <2>3
<1>4. CASE Clear
  <2>1. Q!TypeOK' /\ Unanswered'
    BY <1>4 DEF Clear, TypeOK, Q!TypeOK, Unanswered
  <2>2. /\ Contents(queue') = {} /\ Distinct(queue') /\ queue' \in Seq(Objects)
        /\ Contents(queue) \subseteq Objects
    BY <1>4 DEF Clear, Contents, Distinct, TypeOK
  <2>3. TypeOK' /\ HandsFull'
    BY <1>4, <2>1, <2>2, WorkersFinite DEF Clear, TypeOK, HandsFull
  <2>4. Apart'
    BY <1>4, <2>2 DEF Clear, Apart
  <2>5. Fresh'
    <3>1. Placed' \subseteq Placed
      BY <1>4, <2>2 DEF Clear, Placed
    <3> QED
      BY <1>4, <3>1 DEF Clear, Fresh
  <2>6. JoinedStopped' /\ WakeUpPending'
    BY <1>4, WorkersFinite DEF Clear, JoinedStopped, WakeUpPending
  <2> QED
    BY <2>1, <2>3, <2>4, <2>5, <2>6
<1> QED
  BY <1>1, <1>2, <1>3, <1>4 DEF Main

LEMMA ServerSteps == ServerIInv /\ [Next]_vars => ServerIInv'
<1> SUFFICES ASSUME ServerIInv, [Next]_vars PROVE ServerIInv'
  OBVIOUS
<1>1. CASE AcceptThread \/ \E o \in Objects : Accept(o)
  BY <1>1, AcceptSteps
<1>2. ASSUME NEW w \in Workers, WorkerThread(w) \/ WaitSignal(w) \/ Work(w, FALSE)
      PROVE  ServerIInv'
  BY <1>2, WaitSteps, WorkSteps DEF WorkerThread
<1>3. CASE Abort \/ Main
  BY <1>3, EndSteps
<1>4. CASE UNCHANGED vars
  <2>1. UNCHANGED qvars /\ UNCHANGED server
    BY <1>4 DEF vars
  <2>2. Q!TypeOK' /\ Unanswered'
    BY <2>1, QueueSame DEF ServerIInv
  <2> QED
    BY <2>1, <2>2 DEF ServerIInv, qvars, server, TypeOK, HandsFull, Apart, Fresh, Placed,
                      JoinedStopped, Stopped, WakeUpPending
<1> QED
  BY <1>1, <1>2, <1>3, <1>4 DEF Next

-----------------------------------------------------------------------------
(* What is apart is in one place, counted as OnePlace does.                *)
LEMMA ApartOnePlace == ServerIInv => OnePlace
<1> SUFFICES ASSUME ServerIInv PROVE OnePlace
  OBVIOUS
<1> USE DEF ServerIInv, Apart
<1>1. ASSUME NEW o \in Objects
      PROVE  LET holders == {w \in Workers : o \in object[w]}
             IN  /\ Cardinality(holders) <= 1
                 /\ o \in Contents(queue) => holders = {} /\ o \notin done \cup cleared
                 /\ holders # {} => o \notin done \cup cleared
  <2> DEFINE holders == {w \in Workers : o \in object[w]}
  <2>1. Cardinality(holders) <= 1
    <3>1. CASE holders = {}
      <4> HIDE DEF holders
      <4> QED
        BY <3>1, FS_EmptySet
    <3>2. CASE holders # {}
      <4>1. PICK w \in holders : TRUE
        BY <3>2
      <4>2. holders = {w}
        BY <4>1
      <4> HIDE DEF holders
      <4> QED
        BY <4>2, FS_Singleton
    <3> QED
      BY <3>1, <3>2
  <2>2. o \in Contents(queue) => holders = {} /\ o \notin done \cup cleared
    OBVIOUS
  <2>3. holders # {} => o \notin done \cup cleared
    OBVIOUS
  <2> QED
    BY <2>1, <2>2, <2>3
<1> QED
  BY <1>1 DEF OnePlace, Distinct

(* However many workers and objects there are, whatever the callbacks      *)
(* answer and whenever the abort comes: every accepted object is in one    *)
(* place, and while one waits somebody will look.                          *)
THEOREM ServerOnce == Spec => []ServerInv
<1>1. ServerIInv => ServerInv
  BY ApartOnePlace DEF ServerIInv, ServerInv
<1> QED
  BY <1>1, ServerStarts, ServerSteps, PTL DEF Spec

-----------------------------------------------------------------------------
(* Every step of the server is a step of JobPool or leaves it alone.  The  *)
(* workers' hands are empty when the list is cleared because all of them   *)
(* have been joined by then.                                               *)
LEMMA AllStopped ==
  ASSUME ServerIInv, joined = Cardinality(Workers) + 1, NEW w \in Workers
  PROVE  object[w] = {}
<1>1. /\ Stopped \in SUBSET Workers /\ IsFiniteSet(Workers)
      /\ Cardinality(Workers) <= Cardinality(Stopped)
      /\ Cardinality(Workers) \in Nat /\ Cardinality(Stopped) \in Nat
  <2>1. Stopped \in SUBSET Workers /\ IsFiniteSet(Workers)
    BY ServerConstants DEF Stopped
  <2>2. Cardinality(Stopped) \in Nat
    BY <2>1, FS_Subset, FS_CardinalityType
  <2> QED
    BY <2>1, <2>2, WorkersFinite DEF ServerIInv, JoinedStopped
<1>2. Stopped = Workers
  BY <1>1, FS_Subset
<1> QED
  BY <1>2 DEF Stopped, ServerIInv, HandsFull

LEMMA PoolSteps ==
  ServerIInv /\ [Next]_vars => [Promise!Next]_(Promise!vars)
<1> SUFFICES ASSUME ServerIInv, [Next]_vars
             PROVE  Promise!Next \/ UNCHANGED <<queue, object, done \cup cleared>>
  BY DEF Promise!vars
<1> USE DEF ServerIInv
<1>1. CASE AppendObject
  <2>1. /\ accepted \in Objects
        /\ accepted \notin Contents(queue) \cup done \cup cleared
        /\ \A w \in Workers : accepted \notin object[w]
    BY <1>1, Placing DEF AppendObject, Fresh
  <2>2. Promise!Accept(accepted)
    BY <1>1, <2>1 DEF AppendObject, Promise!Accept, Promise!Known, Contents
  <2> QED
    BY <2>1, <2>2 DEF Promise!Next
<1>2. ASSUME NEW w \in Workers, TakeObject(w)
      PROVE  Promise!Next
  <2>1. Promise!Take(w)
    BY <1>2 DEF TakeObject, Promise!Take, HandsFull
  <2> QED
    BY <2>1 DEF Promise!Next
<1>3. ASSUME NEW w \in Workers, NEW goOn \in BOOLEAN, Work(w, goOn)
      PROVE  Promise!Next
  <2>1. Promise!Finish(w)
    BY <1>3 DEF Work, Promise!Finish, HandsFull
  <2> QED
    BY <2>1 DEF Promise!Next
<1>4. CASE Clear
  <2>1. \A w \in Workers : object[w] = {}
    BY <1>4, AllStopped DEF Clear
  <2>2. Promise!Clear
    BY <1>4, <2>1 DEF Clear, Promise!Clear, Contents
  <2> QED
    BY <2>2 DEF Promise!Next
<1>5. CASE AcceptAborted \/ AcceptSet \/ \E o \in Objects : Accept(o)
  BY <1>5 DEF AcceptAborted, AcceptSet, Accept
<1>6. ASSUME NEW w \in Workers,
             \/ Wait(w) \/ WaitSignal(w) \/ Woken(w) \/ Aborted(w)
             \/ TakeNothing(w) \/ WorkerSet(w)
      PROVE  UNCHANGED <<queue, object, done \cup cleared>>
  BY <1>6 DEF Wait, WaitSignal, Woken, Aborted, TakeNothing, WorkerSet, server
<1>7. CASE Abort \/ JoinAccept \/ JoinWorker \/ UNCHANGED vars
  BY <1>7 DEF Abort, JoinAccept, JoinWorker, server, vars
<1>8. ASSUME NEW w \in Workers, WorkerThread(w) \/ WaitSignal(w) \/ Work(w, FALSE)
      PROVE  Promise!Next \/ UNCHANGED <<queue, object, done \cup cleared>>
  BY <1>2, <1>3, <1>6, <1>8 DEF WorkerThread
<1> QED
  BY <1>1, <1>4, <1>5, <1>7, <1>8 DEF Next, AcceptThread, Main

(* The server, for any number of workers and objects, takes the objects in *)
(* the order in which it accepted them, each once, and drops none.         *)
THEOREM ServerIsJobPool == Spec => KeepsPromise
<1>1. Init => Promise!Init
  BY DEF Init, Promise!Init
<1> QED
  BY <1>1, ServerStarts, ServerSteps, PoolSteps, PTL
     DEF Spec, KeepsPromise, Promise!Spec
=============================================================================
