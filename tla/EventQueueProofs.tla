--------------------------- MODULE EventQueueProofs ---------------------------
(***************************************************************************)
(* Proofs about EcEventQueue for any number of threads, handles, objects   *)
(* and signals, in three layers: what holds whatever the threads do; that  *)
(* only open handles are watched, when one thread removes them; and what   *)
(* becomes of the objects, when one thread waits.                          *)
(***************************************************************************)
EXTENDS EventQueue, TLAPS

USE QueueConstants

(* What every call carries.                                                *)
LEMMA Arguments ==
  ASSUME TypeOK, NEW t \in Threads
  PROVE  /\ op[t].kind \in {"none", "wait", "size", "sortout", "add", "del"}
         /\ op[t].kind = "none" <=> op[t] = NoOp
         /\ op[t].kind = "add" => /\ op[t].handle \in Handles
                                  /\ op[t].type \in Types
                                  /\ op[t].object \in Objects \cup {NoObject}
         /\ op[t].kind = "del" => op[t].handle \in Handles
         /\ op[t].kind = "sortout" => op[t].expired \subseteq Objects
<1>1. op[t] \in Ops
  BY DEF TypeOK
<1>2. CASE op[t] = NoOp
  BY <1>2 DEF NoOp
<1>3. CASE op[t] \in [kind : {"wait", "size"}]
  BY <1>3 DEF NoOp
<1>4. CASE op[t] \in [kind : {"sortout"}, expired : SUBSET Objects]
  BY <1>4 DEF NoOp
<1>5. CASE op[t] \in [kind : {"add"}, handle : Handles, type : Types,
                      object : Objects \cup {NoObject}]
  BY <1>5 DEF NoOp
<1>6. CASE op[t] \in [kind : {"del"}, handle : Handles]
  BY <1>6 DEF NoOp
<1> QED
  BY <1>1, <1>2, <1>3, <1>4, <1>5, <1>6 DEF Ops

-----------------------------------------------------------------------------
(* The part of the invariant that needs no assumption on the threads.      *)
Structure == TypeOK /\ InsideOwns /\ CallShape

(* A thread makes a call: it has none yet, and the mutex is not touched.   *)
LEMMA CallStructure ==
  ASSUME Structure, NEW t \in Threads,
         \/ t \in Changers /\ Changes(t)
         \/ t \in Waiters /\ Waits(t)
         \/ t \in Droppers /\ \E h \in Handles : DelCall(t, h)
  PROVE  Structure'
<1> USE DEF Structure
<1>1. ASSUME NEW h \in Handles, NEW type \in Types, NEW o \in Objects \cup {NoObject},
             AddCall(t, h, type, o)
      PROVE  Structure'
  <2> DEFINE new == [kind |-> "add", handle |-> h, type |-> type, object |-> o]
  <2>1. /\ new \in Ops /\ new.kind = "add"
        /\ op' = [op EXCEPT ![t] = new] /\ pc' = [pc EXCEPT ![t] = "lock"]
        /\ alive /\ pc[t] = "idle"
        /\ UNCHANGED <<mutex, abort, count, arrived, fdset, userhdl, ptrset, misfreed,
                       alive, result>>
    BY <1>1 DEF AddCall, Call, Ops, sets
  <2>2. TypeOK'
    BY <1>1, <2>1 DEF TypeOK, AddCall, Locations
  <2>3. InsideOwns'
    BY <2>1 DEF TypeOK, InsideOwns
  <2>4. CallShape'
    BY <2>1 DEF TypeOK, CallShape
  <2> QED
    BY <2>2, <2>3, <2>4
<1>2. CASE SizeCall(t)
  BY <1>2, Arguments DEF TypeOK, Locations, Ops, NoOp, NoResult, InsideOwns, CallShape,
                         Call, SizeCall, sets, world
<1>3. CASE t \in Waiters /\ WaitCall(t)
  BY <1>3, Arguments DEF TypeOK, Locations, Ops, NoOp, NoResult, InsideOwns, CallShape,
                         Call, WaitCall, sets, world
<1>4. ASSUME t \in Waiters, NEW expired \in SUBSET Expirable, SortoutCall(t, expired)
      PROVE  Structure'
  BY <1>4, Arguments DEF TypeOK, Locations, Ops, NoOp, NoResult, InsideOwns, CallShape,
                         Call, SortoutCall, sets, world
<1>5. CASE t \in Waiters /\ Serve(t)
  BY <1>5, Arguments DEF TypeOK, Locations, Ops, NoOp, NoResult, InsideOwns, CallShape,
                         Call, Serve, calls, sets, world
<1>6. ASSUME t \in Droppers, NEW h \in Handles, DelCall(t, h)
      PROVE  Structure'
  BY <1>6, Arguments DEF TypeOK, Locations, Ops, NoOp, NoResult, InsideOwns, CallShape,
                         Call, DelCall, sets, world
<1> QED
  BY <1>1, <1>2, <1>3, <1>4, <1>5, <1>6 DEF Changes, Waits

(* A change under the mutex, and the steps before and after it.            *)
LEMMA ChangeStructure ==
  ASSUME Structure, NEW t \in Threads,
         \/ Lock(t) \/ Add(t) \/ Del(t) \/ DelClear(t) \/ Reset(t) \/ Size(t) \/ Sortout(t)
  PROVE  Structure'
<1> USE DEF Structure, NoOp, NoResult, Inside, Unlock, sets, world
<1>1. CASE Lock(t)
  BY <1>1, Arguments DEF TypeOK, Locations, InsideOwns, CallShape, Lock
<1>2. CASE DelClear(t) \/ Reset(t) \/ Size(t)
  <2> USE DEF DelClear, Reset, Size
  <2>1. TypeOK'
    <3>1. CASE DelClear(t)
      BY <1>2, <3>1, Arguments DEF TypeOK, Locations, Ops
    <3>2. CASE Reset(t)
      BY <1>2, <3>2, Arguments DEF TypeOK, Locations, Ops
    <3>3. CASE Size(t)
      BY <1>2, <3>3, Arguments DEF TypeOK, Locations, Ops
    <3> QED
      BY <1>2, <3>1, <3>2, <3>3
  <2>2. InsideOwns'
    BY <1>2 DEF TypeOK, InsideOwns, Locations
  <2>3. CallShape'
    BY <1>2, Arguments DEF TypeOK, InsideOwns, CallShape
  <2> QED
    BY <2>1, <2>2, <2>3
<1>3. CASE Add(t)
  <2> USE DEF Add
  <2>1. TypeOK'
    <3>1. /\ op[t].handle \in Handles /\ op[t].object \in Objects \cup {NoObject}
          /\ pc' \in [Threads -> Locations] /\ op' \in [Threads -> Ops]
      BY <1>3, Arguments DEF TypeOK, Locations, Ops
    <3>2. CASE op[t].handle < FdSetSize
      <4>1. /\ fdset' \subseteq Slots /\ userhdl' \subseteq Slots
            /\ ptrset' \in [Handles -> Objects \cup {NoObject}]
        <5>1. op[t].handle \in Slots
          BY <3>1, <3>2 DEF Slots
        <5>2. /\ fdset' = fdset \cup {op[t].handle}
              /\ userhdl' = IF op[t].type = "user" THEN userhdl \cup {op[t].handle}
                                                   ELSE userhdl \ {op[t].handle}
              /\ ptrset' = [ptrset EXCEPT ![op[t].handle] = op[t].object]
          BY <1>3, <3>2
        <5> QED
          BY <3>1, <5>1, <5>2 DEF TypeOK
      <4>2. /\ mutex' = Null
            /\ UNCHANGED <<open, given, intr, abort, count, arrived, result, misfreed, alive>>
        BY <1>3, <3>2
      <4> QED
        BY <3>1, <4>1, <4>2 DEF TypeOK
    <3>3. CASE ~(op[t].handle < FdSetSize)
      BY <1>3, <3>1, <3>3 DEF TypeOK
    <3> QED
      BY <3>2, <3>3
  <2>2. InsideOwns'
    BY <1>3 DEF TypeOK, InsideOwns, Locations
  <2>3. CallShape'
    BY <1>3, Arguments DEF TypeOK, InsideOwns, CallShape
  <2> QED
    BY <2>1, <2>2, <2>3
<1>4. CASE Del(t)
  <2> DEFINE h == op[t].handle
             o == ptrset[h]
  <2> USE DEF Del, Destroy
  <2>1. h \in Handles
    BY <1>4, Arguments
  <2>2. TypeOK'
    <3>1. /\ fdset' \subseteq Slots
          /\ count' \in [Handles -> Nat]
          /\ arrived' \subseteq Handles
          /\ given' \subseteq Objects
          /\ open' \subseteq Handles
          /\ misfreed' \in BOOLEAN
      BY <1>4, <2>1 DEF TypeOK
    <3>2. /\ mutex' \in Threads \cup {Null}
          /\ pc' \in [Threads -> Locations]
          /\ op' \in [Threads -> Ops]
      BY <1>4 DEF TypeOK, Locations, Ops
    <3> QED
      BY <1>4, <3>1, <3>2 DEF TypeOK, Slots
  <2>3. InsideOwns'
    BY <1>4 DEF TypeOK, InsideOwns, Locations
  <2>4. CallShape'
    BY <1>4, <2>1, Arguments DEF TypeOK, InsideOwns, CallShape
  <2> QED
    BY <2>2, <2>3, <2>4
<1>5. CASE Sortout(t)
  <2> USE DEF Sortout
  <2>1. TypeOK'
    BY <1>5, Arguments DEF TypeOK, Locations, Ops, Slots
  <2>2. InsideOwns'
    BY <1>5 DEF TypeOK, InsideOwns, Locations
  <2>3. CallShape'
    BY <1>5, Arguments DEF TypeOK, InsideOwns, CallShape
  <2> QED
    BY <2>1, <2>2, <2>3
<1> QED
  BY <1>1, <1>2, <1>3, <1>4, <1>5

(* One round of ece_list_select and its result.                            *)
LEMMA SelectStructure ==
  ASSUME Structure, NEW t \in Threads,
         \/ SelectAbort(t) \/ RewriteAbort(t) \/ SelectInternal(t) \/ SelectTimeout(t)
         \/ SelectSignal(t) \/ \E h \in Handles : SelectEvent(t, h)
  PROVE  Structure'
<1> USE DEF Structure, TypeOK, Locations, Ops, NoOp, InsideOwns, CallShape, Inside, Return,
            Unlock, sets, world
<1>1. CASE SelectAbort(t)
  BY <1>1, Arguments DEF SelectAbort
<1>2. CASE RewriteAbort(t)
  BY <1>2, Arguments DEF RewriteAbort
<1>3. CASE SelectInternal(t) \/ SelectSignal(t)
  <2>1. op' = op
    BY <1>3 DEF SelectInternal, SelectSignal
  <2>2. CASE SelectInternal(t)
    BY <2>1, <2>2, Arguments DEF SelectInternal
  <2>3. CASE SelectSignal(t)
    BY <2>1, <2>3, Arguments DEF SelectSignal
  <2> QED
    BY <1>3, <2>2, <2>3
<1>4. CASE SelectTimeout(t)
  BY <1>4, Arguments DEF SelectTimeout
<1>5. ASSUME NEW h \in Handles, SelectEvent(t, h)
      PROVE  Structure'
  BY <1>5, Arguments DEF SelectEvent
<1> QED
  BY <1>1, <1>2, <1>3, <1>4, <1>5

(* The environment takes no part in the calls.                             *)
LEMMA EnvironmentStructure ==
  ASSUME Structure, Environment
  PROVE  Structure'
<1> USE DEF Structure, calls, sets, world
<1>1. ASSUME NEW h \in Handles, Arrive(h) \/ Set(h)
      PROVE  Structure'
  <2>1. TypeOK'
    <3>1. CASE Arrive(h)
      BY <3>1 DEF TypeOK, Arrive
    <3>2. CASE Set(h)
      BY <3>2 DEF TypeOK, Set
    <3> QED
      BY <1>1, <3>1, <3>2
  <2>2. InsideOwns' /\ CallShape'
    BY <1>1 DEF InsideOwns, CallShape, Arrive, Set
  <2> QED
    BY <2>1, <2>2
<1>2. CASE SetAbort
  BY <1>2 DEF TypeOK, InsideOwns, CallShape, SetAbort
<1>3. CASE Teardown
  <2>1. TypeOK'
    BY <1>3 DEF TypeOK, Teardown, Left, Slots, Ops
  <2>2. InsideOwns' /\ CallShape'
    BY <1>3 DEF TypeOK, InsideOwns, CallShape, Teardown
  <2> QED
    BY <2>1, <2>2
<1> QED
  BY <1>1, <1>2, <1>3 DEF Environment

LEMMA NextStructure ==
  ASSUME Structure, [Next]_vars
  PROVE  Structure'
<1>1. CASE UNCHANGED vars
  BY <1>1 DEF vars, sets, world, Structure, TypeOK, InsideOwns, CallShape
<1>2. CASE \E t \in Threads : Step(t)
  BY <1>2, ChangeStructure, SelectStructure DEF Step
<1>3. CASE \/ \E t \in Changers : Changes(t)
           \/ \E t \in Waiters : Waits(t)
           \/ \E t \in Droppers, h \in Handles : DelCall(t, h)
  BY <1>3, CallStructure DEF Threads
<1> QED
  BY <1>1, <1>2, <1>3, EnvironmentStructure DEF Next

LEMMA InitStructure == Init => Structure
<1> SUFFICES ASSUME Init
             PROVE  Structure
  OBVIOUS
<1> USE DEF Init, NoOp, NoResult
<1>1. TypeOK
  BY DEF TypeOK, Locations, Ops
<1>2. InsideOwns /\ CallShape
  BY DEF InsideOwns, CallShape
<1> QED
  BY <1>1, <1>2 DEF Structure

(* Only the owner of self->mutex is inside, and every call goes its way,   *)
(* whatever the threads do.                                                *)
THEOREM QueueOwned == Spec => [](TypeOK /\ InsideOwns /\ CallShape)
<1> QED
  BY InitStructure, NextStructure, PTL DEF Spec, Structure

-----------------------------------------------------------------------------
(* One thread runs the callbacks that drop a connection, as the pool with  *)
(* one thread does.  With two, both may have been woken for a handle, and  *)
(* the second removal closes whatever was opened under its number.         *)
OneDropper == \A d, e \in Droppers : d = e

(* A step after which no more is watched, added or removed than before.    *)
LEMMA PassingKeepsOpen ==
  ASSUME WatchedHandlesOpen,
         alive' => alive, fdset' \subseteq fdset, open' = open,
         \A t \in Threads, h \in Handles : Adding(t, h)' => Adding(t, h),
         \A d \in Droppers, h \in Handles : Leaving(d, h)' => Leaving(d, h)
  PROVE  WatchedHandlesOpen'
BY DEF WatchedHandlesOpen

(* A call is made: what it adds was not open, what it removes is.          *)
LEMMA CallKeepsOpen ==
  ASSUME OneDropper, Structure, WatchedHandlesOpen, NEW t \in Threads,
         \/ t \in Changers /\ Changes(t)
         \/ t \in Waiters /\ Waits(t)
         \/ t \in Droppers /\ \E h \in Handles : DelCall(t, h)
  PROVE  WatchedHandlesOpen'
<1> USE DEF Structure
<1>1. ASSUME NEW h \in Handles, NEW type \in Types, NEW o \in Objects \cup {NoObject},
             AddCall(t, h, type, o)
      PROVE  WatchedHandlesOpen'
  BY <1>1, Arguments DEF TypeOK, CallShape, NoOp, NoResult, WatchedHandlesOpen,
                         Adding, Leaving, Slots, Call, AddCall, sets, world
<1>2. CASE SizeCall(t)
  <2>1. /\ \A u \in Threads, h \in Handles : Adding(u, h)' => Adding(u, h)
        /\ \A d \in Droppers, h \in Handles : Leaving(d, h)' => Leaving(d, h)
    BY <1>2, Arguments DEF TypeOK, NoOp, Adding, Leaving, Call, SizeCall
  <2> QED
    BY <1>2, <2>1, PassingKeepsOpen DEF Call, SizeCall, sets
<1>3. CASE WaitCall(t)
  BY <1>3, Arguments DEF TypeOK, CallShape, NoOp, NoResult, WatchedHandlesOpen,
                         Adding, Leaving, Slots, Call, WaitCall, sets, world
<1>4. ASSUME NEW expired \in SUBSET Expirable, SortoutCall(t, expired)
      PROVE  WatchedHandlesOpen'
  BY <1>4, Arguments DEF TypeOK, CallShape, NoOp, NoResult, WatchedHandlesOpen,
                         Adding, Leaving, Slots, Call, SortoutCall, sets, world
<1>5. CASE Serve(t)
  BY <1>5, Arguments DEF TypeOK, CallShape, NoOp, NoResult, WatchedHandlesOpen,
                         Adding, Leaving, Slots, Call, Serve, calls, sets, world
<1>6. ASSUME t \in Droppers, NEW h \in Handles, DelCall(t, h)
      PROVE  WatchedHandlesOpen'
  BY <1>6, Arguments DEF TypeOK, CallShape, NoOp, NoResult, WatchedHandlesOpen,
                         Adding, Leaving, Slots, Call, DelCall, sets, world
<1> QED
  BY <1>1, <1>2, <1>3, <1>4, <1>5, <1>6 DEF Changes, Waits

(* A change is carried out.                                                *)
LEMMA ChangeKeepsOpen ==
  ASSUME OneDropper, Structure, WatchedHandlesOpen, NEW t \in Threads,
         \/ Lock(t) \/ Add(t) \/ Del(t) \/ DelClear(t) \/ Reset(t) \/ Size(t) \/ Sortout(t)
  PROVE  WatchedHandlesOpen'
<1> USE DEF Structure
<1>1. CASE Lock(t)
  <2>1. /\ \A u \in Threads, h \in Handles : Adding(u, h)' => Adding(u, h)
        /\ \A d \in Droppers, h \in Handles : Leaving(d, h)' => Leaving(d, h)
    BY <1>1, Arguments DEF TypeOK, NoOp, Adding, Leaving, Unlock, Lock
  <2> QED
    BY <1>1, <2>1, PassingKeepsOpen DEF Lock, sets, world
<1>2. CASE Reset(t)
  <2>1. /\ \A u \in Threads, h \in Handles : Adding(u, h)' => Adding(u, h)
        /\ \A d \in Droppers, h \in Handles : Leaving(d, h)' => Leaving(d, h)
    BY <1>2, Arguments DEF TypeOK, NoOp, Adding, Leaving, Unlock, Reset
  <2> QED
    BY <1>2, <2>1, PassingKeepsOpen DEF Reset, sets, world
<1>3. CASE DelClear(t)
  <2>1. /\ \A u \in Threads, h \in Handles : Adding(u, h)' => Adding(u, h)
        /\ \A d \in Droppers, h \in Handles : Leaving(d, h)' => Leaving(d, h)
    BY <1>3, Arguments DEF TypeOK, NoOp, Adding, Leaving, Unlock, DelClear
  <2> QED
    BY <1>3, <2>1, PassingKeepsOpen DEF DelClear, sets, world
<1>4. CASE Size(t)
  <2>1. /\ \A u \in Threads, h \in Handles : Adding(u, h)' => Adding(u, h)
        /\ \A d \in Droppers, h \in Handles : Leaving(d, h)' => Leaving(d, h)
    BY <1>4, Arguments DEF TypeOK, NoOp, Adding, Leaving, Unlock, Size
  <2> QED
    BY <1>4, <2>1, PassingKeepsOpen DEF Size, sets, world
<1>5. CASE Add(t)
  <2> DEFINE h == op[t].handle
  <2>1. alive /\ h \in Handles /\ Adding(t, h)
    BY <1>5, Arguments
      DEF TypeOK, CallShape, NoOp, NoResult, Adding, Leaving, Inside, Unlock, sets,
               world, Add
  <2>2. /\ h \in open \ fdset
        /\ \A u \in Threads : Adding(u, h) => u = t
        /\ \A d \in Droppers : ~Leaving(d, h)
    BY <2>1 DEF WatchedHandlesOpen
  <2>3. /\ \A u \in Threads, g \in Handles : Adding(u, g)' => u # t /\ Adding(u, g)
        /\ \A d \in Droppers, g \in Handles : Leaving(d, g)' => Leaving(d, g)
    BY <1>5, Arguments
      DEF TypeOK, CallShape, NoOp, NoResult, Adding, Leaving, Inside, Unlock, sets,
               world, Add
  <2>4. IF h < FdSetSize THEN fdset' = fdset \cup {h} /\ open' = open
                         ELSE fdset' = fdset /\ open' = open \ {h} /\ h \notin fdset
    BY <1>5, <2>2
      DEF TypeOK, CallShape, NoOp, NoResult, Adding, Leaving, Inside, Unlock, sets,
               world, Add
  <2>5. fdset' \subseteq open'
    BY <2>1, <2>2, <2>4 DEF WatchedHandlesOpen
  <2>6. ASSUME NEW u \in Threads, NEW g \in Handles, Adding(u, g)'
        PROVE  g \in open' \ fdset' /\ \A v \in Threads : Adding(v, g)' => v = u
    BY <2>1, <2>2, <2>3, <2>4, <2>6 DEF WatchedHandlesOpen
  <2>7. ASSUME NEW d \in Droppers, NEW g \in Handles, Leaving(d, g)'
        PROVE  g \in open' \cap Slots /\ \A u \in Threads : ~Adding(u, g)'
    BY <2>1, <2>2, <2>3, <2>4, <2>7 DEF WatchedHandlesOpen
  <2> QED
    BY <2>5, <2>6, <2>7 DEF WatchedHandlesOpen
<1>6. CASE Del(t)
  <2> DEFINE h == op[t].handle
  <2>1. alive /\ h \in Handles /\ t \in Droppers /\ Leaving(t, h)
    BY <1>6, Arguments
      DEF TypeOK, CallShape, NoOp, NoResult, Adding, Leaving, Inside, Unlock, sets,
               world, Del
  <2>2. \A u \in Threads : ~Adding(u, h)
    BY <2>1 DEF WatchedHandlesOpen
  <2>3. fdset' = fdset \ {h} /\ open' = open \ {h}
    BY <1>6
      DEF TypeOK, CallShape, NoOp, NoResult, Adding, Leaving, Inside, Unlock, sets,
               world, Del, Destroy
  <2>4. \A u \in Threads, g \in Handles : Adding(u, g)' => Adding(u, g)
    BY <1>6, Arguments
      DEF TypeOK, CallShape, NoOp, NoResult, Adding, Leaving, Inside, Unlock, sets,
               world, Del
  <2>5. \A g \in Handles : ~Leaving(t, g)'
    BY <1>6
      DEF TypeOK, CallShape, NoOp, NoResult, Adding, Leaving, Inside, Unlock, sets,
               world, Del
  <2>6. \A d \in Droppers, g \in Handles : ~Leaving(d, g)'
    BY <2>1, <2>5 DEF OneDropper
  <2> QED
    BY <2>1, <2>2, <2>3, <2>4, <2>6 DEF WatchedHandlesOpen
<1>7. CASE Sortout(t)
  <2>1. alive /\ fdset' \subseteq fdset /\ open' = open
    BY <1>7, Arguments
      DEF TypeOK, CallShape, NoOp, NoResult, Adding, Leaving, Inside, Unlock, sets,
               world, Sortout
  <2>2. /\ \A u \in Threads, g \in Handles : Adding(u, g)' => Adding(u, g)
        /\ \A d \in Droppers, g \in Handles : Leaving(d, g)' => Leaving(d, g)
    BY <1>7, Arguments
      DEF TypeOK, CallShape, NoOp, NoResult, Adding, Leaving, Inside, Unlock, sets,
               world, Sortout
  <2> QED
    BY <2>1, <2>2, PassingKeepsOpen
<1> QED
  BY <1>1, <1>2, <1>3, <1>4, <1>5, <1>6, <1>7

(* A waiter is told a handle of the set only, which is open.               *)
LEMMA SelectKeepsOpen ==
  ASSUME OneDropper, Structure, WatchedHandlesOpen, NEW t \in Threads,
         \/ SelectAbort(t) \/ RewriteAbort(t) \/ SelectInternal(t) \/ SelectTimeout(t)
         \/ SelectSignal(t) \/ \E h \in Handles : SelectEvent(t, h)
  PROVE  WatchedHandlesOpen'
<1> USE DEF Structure, TypeOK, CallShape, NoOp, WatchedHandlesOpen, Adding, Leaving, Slots,
            Inside, Return, Unlock, sets, world
<1>1. CASE SelectAbort(t)
  BY <1>1, Arguments DEF SelectAbort
<1>2. CASE RewriteAbort(t)
  BY <1>2, Arguments DEF RewriteAbort
<1>3. CASE SelectInternal(t)
  BY <1>3, Arguments DEF SelectInternal
<1>4. CASE SelectTimeout(t)
  BY <1>4, Arguments DEF SelectTimeout
<1>5. CASE SelectSignal(t)
  BY <1>5, Arguments DEF SelectSignal
<1>6. ASSUME NEW h \in Handles, SelectEvent(t, h)
      PROVE  WatchedHandlesOpen'
  BY <1>6, Arguments DEF SelectEvent, Ready
<1> QED
  BY <1>1, <1>2, <1>3, <1>4, <1>5, <1>6

LEMMA NextKeepsOpen ==
  ASSUME OneDropper, Structure, WatchedHandlesOpen, [Next]_vars
  PROVE  WatchedHandlesOpen'
<1>1. CASE UNCHANGED vars
  BY <1>1 DEF vars, sets, world, WatchedHandlesOpen, Adding, Leaving
<1>2. CASE \E t \in Threads : Step(t)
  BY <1>2, ChangeKeepsOpen, SelectKeepsOpen DEF Step
<1>3. CASE \/ \E t \in Changers : Changes(t)
           \/ \E t \in Waiters : Waits(t)
           \/ \E t \in Droppers, h \in Handles : DelCall(t, h)
  BY <1>3, CallKeepsOpen DEF Threads
<1>4. CASE Environment
  <2>1. CASE Teardown
    BY <2>1 DEF Teardown, WatchedHandlesOpen
  <2>2. CASE ~Teardown
    <3>1. UNCHANGED <<alive, fdset, open, op, pc, result>>
      BY <1>4, <2>2 DEF Environment, Arrive, Set, SetAbort, calls, sets, world
    <3> QED
      BY <3>1 DEF WatchedHandlesOpen, Adding, Leaving
  <2> QED
    BY <2>1, <2>2
<1> QED
  BY <1>1, <1>2, <1>3, <1>4 DEF Next

LEMMA InitOpen == Init => WatchedHandlesOpen
<1> SUFFICES ASSUME Init
             PROVE  WatchedHandlesOpen
  OBVIOUS
<1>1. \A t \in Threads : op[t].kind = "none" /\ result[t].event = "none"
  BY DEF Init, NoOp, NoResult
<1> QED
  BY <1>1 DEF Init, WatchedHandlesOpen, Adding, Leaving, Threads

(* With one thread that drops connections select() never watches a closed  *)
(* handle, for any number of threads that wait, add and ask for the size.  *)
THEOREM QueueWellFormed == OneDropper => (Spec => []QueueInv)
<1> SUFFICES ASSUME OneDropper
             PROVE  Spec => []QueueInv
  OBVIOUS
<1>1. Init => QueueInv
  BY InitStructure, InitOpen DEF Structure, QueueInv
<1>2. QueueInv /\ [Next]_vars => QueueInv'
  BY NextStructure, NextKeepsOpen DEF Structure, QueueInv
<1> QED
  BY <1>1, <1>2, PTL DEF Spec

-----------------------------------------------------------------------------
(* One thread waits, as the pool of one thread does, and no entry expires: *)
(* the contexts have no timeout, so the sort-out callback answers FALSE    *)
(* (an entry that does expire is never destroyed: SortoutDestroys).  What  *)
(* an object in the queue can then rely on.                                *)
OneWaiter == /\ \A v, w \in Waiters : v = w
             /\ Expirable = {}

ObjectInv == ObjectsOwned /\ NoObjectLost /\ NothingMisfreed /\ ServedObjectAlive

(* A step of one thread that neither registers nor removes anything.       *)
Passes(t) ==
  /\ UNCHANGED <<fdset, ptrset, given, misfreed, alive>>
  /\ \A u \in Threads : op'[u].kind = "add" /\ pc'[u] \in {"lock", "inside"}
                          => op'[u] = op[u] /\ pc[u] \in {"lock", "inside"}
  /\ \A u \in Threads : op[u].kind = "add" /\ pc[u] # "reset"
                          => op'[u] = op[u] /\ pc'[u] # "reset"
  /\ \A u \in Threads : pc[u] = "clear" => op'[u] = op[u] /\ pc'[u] = "clear"
  /\ \A d \in Droppers, g \in Handles : Leaving(d, g)' => Leaving(d, g)
  /\ \A w \in Waiters : result'[w].object \in {result[w].object, NoObject}

LEMMA PassingKeepsObjects ==
  ASSUME IInv, NEW t \in Threads, Passes(t)
  PROVE  ObjectInv'
<1> USE DEF IInv, Passes
<1>1. \A u \in Threads, g \in Handles : Adding(u, g)' => Adding(u, g) /\ op'[u] = op[u]
  BY DEF Adding
<1>2. ObjectsOwned'
  <2> SUFFICES ASSUME alive'
               PROVE  ObjectsOwned'
    BY DEF ObjectsOwned
  <2>1. ASSUME NEW v \in Threads, NEW h \in Handles, Adding(v, h)', op'[v].object # NoObject
        PROVE  /\ op'[v].object \in given'
               /\ \A g \in fdset' : ptrset'[g] # op'[v].object
               /\ \A u \in Threads, g \in Handles :
                    Adding(u, g)' /\ op'[u].object = op'[v].object => u = v
               /\ \A w \in Waiters : result'[w].object # op'[v].object
    <3>1. Adding(v, h) /\ op'[v] = op[v]
      BY <1>1, <2>1
    <3>2. /\ op[v].object \in given
          /\ \A g \in fdset : ptrset[g] # op[v].object
          /\ \A w \in Waiters : result[w].object # op[v].object
      BY <2>1, <3>1 DEF ObjectsOwned
    <3>3. ASSUME NEW u \in Threads, NEW g \in Handles, Adding(u, g)',
                 op'[u].object = op'[v].object
          PROVE  u = v
      BY <1>1, <2>1, <3>1, <3>3 DEF ObjectsOwned
    <3> QED
      BY <2>1, <3>1, <3>2, <3>3
  <2>2. \A d \in Droppers, h \in Handles : Leaving(d, h)' => h \in fdset'
    BY DEF ObjectsOwned
  <2>3. HasOnDel =>
          \A h \in Handles : ptrset'[h] # NoObject =>
            h \in fdset' \/ \E u \in Threads : pc'[u] = "clear" /\ op'[u].handle = h
    BY DEF ObjectsOwned
  <2>4. /\ \A h \in fdset' : ptrset'[h] \in given' \cup {NoObject}
        /\ \A g, h \in fdset' : ptrset'[g] = ptrset'[h] /\ ptrset'[h] # NoObject => g = h
    BY DEF ObjectsOwned
  <2> QED
    BY <2>1, <2>2, <2>3, <2>4 DEF ObjectsOwned
<1>3. NoObjectLost' /\ NothingMisfreed' /\ ServedObjectAlive'
  BY DEF NoObjectLost, NothingMisfreed, ServedObjectAlive
<1> QED
  BY <1>2, <1>3 DEF ObjectInv

LEMMA CallKeepsObjects ==
  ASSUME OneWaiter, IInv, NEW t \in Threads,
         \/ t \in Changers /\ Changes(t)
         \/ t \in Waiters /\ Waits(t)
         \/ t \in Droppers /\ \E h \in Handles : DelCall(t, h)
  PROVE  ObjectInv'
<1> USE DEF IInv, QueueInv, TypeOK, CallShape, NoOp, NoResult, WatchedHandlesOpen, Adding,
            Leaving, ObjectInv, ObjectsOwned, NoObjectLost, NothingMisfreed,
            ServedObjectAlive, Call, sets, world
<1>1. ASSUME NEW h \in Handles, NEW type \in Types, NEW o \in Objects \cup {NoObject},
             AddCall(t, h, type, o)
      PROVE  ObjectInv'
  <2>1. ObjectsOwned'
    BY <1>1, Arguments DEF AddCall
  <2>2. NoObjectLost' /\ NothingMisfreed' /\ ServedObjectAlive'
    BY <1>1, Arguments DEF AddCall
  <2> QED
    BY <2>1, <2>2
<1>2. CASE SizeCall(t)
  <2>1. Passes(t)
    BY <1>2, Arguments DEF Passes, SizeCall
  <2> QED
    BY <2>1, PassingKeepsObjects
<1>3. CASE WaitCall(t)
  <2>1. Passes(t)
    BY <1>3, Arguments DEF Passes, WaitCall
  <2> QED
    BY <2>1, PassingKeepsObjects
<1>4. ASSUME NEW expired \in SUBSET Expirable, SortoutCall(t, expired)
      PROVE  ObjectInv'
  <2>1. Passes(t)
    BY <1>4, Arguments DEF Passes, SortoutCall
  <2> QED
    BY <2>1, PassingKeepsObjects
<1>5. CASE Serve(t)
  BY <1>5, Arguments DEF Serve, calls
<1>6. ASSUME t \in Droppers, NEW h \in Handles, DelCall(t, h)
      PROVE  ObjectInv'
  BY <1>6, Arguments DEF DelCall
<1> QED
  BY <1>1, <1>2, <1>3, <1>4, <1>5, <1>6 DEF Changes, Waits

(* The pointer of a new handle overwrites none, and a refused object was   *)
(* nobody's but the caller's.                                              *)
LEMMA AddKeepsObjects ==
  ASSUME OneWaiter, IInv, NEW t \in Threads, Add(t)
  PROVE  ObjectInv'
<1> DEFINE h == op[t].handle
           o == op[t].object
<1> USE DEF IInv
<1>1. /\ alive /\ h \in Handles /\ Adding(t, h)
      /\ o \in Objects \cup {NoObject} /\ pc[t] # "idle"
  BY Arguments DEF QueueInv, CallShape, Add, Inside, Adding
<1>2. /\ h \notin fdset
      /\ \A u \in Threads : Adding(u, h) => u = t
      /\ \A d \in Droppers : ~Leaving(d, h)
  BY <1>1 DEF QueueInv, WatchedHandlesOpen
<1>3. o # NoObject => /\ o \in given
                      /\ \A g \in fdset : ptrset[g] # o
                      /\ \A u \in Threads, g \in Handles :
                           Adding(u, g) /\ op[u].object = o => u = t
                      /\ \A w \in Waiters : result[w].object # o
  BY <1>1 DEF ObjectsOwned
<1>4. /\ \A u \in Threads, g \in Handles : Adding(u, g)' => u # t /\ Adding(u, g)
      /\ \A u \in Threads : u # t => op'[u] = op[u] /\ pc'[u] = pc[u]
      /\ pc'[t] = "reset" /\ pc[t] = "inside" /\ alive' = alive /\ misfreed' = misfreed
      /\ result' = result
  BY Arguments DEF QueueInv, TypeOK, Locations, Add, Inside, Unlock, Adding
<1>5. \A d \in Droppers, g \in Handles : Leaving(d, g)' => Leaving(d, g)
  BY <1>4 DEF Leaving, QueueInv, TypeOK, Threads, Add, Unlock
<1>6. CASE h < FdSetSize
  <2>1. /\ fdset' = fdset \cup {h}
        /\ ptrset' = [ptrset EXCEPT ![h] = o]
        /\ given' = given
    BY <1>6 DEF Add
  <2>2. ptrset'[h] = o /\ \A g \in Handles \ {h} : ptrset'[g] = ptrset[g]
    BY <1>1, <2>1 DEF QueueInv, TypeOK
  <2>3. fdset \subseteq Handles
    BY DEF QueueInv, TypeOK, Slots
  <2>4. ObjectsOwned'
    BY <1>1, <1>2, <1>3, <1>4, <1>5, <2>1, <2>2, <2>3 DEF ObjectsOwned, Threads
  <2>5. NoObjectLost'
    <3>1. ASSUME NEW x \in given', NEW g \in fdset, ptrset[g] = x
          PROVE  g \in fdset' /\ ptrset'[g] = x
      BY <1>2, <2>1, <2>2, <2>3, <3>1
    <3>2. h \in fdset' /\ ptrset'[h] = o
      BY <2>1, <2>2
    <3> QED
      BY <1>4, <2>1, <3>1, <3>2 DEF NoObjectLost
  <2>6. NothingMisfreed' /\ ServedObjectAlive'
    BY <1>4, <2>1 DEF NothingMisfreed, ServedObjectAlive
  <2> QED
    BY <2>4, <2>5, <2>6 DEF ObjectInv
<1>7. CASE ~(h < FdSetSize)
  <2>1. UNCHANGED <<fdset, ptrset>> /\ given' = given \ {o}
    BY <1>7 DEF Add, sets
  <2>2. ObjectsOwned'
    BY <1>1, <1>3, <1>4, <1>5, <2>1 DEF ObjectsOwned, Threads
  <2>3. NoObjectLost' /\ NothingMisfreed' /\ ServedObjectAlive'
    BY <1>1, <1>3, <1>4, <2>1 DEF NoObjectLost, NothingMisfreed, ServedObjectAlive
  <2> QED
    BY <2>2, <2>3 DEF ObjectInv
<1> QED
  BY <1>6, <1>7

(* The only thread that could have been woken for the handle removes it.   *)
LEMMA DelKeepsObjects ==
  ASSUME OneWaiter, IInv, NEW t \in Threads, Del(t)
  PROVE  ObjectInv'
<1> DEFINE h == op[t].handle
           o == ptrset[h]
<1> USE DEF IInv
<1>1. alive /\ h \in Handles /\ t \in Droppers /\ Leaving(t, h)
  BY Arguments DEF QueueInv, CallShape, Del, Inside, Leaving
<1>2. h \in fdset /\ o \in given \cup {NoObject} /\ fdset \subseteq Handles
  BY <1>1 DEF ObjectsOwned, QueueInv, TypeOK, Slots
<1>3. \A g \in fdset : g # h => o = NoObject \/ ptrset[g] # o
  BY <1>1, <1>2 DEF ObjectsOwned
<1>4. \A u \in Threads, g \in Handles :
        Adding(u, g) /\ op[u].object # NoObject => op[u].object # o
  BY <1>1, <1>2 DEF ObjectsOwned
<1>5. /\ \A u \in Threads, g \in Handles : Adding(u, g)' => Adding(u, g) /\ op'[u] = op[u]
      /\ \A u \in Threads : op[u].kind = "add" =>
           op'[u] = op[u] /\ (pc[u] # "reset" => pc'[u] # "reset")
  BY Arguments DEF QueueInv, TypeOK, CallShape, Del, Inside, Unlock, Adding
<1>6. \A u \in Threads : pc[u] # "clear"
  BY DEF QueueInv, TypeOK, InsideOwns, Del, Inside
<1>7. \A w \in Waiters : result'[w].object = NoObject
  BY <1>1 DEF QueueInv, CallShape, OneWaiter, Del, Inside, Threads
<1>8. \A d \in Droppers, g \in Handles : ~Leaving(d, g)'
  <2>1. \A g \in Handles : ~Leaving(t, g)'
    BY Arguments DEF QueueInv, TypeOK, CallShape, Del, Inside, Unlock, Leaving, NoOp
  <2> QED
    BY <1>1, <2>1 DEF OneWaiter
<1>9. /\ fdset' = fdset \ {h} /\ ptrset' = ptrset /\ alive' = alive /\ result' = result
      /\ given' = given \ {o}
      /\ HasOnDel /\ o # NoObject => pc'[t] = "clear" /\ op' = op
      /\ misfreed' = misfreed
  BY <1>2 DEF Del, Destroy, QueueInv, TypeOK
<1>10. ObjectsOwned'
  BY <1>1, <1>2, <1>3, <1>4, <1>5, <1>6, <1>7, <1>8, <1>9 DEF ObjectsOwned
<1>11. NoObjectLost'
  BY <1>2, <1>5, <1>9 DEF NoObjectLost
<1>12. NothingMisfreed' /\ ServedObjectAlive'
  BY <1>7, <1>9 DEF NothingMisfreed, ServedObjectAlive
<1> QED
  BY <1>10, <1>11, <1>12 DEF ObjectInv

(* The pointer that is cleared is the one the callback was applied to.     *)
LEMMA DelClearKeepsObjects ==
  ASSUME IInv, NEW t \in Threads, DelClear(t)
  PROVE  ObjectInv'
<1> DEFINE h == op[t].handle
<1> USE DEF IInv
<1>1. /\ h \in Handles \ fdset
      /\ \A u \in Threads : pc[u] = "clear" => u = t
      /\ fdset \subseteq Handles
  BY Arguments DEF QueueInv, TypeOK, InsideOwns, CallShape, Slots, DelClear
<1>2. /\ ptrset'[h] = NoObject /\ \A g \in Handles \ {h} : ptrset'[g] = ptrset[g]
      /\ UNCHANGED <<fdset, given, misfreed, alive, result>>
      /\ pc'[t] = "reset" /\ \A u \in Threads : u # t => pc'[u] = pc[u]
      /\ op' = op /\ op[t].kind = "del"
  BY <1>1 DEF QueueInv, TypeOK, CallShape, DelClear, Unlock, world
<1>3. \A u \in Threads, g \in Handles : Adding(u, g)' => Adding(u, g)
  BY <1>2 DEF Adding
<1>4. \A d \in Droppers, g \in Handles : Leaving(d, g)' => Leaving(d, g)
  BY <1>2 DEF Leaving, Threads
<1>5. \A g \in fdset : ptrset'[g] = ptrset[g]
  BY <1>1, <1>2
<1>6. ObjectsOwned'
  BY <1>1, <1>2, <1>3, <1>4, <1>5 DEF ObjectsOwned
<1>7. NoObjectLost' /\ NothingMisfreed' /\ ServedObjectAlive'
  BY <1>2, <1>5 DEF NoObjectLost, NothingMisfreed, ServedObjectAlive
<1> QED
  BY <1>6, <1>7 DEF ObjectInv

LEMMA ChangeKeepsObjects ==
  ASSUME OneWaiter, IInv, NEW t \in Threads,
         Lock(t) \/ DelClear(t) \/ Reset(t) \/ Size(t) \/ Sortout(t)
  PROVE  ObjectInv'
<1> USE DEF IInv, QueueInv, TypeOK, InsideOwns, CallShape, NoOp, NoResult,
            WatchedHandlesOpen, Adding, Leaving, ObjectInv, ObjectsOwned, NoObjectLost,
            NothingMisfreed, ServedObjectAlive, Inside, Unlock, sets, world
<1>1. CASE Lock(t)
  <2>1. Passes(t)
    BY <1>1, Arguments DEF Passes, Lock
  <2> QED
    BY <2>1, PassingKeepsObjects
<1>2. CASE Reset(t)
  <2>1. Passes(t)
    BY <1>2, Arguments DEF Passes, Reset
  <2> QED
    BY <2>1, PassingKeepsObjects
<1>3. CASE DelClear(t)
  BY <1>3, DelClearKeepsObjects DEF ObjectInv
<1>4. CASE Size(t)
  <2>1. Passes(t)
    BY <1>4, Arguments DEF Passes, Size
  <2> QED
    BY <2>1, PassingKeepsObjects
<1>5. CASE Sortout(t)
  <2> DEFINE gone == {h \in Handles : ptrset[h] \in op[t].expired}
             kept == [h \in Handles |-> IF h \in gone THEN NoObject ELSE ptrset[h]]
  <2>1. gone = {}
    BY <1>5 DEF Sortout, OneWaiter
  <2>2. kept = ptrset
    BY <2>1
  <2>3. /\ ptrset' = kept /\ fdset' = fdset \ gone
        /\ misfreed' = (misfreed \/ (HasOnDel /\ gone # {}))
    BY <1>5 DEF Sortout
  <2>4. ptrset' = ptrset /\ fdset' = fdset /\ misfreed' = misfreed
    BY <2>1, <2>2, <2>3
  <2>5. Passes(t)
    BY <1>5, <2>4, Arguments DEF Passes, Sortout
  <2> QED
    BY <2>5, PassingKeepsObjects
<1> QED
  BY <1>1, <1>2, <1>3, <1>4, <1>5

LEMMA SelectKeepsObjects ==
  ASSUME OneWaiter, IInv, NEW t \in Threads,
         \/ SelectAbort(t) \/ RewriteAbort(t) \/ SelectInternal(t) \/ SelectTimeout(t)
         \/ SelectSignal(t) \/ \E h \in Handles : SelectEvent(t, h)
  PROVE  ObjectInv'
<1> USE DEF IInv, QueueInv, TypeOK, CallShape, NoOp, WatchedHandlesOpen, Adding, Leaving,
            ObjectInv, ObjectsOwned, NoObjectLost, NothingMisfreed, ServedObjectAlive,
            Inside, Return, Unlock, sets, world
<1>1. CASE SelectAbort(t)
  <2>1. Passes(t)
    BY <1>1, Arguments DEF Passes, SelectAbort
  <2> QED
    BY <2>1, PassingKeepsObjects
<1>2. CASE RewriteAbort(t)
  <2>1. Passes(t)
    BY <1>2, Arguments DEF Passes, RewriteAbort
  <2> QED
    BY <2>1, PassingKeepsObjects
<1>3. CASE SelectInternal(t)
  <2>1. Passes(t)
    BY <1>3, Arguments DEF Passes, SelectInternal
  <2> QED
    BY <2>1, PassingKeepsObjects
<1>4. CASE SelectTimeout(t)
  <2>1. Passes(t)
    BY <1>4, Arguments DEF Passes, SelectTimeout
  <2> QED
    BY <2>1, PassingKeepsObjects
<1>5. CASE SelectSignal(t)
  <2>1. Passes(t)
    BY <1>5, Arguments DEF Passes, SelectSignal
  <2> QED
    BY <2>1, PassingKeepsObjects
<1>6. ASSUME NEW h \in Handles, SelectEvent(t, h)
      PROVE  ObjectInv'
  BY <1>6, Arguments DEF SelectEvent, Ready
<1> QED
  BY <1>1, <1>2, <1>3, <1>4, <1>5, <1>6

(* ece_list_destroy hands every object that is left to the callback.       *)
LEMMA TeardownKeepsObjects ==
  ASSUME OneWaiter, IInv, Teardown
  PROVE  ObjectInv'
<1> USE DEF IInv
<1>1. \A t \in Threads : op[t].kind = "none" /\ pc[t] = "idle"
  BY DEF QueueInv, CallShape, Teardown
<1>2. \A w \in Waiters : result'[w].object = NoObject
  BY DEF QueueInv, CallShape, Teardown, Threads, calls
<1>3. HasOnDel => \A h \in Left : h \in fdset /\ ptrset[h] \in given
  BY <1>1 DEF ObjectsOwned, Left, Teardown
<1>4. misfreed' = misfreed
  BY <1>3 DEF QueueInv, TypeOK, Teardown
<1>5. NoObjectLost'
  <2>1. \A o \in given : \E h \in fdset : ptrset[h] = o
    BY <1>1 DEF NoObjectLost
  <2>2. given \subseteq Objects /\ fdset \subseteq Handles
    BY DEF QueueInv, TypeOK, Slots
  <2>3. HasOnDel => given' = {}
    BY <2>1, <2>2 DEF Teardown, Left
  <2> QED
    BY <2>1, <2>3 DEF NoObjectLost, Teardown, calls, sets
<1>6. ObjectsOwned'
  BY DEF ObjectsOwned, Teardown
<1> QED
  BY <1>2, <1>4, <1>5, <1>6 DEF ObjectInv, NothingMisfreed, ServedObjectAlive

LEMMA NextKeepsObjects ==
  ASSUME OneWaiter, IInv, [Next]_vars
  PROVE  ObjectInv'
<1>1. CASE UNCHANGED <<alive, fdset, ptrset, given, misfreed, op, pc, result>>
  BY <1>1 DEF IInv, ObjectInv, ObjectsOwned, NoObjectLost, NothingMisfreed,
              ServedObjectAlive, Adding, Leaving
<1>2. CASE UNCHANGED vars
  BY <1>1, <1>2 DEF vars, sets, world
<1>3. CASE \E t \in Threads : Step(t)
  BY <1>3, AddKeepsObjects, DelKeepsObjects, ChangeKeepsObjects, SelectKeepsObjects DEF Step
<1>4. CASE \/ \E t \in Changers : Changes(t)
           \/ \E t \in Waiters : Waits(t)
           \/ \E t \in Droppers, h \in Handles : DelCall(t, h)
  BY <1>4, CallKeepsObjects DEF Threads
<1>5. CASE Environment
  <2>1. CASE ~Teardown
    BY <1>1, <1>5, <2>1 DEF Environment, Arrive, Set, SetAbort, calls, sets, world
  <2> QED
    BY <2>1, TeardownKeepsObjects
<1> QED
  BY <1>2, <1>3, <1>4, <1>5 DEF Next

LEMMA InitObjects == Init => ObjectInv
<1> SUFFICES ASSUME Init
             PROVE  ObjectInv
  OBVIOUS
<1>1. \A t \in Threads : /\ op[t].kind = "none"
                         /\ result[t].event = "none" /\ result[t].object = NoObject
  BY DEF Init, NoOp, NoResult
<1> QED
  BY <1>1 DEF Init, ObjectInv, ObjectsOwned, NoObjectLost, NothingMisfreed,
              ServedObjectAlive, Adding, Leaving, Threads

LEMMA ObjectsInvariant == OneWaiter => (Spec => []IInv)
<1> SUFFICES ASSUME OneWaiter
             PROVE  Spec => []IInv
  OBVIOUS
<1>1. OneDropper
  BY DEF OneWaiter, OneDropper
<1>2. Init => IInv
  BY InitStructure, InitOpen, InitObjects DEF Structure, QueueInv, ObjectInv, IInv
<1>3. IInv /\ [Next]_vars => IInv'
  BY <1>1, NextStructure, NextKeepsOpen, NextKeepsObjects
     DEF Structure, QueueInv, ObjectInv, IInv
<1> QED
  BY <1>2, <1>3, PTL DEF Spec

(* With one waiter an object that was handed to the queue stays reachable  *)
(* until its callback runs, however many threads add.                      *)
THEOREM QueueLosesNothing == OneWaiter => (Spec => []NoObjectLost)
<1>1. IInv => NoObjectLost
  BY DEF IInv
<1> QED
  BY <1>1, ObjectsInvariant, PTL

(* The destroy callback gets only what is in the queue, and only once, and *)
(* the waiter never runs an object that was destroyed.                     *)
THEOREM QueueFreesOnce == OneWaiter => (Spec => []ObjectsSafe)
<1>1. IInv => ObjectsSafe
  BY DEF IInv, ObjectsSafe
<1> QED
  BY <1>1, ObjectsInvariant, PTL

===============================================================================
