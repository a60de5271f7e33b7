------------------------------ MODULE Messages ------------------------------
(***************************************************************************)
(* The message system of src/entc/utils/ecmessages.c: modules register a   *)
(* callback for a method; broadcast calls every module of a method, send   *)
(* calls one.  Both run the callbacks under the read lock and walk through *)
(* the live list; a callback may send or broadcast in turn (the logger is  *)
(* a broadcast, too) and then waits for the read lock within a read lock.  *)
(* Registration takes the write lock; without memory it logs under it, and *)
(* waits for the read lock that it keeps everybody from.  The lock is      *)
(* SharedExclusive, which ReadWriteLock is shown to implement.             *)
(***************************************************************************)
EXTENDS Naturals, Sequences, FiniteSets, SequencesExt

CONSTANTS
  Threads,
  Modules,
  Methods,
  Provides,   \* which module has callbacks for which method
  Preset,     \* what ecmessages_initialize and the main thread registered:
              \* a sequence of modules for each method in its domain
  LogMethod,  \* ENTC_MSGSRVC_LOG
  MaxDepth    \* bound on calls within calls

Distinct(s) == \A i, j \in DOMAIN s : i # j => s[i] # s[j]
Members(s) == {s[i] : i \in DOMAIN s}

ASSUME MessagesConstants ==
  /\ IsFiniteSet(Threads) /\ IsFiniteSet(Modules) /\ Modules # {}
  /\ MaxDepth \in Nat \ {0}
  /\ Provides \subseteq Modules \X Methods /\ LogMethod \in Methods
  /\ DOMAIN Preset \subseteq Methods
  /\ \A m \in DOMAIN Preset :
       Preset[m] # <<>> /\ Preset[m] \in Seq(Modules) /\ Distinct(Preset[m])

VARIABLES
  reads, writer,   \* the lock, see SharedExclusive
  functions,       \* the modules of each method that has any, in order
  stack,           \* the calls a thread is in, the innermost first
  wants,           \* the call for which a thread waits for the read lock
  op,              \* the change a thread makes or waits to make
  up               \* ecmessages_deinitialize has not been called

Lock == INSTANCE SharedExclusive WITH MaxNest <- MaxDepth

lock == <<reads, writer>>
vars == <<lock, functions, stack, wants, op, up>>

(* A call that reads: which method, which entries it still has to look at  *)
(* (from pos on), the modules it has called, and whether one of them runs. *)
Calls ==
  [kind : {"broadcast", "send"}, method : Methods, module : Modules,
   pos : Nat, called : Seq(Modules), running : BOOLEAN]

(* A call at its beginning.                                                *)
Call(kind, module, method) ==
  [kind |-> kind, method |-> method, module |-> module, pos |-> 1, called |-> <<>>, running |-> FALSE]
Asked ==
  [kind : {"broadcast", "send"}, method : Methods, module : Modules,
   pos : {1}, called : {<<>>}, running : {FALSE}]
NoCall == [kind |-> "none"]

NoOp == [does |-> "none"]
Changes == {[does |-> "add", module |-> p[1], method |-> p[2]] : p \in Provides}
           \cup [does : {"removeAll"}, module : Modules]

TypeOK ==
  /\ reads \in [Threads -> 0 .. MaxDepth]
  /\ writer \subseteq Threads
  /\ DOMAIN functions \subseteq Methods
  /\ \A m \in DOMAIN functions :
       functions[m] \in Seq(Modules) /\ Len(functions[m]) <= Cardinality(Modules)
  /\ stack \in [Threads -> Seq(Calls)]
  /\ wants \in [Threads -> Asked \cup {NoCall}]
  /\ op \in [Threads -> Changes \cup {NoOp}]
  /\ up \in BOOLEAN

Init ==
  /\ Lock!Init
  /\ functions = Preset
  /\ stack = [t \in Threads |-> <<>>]
  /\ wants = [t \in Threads |-> NoCall]
  /\ op = [t \in Threads |-> NoOp]
  /\ up = TRUE

-----------------------------------------------------------------------------
ListOf(method) == IF method \in DOMAIN functions THEN functions[method] ELSE <<>>

Top(t) == Head(stack[t])
Replace(t, call) == stack' = [stack EXCEPT ![t] = <<call>> \o Tail(@)]

(* A thread may call when it is in no call, or from a callback.            *)
Ask(t, call) ==
  /\ up /\ op[t] = NoOp /\ wants[t] = NoCall
  /\ stack[t] # <<>> => (Top(t).running /\ Len(stack[t]) < MaxDepth)
  /\ wants' = [wants EXCEPT ![t] = call]
  /\ UNCHANGED <<lock, functions, stack, op, up>>

AnyModule == CHOOSE m \in Modules : TRUE

(* ecmessages_broadcast and ecmessages_send ask for the read lock ...      *)
Broadcast(t, method) == Ask(t, Call("broadcast", AnyModule, method))
Send(t, module, method) == Ask(t, Call("send", module, method))

(* Mutation: the list is read without the lock.                            *)
EnterUnlocked(t) ==
  /\ wants[t] # NoCall
  /\ stack' = [stack EXCEPT ![t] = <<wants[t]>> \o @]
  /\ wants' = [wants EXCEPT ![t] = NoCall]
  /\ UNCHANGED <<lock, functions, op, up>>

(* Mutation: a lock that lets nobody read while somebody waits to write.   *)
EnterWritersFirst(t) ==
  /\ wants[t] # NoCall /\ \A u \in Threads : op[u] = NoOp
  /\ Lock!BeginRead(t)
  /\ stack' = [stack EXCEPT ![t] = <<wants[t]>> \o @]
  /\ wants' = [wants EXCEPT ![t] = NoCall]
  /\ UNCHANGED <<functions, op, up>>

(* ... and, when they have it, look up the list of the method.             *)
Enter(t) ==
  /\ wants[t] # NoCall
  /\ Lock!BeginRead(t)
  /\ stack' = [stack EXCEPT ![t] = <<wants[t]>> \o @]
  /\ wants' = [wants EXCEPT ![t] = NoCall]
  /\ UNCHANGED <<functions, op, up>>

(* The next entry of the live list: a broadcast calls it, a send calls it  *)
(* if it is the module it looks for.                                       *)
Visit(t) ==
  /\ stack[t] # <<>> /\ ~Top(t).running
  /\ LET c == Top(t)
     IN  /\ c.pos <= Len(ListOf(c.method))
         /\ IF c.kind = "broadcast" \/ ListOf(c.method)[c.pos] = c.module
            THEN Replace(t, [c EXCEPT !.running = TRUE,
                                      !.called = Append(@, ListOf(c.method)[c.pos])])
            ELSE Replace(t, [c EXCEPT !.pos = @ + 1])
  /\ UNCHANGED <<lock, functions, wants, op, up>>

(* Mutation: the walk goes two entries on.                                 *)
CallbackSkips(t) ==
  /\ stack[t] # <<>> /\ Top(t).running /\ wants[t] = NoCall
  /\ Replace(t, [Top(t) EXCEPT !.running = FALSE, !.pos = @ + 2])
  /\ UNCHANGED <<lock, functions, wants, op, up>>

(* The callback returns.  A broadcast goes on, a send has done its work.   *)
CallbackReturns(t) ==
  /\ stack[t] # <<>> /\ Top(t).running /\ wants[t] = NoCall
  /\ LET c == Top(t)
     IN  Replace(t, [c EXCEPT !.running = FALSE,
                              !.pos = IF c.kind = "broadcast" THEN @ + 1
                                      ELSE Len(ListOf(c.method)) + 1])
  /\ UNCHANGED <<lock, functions, wants, op, up>>

(* Mutation: a call within a call forgets to give its read lock back.      *)
LeaveKeepsLock(t) ==
  /\ stack[t] # <<>> /\ ~Top(t).running
  /\ Top(t).pos > Len(ListOf(Top(t).method))
  /\ IF Len(stack[t]) = 1 THEN Lock!EndRead(t) ELSE UNCHANGED lock
  /\ stack' = [stack EXCEPT ![t] = Tail(@)]
  /\ UNCHANGED <<functions, wants, op, up>>

(* The list is at its end: the read lock is given back.                    *)
Leave(t) ==
  /\ stack[t] # <<>> /\ ~Top(t).running
  /\ Top(t).pos > Len(ListOf(Top(t).method))
  /\ Lock!EndRead(t)
  /\ stack' = [stack EXCEPT ![t] = Tail(@)]
  /\ UNCHANGED <<functions, wants, op, up>>

-----------------------------------------------------------------------------
(* ecmessages_add and ecmessages_removeAll, from a thread in no call: a    *)
(* callback that changed the registry would wait for itself.               *)
WantChange(t, change) ==
  /\ up /\ op[t] = NoOp /\ stack[t] = <<>> /\ wants[t] = NoCall
  /\ op' = [op EXCEPT ![t] = change]
  /\ UNCHANGED <<lock, functions, stack, wants, up>>

LockWrite(t) ==
  /\ op[t] # NoOp
  /\ Lock!BeginWrite(t)
  /\ UNCHANGED <<functions, stack, wants, op, up>>

(* Nothing it called for itself is in the way of the change.               *)
Done(t) ==
  /\ wants[t] = NoCall
  /\ Lock!EndWrite(t)
  /\ op' = [op EXCEPT ![t] = NoOp]
  /\ UNCHANGED <<stack, wants, up>>

(* ecmessages_add appends to a list: eclist_insert gets no memory, and     *)
(* tells the logger, which is a broadcast.                                 *)
OutOfMemory(t) ==
  /\ op[t].does = "add" /\ t \in writer /\ wants[t] = NoCall
  /\ wants' = [wants EXCEPT ![t] = Call("broadcast", AnyModule, LogMethod)]
  /\ UNCHANGED <<lock, functions, stack, op, up>>

(* Mutation: a module is entered again.                                    *)
AddTwice(t) ==
  /\ op[t].does = "add" /\ t \in writer
  /\ LET method == op[t].method
     IN  functions' = [m \in DOMAIN functions \cup {method} |->
                         IF m = method THEN Append(ListOf(m), op[t].module) ELSE functions[m]]
  /\ Done(t)

(* The method gets a list if it has none; a module that is registered for  *)
(* it already keeps its first callback.                                    *)
Add(t) ==
  /\ op[t].does = "add" /\ t \in writer
  /\ LET method == op[t].method
         list   == ListOf(method)
     IN  functions' = [m \in DOMAIN functions \cup {method} |->
                         IF m # method THEN functions[m]
                         ELSE IF op[t].module \in Members(list) THEN list
                         ELSE Append(list, op[t].module)]
  /\ Done(t)

(* The entry that ecintmap_find finds, the first one, is erased.           *)
Without(list, module) == RemoveFirst(list, module)

(* Mutation: a method stays without modules.                               *)
RemoveLeavesEmpty(t) ==
  /\ op[t].does = "removeAll" /\ t \in writer
  /\ functions' = [m \in DOMAIN functions |-> Without(functions[m], op[t].module)]
  /\ Done(t)

(* The module leaves the list of every method, and a method whose list is  *)
(* empty leaves the map: erase answers the node before, so that the walk   *)
(* goes on with the node after.                                            *)
RemoveAll(t) ==
  /\ op[t].does = "removeAll" /\ t \in writer
  /\ functions' = [m \in {n \in DOMAIN functions : Without(functions[n], op[t].module) # <<>>} |->
                     Without(functions[m], op[t].module)]
  /\ Done(t)

(* ecmessages_deinitialize takes no lock: the threads were joined before.  *)
Deinitialize ==
  /\ up
  /\ \A t \in Threads : stack[t] = <<>> /\ op[t] = NoOp /\ wants[t] = NoCall
  /\ up' = FALSE
  /\ functions' = <<>>
  /\ UNCHANGED <<lock, stack, wants, op>>

-----------------------------------------------------------------------------
Next ==
  \/ \E t \in Threads :
       \/ Enter(t) \/ Visit(t) \/ CallbackReturns(t) \/ Leave(t)
       \/ LockWrite(t) \/ Add(t) \/ RemoveAll(t) \/ OutOfMemory(t)
       \/ \E method \in Methods : Broadcast(t, method)
       \/ \E module \in Modules, method \in Methods : Send(t, module, method)
       \/ \E change \in Changes : WantChange(t, change)
  \/ Deinitialize

Spec == Init /\ [][Next]_vars

(* A thread goes on, and a writer that has the lock; who asks for the read *)
(* lock is served where it is free again and again (ReaderServed of        *)
(* ReadWriteLock); every callback returns in the end, however often it     *)
(* calls before.  That a writer is served is not asked.                    *)
ReturnsAt(t, depth) == Len(stack[t]) = depth /\ CallbackReturns(t)

Fairness ==
  \A t \in Threads :
    /\ SF_vars(Enter(t) \/ Visit(t) \/ Leave(t) \/ Add(t) \/ RemoveAll(t))
    /\ \A depth \in 1 .. MaxDepth : SF_vars(ReturnsAt(t, depth))

FairSpec == Spec /\ Fairness

-----------------------------------------------------------------------------
(* Properties.                                                             *)

(* While a callback runs its module stays registered: removeAll, which     *)
(* frees the entry, cannot come in between.                                *)
CalleeRegistered ==
  \A t \in Threads : \A i \in DOMAIN stack[t] :
    stack[t][i].running =>
      LET c == stack[t][i] IN ListOf(c.method)[c.pos] = c.called[Len(c.called)]

(* A broadcast calls every module that is registered for the method when   *)
(* it returns, each once and in the order of registration; a send calls    *)
(* its module if and only if it is registered.                             *)
ReachesAll ==
  [][\A t \in Threads :
       (stack[t] # <<>> /\ stack'[t] = Tail(stack[t])) =>
         LET c == Top(t)
         IN  IF c.kind = "broadcast"
             THEN c.called = ListOf(c.method)
             ELSE c.called = IF c.module \in Members(ListOf(c.method))
                             THEN <<c.module>> ELSE <<>>]_vars

(* The registry has no method without modules and no module twice: send    *)
(* would find the first entry and removeAll would leave the second.        *)
RegistryClean ==
  \A m \in DOMAIN functions : functions[m] # <<>> /\ Distinct(functions[m])

(* A thread holds the read lock once for every call it is in, and nobody   *)
(* changes the registry meanwhile.                                         *)
LockedWhileCalling ==
  \A t \in Threads : reads[t] = Len(stack[t]) /\ (stack[t] # <<>> => writer = {})

(* A writer that waits for the read lock: nobody reads or writes any more. *)
LogsWhileWriting == \E t \in writer : wants[t] # NoCall

(* A broadcast or send returns, whatever its callbacks call in turn: a call*)
(* within a call gets its read lock although a writer waits for the outer  *)
(* one.  Only where the logger is called under the write lock, no call     *)
(* returns.                                                                *)
CallReturns ==
  \A t \in Threads :
    wants[t] # NoCall ~> \/ stack[t] = <<>> /\ wants[t] = NoCall
                        \/ LogsWhileWriting

(* Types, a clean registry, the lock held as often as a thread is in a     *)
(* call, and modules that stay while they are called.                      *)
RegistryInv == TypeOK /\ RegistryClean /\ LockedWhileCalling /\ CalleeRegistered
=============================================================================
