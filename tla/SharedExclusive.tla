--------------------------- MODULE SharedExclusive ---------------------------
(***************************************************************************)
(* What EcReadWriteLock of src/entc/system/ecmutex_unix.c promises to its  *)
(* users: any number of readers, each of which may read again while it     *)
(* reads, or one writer.  Every operation is one step.                     *)
(***************************************************************************)
EXTENDS Naturals

CONSTANTS Threads, MaxNest

VARIABLES reads, writer    \* depth of the reading of each thread; the writing threads

Init == reads = [t \in Threads |-> 0] /\ writer = {}

NobodyReads == \A t \in Threads : reads[t] = 0

BeginRead(t) ==
  /\ writer = {} /\ reads[t] < MaxNest
  /\ reads' = [reads EXCEPT ![t] = reads[t] + 1]
  /\ UNCHANGED writer

EndRead(t) ==
  /\ reads[t] > 0
  /\ reads' = [reads EXCEPT ![t] = reads[t] - 1]
  /\ UNCHANGED writer

BeginWrite(t) ==
  /\ writer = {} /\ NobodyReads
  /\ writer' = {t}
  /\ UNCHANGED reads

EndWrite(t) ==
  /\ writer = {t}
  /\ writer' = {}
  /\ UNCHANGED reads

(* The last reader goes on as the writer, with no gap between.             *)
Upgrade(t) ==
  /\ writer = {} /\ reads[t] = 1
  /\ \A u \in Threads \ {t} : reads[u] = 0
  /\ reads' = [reads EXCEPT ![t] = 0]
  /\ writer' = {t}

Next ==
  \E t \in Threads :
    BeginRead(t) \/ EndRead(t) \/ BeginWrite(t) \/ EndWrite(t) \/ Upgrade(t)

Spec == Init /\ [][Next]_<<reads, writer>>
=============================================================================
