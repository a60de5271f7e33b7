--------------------------------- MODULE Ipc ---------------------------------
(***************************************************************************)
(* Memory and semaphores between processes: src/entc/system/ecipc.c on the *)
(* System V calls.  Processes attach to the same key, enter a section with *)
(* ecsem_waitAndSet (0, 1), leave it with ecsem_set (-1), wait for the     *)
(* others with ecsem_wait (0), and may end at any moment: the kernel then  *)
(* takes back what they did with SEM_UNDO.                                 *)
(***************************************************************************)
EXTENDS Integers, FiniteSets

CONSTANTS IProcesses, IMaxSteps

ASSUME IpcConstants == IsFiniteSet(IProcesses) /\ IMaxSteps \in Nat

VARIABLES
  istate,    \* of each process: new, missing, out, in, dead
  icreated,  \* what ecshm_wasCreated says to it
  iset,      \* a semaphore and memory with the key exist
  ivalue,    \* semval
  iundo,     \* semadj of each process: added when it ends
  ibusy,     \* what ecsem_tryDec said last, and to whom
  idisturbed, \* ecsem_clear, or a signal that ended a wait, let a process in
  isteps

ipcVars == <<istate, icreated, iset, ivalue, iundo, ibusy, idisturbed, isteps>>

IpcInit ==
  /\ istate = [p \in IProcesses |-> "new"] /\ icreated = [p \in IProcesses |-> FALSE]
  /\ iset = FALSE /\ ivalue = 0 /\ iundo = [p \in IProcesses |-> 0]
  /\ ibusy = FALSE /\ idisturbed = FALSE /\ isteps = 0

Moves(p, from, to) == istate[p] = from /\ istate' = [istate EXCEPT ![p] = to]

-----------------------------------------------------------------------------
(* ecshm_create and ecsem_create: the one that is there (shmget, semget),  *)
(* or, in a second call, IPC_CREAT.  Who came to the second call was told  *)
(* "created", also when another process was faster.                        *)
Attach(p) ==
  /\ iset /\ Moves(p, "new", "out")
  /\ UNCHANGED <<icreated, iset, ivalue, iundo, ibusy, idisturbed>>
FindsNone(p) ==
  /\ ~iset /\ Moves(p, "new", "missing")
  /\ UNCHANGED <<icreated, iset, ivalue, iundo, ibusy, idisturbed>>
CreateIpc(p) ==
  /\ Moves(p, "missing", "out")
  /\ iset' = TRUE /\ icreated' = [icreated EXCEPT ![p] = TRUE]
  /\ UNCHANGED <<ivalue, iundo, ibusy, idisturbed>>

-----------------------------------------------------------------------------
(* semop with SEM_UNDO: waits for zero, or until the value does not get    *)
(* below zero; both operations of a call take place together.              *)
Operate(p, op) ==
  /\ op = 0 => ivalue = 0
  /\ ivalue + op >= 0
  /\ ivalue' = ivalue + op
  /\ iundo' = [iundo EXCEPT ![p] = @ - op]

(* Mutation: the value stays when its process ends.                        *)
WaitAndSetForGood(p) ==
  /\ Moves(p, "out", "in") /\ ivalue = 0
  /\ ivalue' = 1
  /\ UNCHANGED <<icreated, iset, iundo, ibusy, idisturbed>>

(* ecsem_waitAndSet (0, 1)                                                 *)
WaitAndSet(p) ==
  /\ Moves(p, "out", "in") /\ ivalue = 0
  /\ Operate(p, 1)
  /\ UNCHANGED <<icreated, iset, ibusy, idisturbed>>

(* A signal ends the wait of ecsem_waitAndSet: semop fails, which the      *)
(* caller is not told.                                                     *)
WaitInterrupted(p) ==
  /\ Moves(p, "out", "in") /\ ivalue # 0
  /\ idisturbed' = TRUE
  /\ UNCHANGED <<icreated, iset, ivalue, iundo, ibusy>>

(* ecsem_set (-1) of a process that is in.                                 *)
SetBack(p) ==
  /\ Moves(p, "in", "out")
  /\ Operate(p, -1)
  /\ UNCHANGED <<icreated, iset, ibusy, idisturbed>>

(* ecsem_wait (0) changes nothing; ecsem_tryDec does not wait and decreases*)
(* nothing: it says whether the value is not zero.                         *)
TryDec(p) ==
  /\ istate[p] = "out"
  /\ ibusy' = (ivalue # 0)
  /\ UNCHANGED <<istate, icreated, iset, ivalue, iundo, idisturbed>>
WaitZero(p) ==
  /\ istate[p] = "out" /\ Operate(p, 0)
  /\ ibusy' = FALSE
  /\ UNCHANGED <<istate, icreated, iset, idisturbed>>

(* ecsem_clear: SETVAL forgets what there was to undo.                     *)
ClearSem(p) ==
  /\ istate[p] \in {"out", "in"}
  /\ ivalue' = 0 /\ iundo' = [q \in IProcesses |-> 0]
  /\ idisturbed' = (idisturbed \/ \E q \in IProcesses : istate[q] = "in")
  /\ UNCHANGED <<istate, icreated, iset, ibusy>>

(* A process ends: its undo value is added, down to zero at most.          *)
EndProcess(p) ==
  /\ istate[p] # "dead"
  /\ istate' = [istate EXCEPT ![p] = "dead"]
  /\ ivalue' = IF ivalue + iundo[p] < 0 THEN 0 ELSE ivalue + iundo[p]
  /\ iundo' = [iundo EXCEPT ![p] = 0]
  /\ UNCHANGED <<icreated, iset, ibusy, idisturbed>>

IpcNext ==
  /\ isteps < IMaxSteps /\ isteps' = isteps + 1
  /\ \E p \in IProcesses :
       \/ Attach(p) \/ FindsNone(p) \/ CreateIpc(p)
       \/ WaitAndSet(p) \/ WaitInterrupted(p) \/ SetBack(p) \/ TryDec(p) \/ WaitZero(p) \/ ClearSem(p)
       \/ EndProcess(p)

IpcSpec == IpcInit /\ [][IpcNext]_ipcVars

-----------------------------------------------------------------------------
Holders == {p \in IProcesses : istate[p] = "in"}

(* Unless the semaphore was cleared under a process or the wait for it was *)
(* interrupted, one process is in at most and the value says so: when none *)
(* is in, the next one can enter, whatever became of the one before.  Who  *)
(* attached found what another process was told to have created, or was    *)
(* told so itself.                                                         *)
IpcExcludes ==
  /\ ~idisturbed => Cardinality(Holders) <= 1 /\ ivalue = Cardinality(Holders)
  /\ ivalue >= 0
  /\ (\E p \in IProcesses : istate[p] \in {"out", "in"}) => \E p \in IProcesses : icreated[p]
=============================================================================
