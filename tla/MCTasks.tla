------------------------------ MODULE MCTasks -------------------------------
(* Small instances of the UDP dispatcher, the workers of a TCP connection, *)
(* the child processes and the file observer.  They share no state: a      *)
(* behaviour shows one of them, and the others stay as they begin.         *)
EXTENDS AsyncUdp, StreamWorker, Exec, FileWatch, TLC

CONSTANTS d1, d2, b

(* Two pool threads and a broadcaster with contexts that stay, or one pool *)
(* thread whose callback closes contexts and broadcasts.                   *)
ManyOrOne ==
  {[threads |-> {d1, d2, b}, replies |-> {"keep"}],
   [threads |-> {d1}, replies |-> {"keep", "close", "broadcast"}]}

(* A worker whose peer is gone is removed, and whoever waits for a child   *)
(* goes on in the end.                                                     *)
TasksEnd == GoneIsRemoved /\ ChildrenReturn

VARIABLE part
tasksVars == <<part, vars, workerVars, execVars, watchVars>>

TasksInit ==
  /\ part \in {"udp", "worker", "exec", "watch"}
  /\ Init /\ WorkerInit /\ ExecInit /\ WatchInit
  /\ part # "udp" => replies = {"keep"}
  /\ part # "worker" => ~strict
  /\ part # "exec" => stops = "never" /\ code = 0 /\ Alone

TasksNext ==
  /\ UNCHANGED part
  /\ \/ part = "udp" /\ Next /\ UNCHANGED <<workerVars, execVars, watchVars>>
     \/ part = "worker" /\ WorkerNext /\ UNCHANGED <<vars, execVars, watchVars>>
     \/ part = "exec" /\ ExecNext /\ UNCHANGED <<vars, workerVars, watchVars>>
     \/ part = "watch" /\ WatchNext /\ UNCHANGED <<vars, workerVars, execVars>>

(* A part that is left out has nothing that its fairness could ask for.    *)
TasksSpec ==
  /\ TasksInit /\ [][TasksNext]_tasksVars
  /\ Fairness /\ WorkerFairness /\ ExecFairness /\ WatchFairness
=============================================================================
