-------------------------------- MODULE Exec --------------------------------
(***************************************************************************)
(* ecexec_run of src/entc/system/ecexec_unix.c: a script is run as a child *)
(* process and what it writes to stdout and stderr comes through two       *)
(* pipes.  The caller first waits for the child and then reads.  It lives  *)
(* in a process with threads of src/entc/system/ecthread_unix.c, which     *)
(* call wait(0) each time after their callback: it waits for ANY child.    *)
(***************************************************************************)
EXTENDS Naturals, FiniteSets

CONSTANTS
  Pool,       \* the other threads the process may have
  Capacity,   \* of a pipe
  MaxWrites,  \* bound on what the child writes to each of the pipes
  Codes       \* what the child may exit with

Pipes == {"out", "err"}

ASSUME ExecConstants ==
  /\ IsFiniteSet(Pool)
  /\ Capacity \in Nat \ {0} /\ MaxWrites \in Nat
  /\ Codes \subseteq Nat /\ Codes # {}

VARIABLES
  xpc,       \* where the caller is
  child,     \* none, runs, stopped, zombie (ended, not waited for), reaped
  code,      \* what the child has exited with
  news,      \* what waitpid was not told yet: stopped, continued, nothing
  stops,     \* whether the child may still be stopped, or was: never, may, was
  pipe,      \* what is in each pipe
  wrote,     \* what the child wrote to each pipe
  got,       \* what the caller has read from each pipe
  watched,   \* fdsread
  status,    \* what waitpid said last
  pool       \* gone: no such thread; run: in its callback; wait: in wait(0)

process  == <<child, code, news, stops>>
data     == <<pipe, wrote, got>>
execVars == <<xpc, process, data, watched, status, pool>>

ExecTypeOK ==
  /\ xpc \in {"idle", "wait", "select", "out", "err", "loop", "done"}
  /\ child \in {"none", "runs", "stopped", "zombie", "reaped"}
  /\ code \in Codes /\ stops \in {"never", "may", "was"}
  /\ news \in {"nothing", "stopped", "continued"}
  /\ pipe \in [Pipes -> 0 .. Capacity]
  /\ wrote \in [Pipes -> 0 .. MaxWrites]
  /\ got \in [Pipes -> 0 .. MaxWrites]
  /\ watched \subseteq Pipes
  /\ status \in [state : {"exited"}, code : Codes \cup {0}] \cup [state : {"stopped", "continued"}]
  /\ pool \in [Pool -> {"gone", "run", "wait"}]

Exited(c) == [state |-> "exited", code |-> c]

ExecInit ==
  /\ xpc = "idle" /\ child = "none"
  /\ code \in Codes
  /\ news = "nothing" /\ stops \in {"never", "may"}
  /\ pipe = [p \in Pipes |-> 0] /\ wrote = pipe /\ got = pipe
  /\ watched = Pipes
  /\ status = Exited(0)
  /\ \E threads \in SUBSET Pool : pool = [t \in Pool |-> IF t \in threads THEN "run" ELSE "gone"]

-----------------------------------------------------------------------------
Ended == child \in {"zombie", "reaped"}

(* pipe and fork; the parent closes its writing ends.                      *)
Fork ==
  /\ xpc = "idle"
  /\ child' = "runs"
  /\ xpc' = "wait"
  /\ UNCHANGED <<code, news, stops, data, watched, status, pool>>

(* Mutation: waitpid does not wait.                                        *)
WaitNot ==
  /\ xpc = "wait"
  /\ xpc' = "select"
  /\ UNCHANGED <<process, data, watched, status, pool>>

(* waitpid (WUNTRACED | WCONTINUED).  If another thread has waited for the *)
(* child already it fails and leaves the status as it was: exited with 0.  *)
Wait ==
  /\ xpc = "wait"
  /\ \/ child = "zombie" /\ child' = "reaped" /\ status' = Exited(code) /\ UNCHANGED news
     \/ child = "reaped" /\ UNCHANGED <<child, status, news>>
     \/ /\ ~Ended /\ news # "nothing"
        /\ status' = [state |-> news]
        /\ news' = "nothing"
        /\ UNCHANGED child
  /\ xpc' = "select"
  /\ UNCHANGED <<code, stops, data, watched, pool>>

(* Mutation: the parent did not close its writing ends.                    *)
EofNever(p) == FALSE

Eof(p) == Ended /\ pipe[p] = 0

ExecReadable == {p \in Pipes : pipe[p] > 0 \/ Eof(p)}

(* Mutation: only one of the pipes is looked at.                           *)
SelectOne ==
  /\ xpc = "select"
  /\ watched \cap ExecReadable # {}
  /\ \E p \in watched \cap ExecReadable : watched' = {p}
  /\ xpc' = "out"
  /\ UNCHANGED <<process, data, status, pool>>

(* select() without a time-out leaves the pipes that can be read in        *)
(* fdsread, which is not filled again for the next round.                  *)
Select ==
  /\ xpc = "select"
  /\ watched \cap ExecReadable # {}
  /\ watched' = watched \cap ExecReadable
  /\ xpc' = "out"
  /\ UNCHANGED <<process, data, status, pool>>

(* fread until the end of the file, first of stdout, then of stderr.       *)
NextPlace(p) == IF p = "out" THEN "err" ELSE "loop"

(* Mutation: what was read stays in the pipe.                              *)
ReadAgain(p) ==
  /\ xpc = p /\ p \in watched
  /\ pipe[p] > 0
  /\ got' = [got EXCEPT ![p] = @ + pipe[p]]
  /\ UNCHANGED <<xpc, process, pipe, wrote, watched, status, pool>>

ExecRead(p) ==
  /\ xpc = p /\ p \in watched
  /\ pipe[p] > 0
  /\ got' = [got EXCEPT ![p] = @ + pipe[p]]
  /\ pipe' = [pipe EXCEPT ![p] = 0]
  /\ UNCHANGED <<xpc, process, wrote, watched, status, pool>>

EndOfPipe(p) ==
  /\ xpc = p
  /\ p \in watched => Eof(p)
  /\ xpc' = NextPlace(p)
  /\ UNCHANGED <<process, data, watched, status, pool>>

(* Another round unless the status says that the child is gone.            *)
Loop ==
  /\ xpc = "loop"
  /\ xpc' = IF status.state = "exited" THEN "done" ELSE "wait"
  /\ UNCHANGED <<process, data, watched, status, pool>>

-----------------------------------------------------------------------------
(* The child.  It blocks while a pipe is full.                             *)
outside == <<xpc, got, watched, status, pool>>

Write(p) ==
  /\ child = "runs"
  /\ wrote[p] < MaxWrites /\ pipe[p] < Capacity
  /\ wrote' = [wrote EXCEPT ![p] = @ + 1]
  /\ pipe' = [pipe EXCEPT ![p] = @ + 1]
  /\ UNCHANGED <<outside, process>>

(* It has written all it wants to write.                                   *)
Exit ==
  /\ child = "runs"
  /\ \A p \in Pipes : wrote[p] = MaxWrites
  /\ child' = "zombie"
  /\ UNCHANGED <<outside, code, news, stops, pipe, wrote>>

(* execv failed, or it has less to write.                                  *)
ExitEarly ==
  /\ child = "runs"
  /\ child' = "zombie"
  /\ UNCHANGED <<outside, code, news, stops, pipe, wrote>>

Stop ==
  /\ stops = "may" /\ child = "runs"
  /\ child' = "stopped" /\ news' = "stopped" /\ stops' = "was"
  /\ UNCHANGED <<outside, code, pipe, wrote>>

Continue ==
  /\ child = "stopped"
  /\ child' = "runs" /\ news' = "continued"
  /\ UNCHANGED <<outside, code, stops, pipe, wrote>>

(* ecthread_run: the callback returned.                                    *)
Callback(t) ==
  /\ pool[t] = "run"
  /\ pool' = [pool EXCEPT ![t] = "wait"]
  /\ UNCHANGED <<xpc, process, data, watched, status>>

(* Mutation: without a child to wait for the thread waits for one.         *)
WaitAnyAlways(t) ==
  /\ pool[t] = "wait"
  /\ child = "zombie"
  /\ child' = "reaped"
  /\ pool' = [pool EXCEPT ![t] = "run"]
  /\ UNCHANGED <<xpc, code, news, stops, data, watched, status>>

(* wait(0) takes a child that has ended, blocks while there is a child     *)
(* that has not, and fails when there is none.                             *)
WaitAny(t) ==
  /\ pool[t] = "wait"
  /\ child \notin {"runs", "stopped"}
  /\ child' = IF child = "zombie" THEN "reaped" ELSE child
  /\ pool' = [pool EXCEPT ![t] = "run"]
  /\ UNCHANGED <<xpc, code, news, stops, data, watched, status>>

-----------------------------------------------------------------------------
Caller == Wait \/ Select \/ Loop \/ \E p \in Pipes : ExecRead(p) \/ EndOfPipe(p)
Child == Exit \/ Continue \/ \E p \in Pipes : Write(p)

ExecNext ==
  \/ Fork \/ Caller
  \/ Child \/ ExitEarly \/ Stop
  \/ \E t \in Pool : Callback(t) \/ WaitAny(t)

(* The caller and the threads go on.  The child writes on if it can, ends  *)
(* when it has written everything, and is continued if it was stopped.     *)
ExecFairness ==
  /\ WF_execVars(Caller) /\ WF_execVars(Child)
  /\ \A t \in Pool : WF_execVars(Callback(t)) /\ WF_execVars(WaitAny(t))

-----------------------------------------------------------------------------
(* Properties.                                                             *)

Undisturbed == stops # "was"
Alone == \A t \in Pool : pool[t] = "gone"

(* What the child wrote is what ecexec_stdout and ecexec_stderr tell,      *)
(* whoever of the threads waits for it: at least of a child that was never *)
(* stopped ...                                                             *)
UndisturbedComplete == (xpc = "done" /\ Undisturbed) => got = wrote

(* ... and of any.                                                         *)
OutputComplete == xpc = "done" => got = wrote

(* ecexec_run answers with the status of its child, if nobody else waits   *)
(* for children.                                                           *)
StatusReported == (xpc = "done" /\ Alone) => status = Exited(code)

(* ecexec_run returns, if what the child writes fits the pipes, but not    *)
(* always when it was stopped and another thread waits for it.             *)
RunReturns == (xpc = "wait" /\ (Undisturbed \/ Alone)) ~> (xpc = "done" \/ ~(Undisturbed \/ Alone))

(* A thread is not held up for ever by a child of another one.             *)
PoolResumes == \A t \in Pool : (pool[t] = "wait") ~> (pool[t] = "run")

(* Types, all output of a child that was never stopped, and its status.    *)
RunInv == ExecTypeOK /\ UndisturbedComplete /\ StatusReported

(* Neither the caller nor the other threads wait for ever for a child.     *)
ChildrenReturn == RunReturns /\ PoolResumes
=============================================================================
