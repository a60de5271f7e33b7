---------------------------- MODULE TasksProofs ----------------------------
(***************************************************************************)
(* Proofs about the tasks that the runs check on small instances, for any  *)
(* constants: the child processes of Exec, the workers of a TCP connection *)
(* of StreamWorker, the UDP dispatcher of AsyncUdp and the file observer   *)
(* of FileWatch.                                                           *)
(***************************************************************************)
EXTENDS AsyncUdp, StreamWorker, Exec, FileWatch, FiniteSetTheorems,
        SequenceTheorems, WellFoundedInduction, TLAPS

-----------------------------------------------------------------------------
(* Exec: child processes.                                                  *)

AfterWait == xpc \in {"select", "out", "err", "loop", "done"}

(* What was written is in the pipe or was read.                            *)
Conserved == \A p \in Pipes : got[p] + pipe[p] = wrote[p]

(* A child that was not stopped has ended when waitpid answered: both      *)
(* pipes can be read, so that both are watched in every round, and what    *)
(* was read to its end stays empty.                                        *)
ReadToTheEnd ==
  Undisturbed =>
    /\ child # "stopped" /\ news = "nothing" /\ watched = Pipes
    /\ AfterWait => Ended
    /\ xpc \in {"err", "loop", "done"} => pipe["out"] = 0
    /\ xpc \in {"loop", "done"} => pipe["err"] = 0

(* Alone, the caller is the one who has waited for its child, and then the *)
(* status is the child's.                                                  *)
OwnStatus ==
  /\ xpc = "done" => status.state = "exited"
  /\ Alone =>
       /\ child = "reaped" => status = Exited(code)
       /\ AfterWait /\ status.state = "exited" => child = "reaped"

RunIInv == ExecTypeOK /\ Conserved /\ ReadToTheEnd /\ OwnStatus

(* ExecTypeOK in parts.                                                    *)
PlacesTyped ==
  /\ xpc \in {"idle", "wait", "select", "out", "err", "loop", "done"}
  /\ child \in {"none", "runs", "stopped", "zombie", "reaped"}
  /\ stops \in {"never", "may", "was"}
  /\ news \in {"nothing", "stopped", "continued"}
StatusTyped ==
  /\ code \in Codes
  /\ status \in [state : {"exited"}, code : Codes \cup {0}] \cup [state : {"stopped", "continued"}]
PipesTyped ==
  /\ pipe \in [Pipes -> 0 .. Capacity]
  /\ wrote \in [Pipes -> 0 .. MaxWrites]
  /\ got \in [Pipes -> 0 .. MaxWrites]
PoolTyped == pool \in [Pool -> {"gone", "run", "wait"}]

LEMMA ExecTyped == ExecTypeOK <=> PlacesTyped /\ StatusTyped /\ PipesTyped /\ PoolTyped /\ watched \subseteq Pipes
BY DEF ExecTypeOK, PlacesTyped, StatusTyped, PipesTyped, PoolTyped

LEMMA ExecTypedNext ==
  ASSUME PlacesTyped', StatusTyped', PipesTyped', PoolTyped', watched' \subseteq Pipes
  PROVE  ExecTypeOK'
BY DEF ExecTypeOK, PlacesTyped, StatusTyped, PipesTyped, PoolTyped

LEMMA ExecStarts == ExecInit => RunIInv
<1> SUFFICES ASSUME ExecInit PROVE RunIInv
  OBVIOUS
<1>1. PlacesTyped /\ StatusTyped
  BY ExecConstants DEF ExecInit, PlacesTyped, StatusTyped, Exited
<1>2. PipesTyped /\ watched \subseteq Pipes
  BY ExecConstants DEF ExecInit, PipesTyped
<1>3. PoolTyped
  BY DEF ExecInit, PoolTyped
<1>4. Conserved
  BY DEF ExecInit, Conserved
<1>5. ReadToTheEnd /\ OwnStatus
  BY DEF ExecInit, ReadToTheEnd, OwnStatus, Undisturbed, AfterWait
<1> QED BY <1>1, <1>2, <1>3, <1>4, <1>5, ExecTyped DEF RunIInv

LEMMA ForkKeeps == ASSUME RunIInv, Fork PROVE RunIInv'
<1> USE DEF RunIInv, Fork, data
<1>1. ExecTypeOK'
  BY DEF ExecTypeOK
<1>2. Conserved' /\ ReadToTheEnd' /\ OwnStatus'
  BY DEF Conserved, ReadToTheEnd, OwnStatus, Undisturbed, AfterWait, Ended, Alone
<1> QED BY <1>1, <1>2

LEMMA WaitKeeps == ASSUME RunIInv, Wait PROVE RunIInv'
<1> USE DEF RunIInv, Wait, data
<1>1. PlacesTyped' /\ PipesTyped' /\ PoolTyped' /\ watched' \subseteq Pipes /\ Conserved'
  BY ExecTyped DEF PlacesTyped, PipesTyped, PoolTyped, Conserved
<1>2. StatusTyped'
  BY ExecTyped DEF PlacesTyped, StatusTyped, Exited
<1>3. ReadToTheEnd'
  BY DEF ReadToTheEnd, Undisturbed, AfterWait, Ended
<1>4. OwnStatus'
  BY ExecTyped DEF OwnStatus, AfterWait, Alone, Exited, Ended, PlacesTyped
<1> QED BY <1>1, <1>2, <1>3, <1>4, ExecTypedNext

LEMMA ReadKeeps ==
  ASSUME RunIInv, Select \/ Loop \/ \E p \in Pipes : ExecRead(p) \/ EndOfPipe(p)
  PROVE  RunIInv'
<1> USE DEF RunIInv, data, process
<1>1. CASE Select
  <2>1. ExecTypeOK' /\ Conserved'
    BY <1>1 DEF Select, ExecTypeOK, Conserved
  <2>2. ReadToTheEnd'
    BY <1>1, ExecTyped, ExecConstants
    DEF Select, ReadToTheEnd, Undisturbed, AfterWait, Ended, Eof, ExecReadable, PipesTyped
  <2>3. OwnStatus'
    BY <1>1 DEF Select, OwnStatus, AfterWait, Alone, Exited
  <2> QED BY <2>1, <2>2, <2>3
<1>2. CASE Loop
  <2>1. ExecTypeOK' /\ Conserved'
    BY <1>2 DEF Loop, ExecTypeOK, Conserved
  <2>2. ReadToTheEnd' /\ OwnStatus'
    BY <1>2 DEF Loop, ReadToTheEnd, OwnStatus, Undisturbed, AfterWait, Ended, Alone, Exited
  <2> QED BY <2>1, <2>2
<1>3. ASSUME NEW p \in Pipes, ExecRead(p) PROVE RunIInv'
  <2>1. PlacesTyped' /\ StatusTyped' /\ PoolTyped' /\ watched' \subseteq Pipes
    BY <1>3, ExecTyped DEF ExecRead, PlacesTyped, StatusTyped, PoolTyped
  <2>2. PipesTyped' /\ Conserved'
    <3>1. \A q \in Pipes : got[q] \in Nat /\ pipe[q] \in Nat /\ wrote[q] \in 0 .. MaxWrites
      BY ExecTyped, ExecConstants DEF PipesTyped
    <3>2. /\ got'[p] = got[p] + pipe[p] /\ pipe'[p] = 0 /\ wrote' = wrote
          /\ \A q \in Pipes \ {p} : got'[q] = got[q] /\ pipe'[q] = pipe[q]
      BY <1>3, ExecTyped DEF ExecRead, PipesTyped
    <3>3. Conserved'
      BY <3>1, <3>2 DEF Conserved
    <3>4. got'[p] \in 0 .. MaxWrites /\ 0 \in 0 .. Capacity
      BY <3>1, <3>2, ExecConstants DEF Conserved
    <3>5. PipesTyped'
      BY <1>3, <3>2, <3>4, ExecTyped DEF ExecRead, PipesTyped
    <3> QED BY <3>3, <3>5
  <2>3. ReadToTheEnd' /\ OwnStatus'
    BY <1>3, ExecTyped
    DEF ExecRead, ReadToTheEnd, OwnStatus, Undisturbed, AfterWait, Ended, Alone, Exited, PipesTyped, Pipes
  <2> QED BY <2>1, <2>2, <2>3, ExecTypedNext
<1>4. ASSUME NEW p \in Pipes, EndOfPipe(p) PROVE RunIInv'
  <2>1. ExecTypeOK' /\ Conserved'
    BY <1>4 DEF EndOfPipe, NextPlace, ExecTypeOK, Conserved, Pipes
  <2>2. ReadToTheEnd'
    BY <1>4 DEF EndOfPipe, NextPlace, ReadToTheEnd, Undisturbed, AfterWait, Ended, Eof, Pipes
  <2>3. OwnStatus'
    BY <1>4 DEF EndOfPipe, NextPlace, OwnStatus, AfterWait, Alone, Exited, Pipes
  <2> QED BY <2>1, <2>2, <2>3
<1> QED BY <1>1, <1>2, <1>3, <1>4

LEMMA ChildKeeps ==
  ASSUME RunIInv, Exit \/ ExitEarly \/ Stop \/ Continue \/ \E p \in Pipes : Write(p)
  PROVE  RunIInv'
<1> USE DEF RunIInv, outside, process
<1>1. CASE Exit \/ ExitEarly
  <2>1. ExecTypeOK' /\ Conserved'
    BY <1>1 DEF Exit, ExitEarly, ExecTypeOK, Conserved
  <2>2. ReadToTheEnd' /\ OwnStatus'
    BY <1>1 DEF Exit, ExitEarly, ReadToTheEnd, OwnStatus, Undisturbed, AfterWait, Ended, Alone, Exited
  <2> QED BY <2>1, <2>2
<1>2. CASE Stop \/ Continue
  <2>1. ExecTypeOK' /\ Conserved'
    BY <1>2 DEF Stop, Continue, ExecTypeOK, Conserved
  <2>2. ReadToTheEnd' /\ OwnStatus'
    BY <1>2 DEF Stop, Continue, ReadToTheEnd, OwnStatus, Undisturbed, AfterWait, Ended, Alone, Exited
  <2> QED BY <2>1, <2>2
<1>3. ASSUME NEW p \in Pipes, Write(p) PROVE RunIInv'
  <2>1. PlacesTyped' /\ StatusTyped' /\ PoolTyped' /\ watched' \subseteq Pipes
    BY <1>3, ExecTyped DEF Write, PlacesTyped, StatusTyped, PoolTyped
  <2>2. \A q \in Pipes : got[q] \in Nat /\ pipe[q] \in Nat /\ wrote[q] \in Nat
    BY ExecTyped, ExecConstants DEF PipesTyped
  <2>3. /\ wrote'[p] = wrote[p] + 1 /\ pipe'[p] = pipe[p] + 1 /\ got' = got
        /\ \A q \in Pipes \ {p} : wrote'[q] = wrote[q] /\ pipe'[q] = pipe[q]
    BY <1>3, ExecTyped DEF Write, PipesTyped
  <2>4. Conserved'
    BY <2>2, <2>3 DEF Conserved
  <2>5. wrote[p] + 1 \in 0 .. MaxWrites /\ pipe[p] + 1 \in 0 .. Capacity
    BY <1>3, <2>2, ExecConstants DEF Write
  <2>6. PipesTyped'
    BY <1>3, <2>5, ExecTyped DEF Write, PipesTyped
  <2>7. ReadToTheEnd' /\ OwnStatus'
    BY <1>3, <2>3 DEF Write, ReadToTheEnd, OwnStatus, Undisturbed, AfterWait, Ended, Alone, Exited
  <2> QED BY <2>1, <2>4, <2>6, <2>7, ExecTypedNext
<1> QED BY <1>1, <1>2, <1>3

LEMMA PoolKeeps ==
  ASSUME RunIInv, NEW t \in Pool, Callback(t) \/ WaitAny(t) PROVE RunIInv'
<1> USE DEF RunIInv, process, data
<1>1. ExecTypeOK'
  <2>1. PlacesTyped'
    BY ExecTyped DEF Callback, WaitAny, PlacesTyped
  <2>2. StatusTyped' /\ PipesTyped' /\ PoolTyped' /\ watched' \subseteq Pipes
    BY ExecTyped DEF Callback, WaitAny, StatusTyped, PipesTyped, PoolTyped
  <2> QED BY <2>1, <2>2, ExecTypedNext
<1>2. Conserved'
  BY DEF Callback, WaitAny, Conserved
<1>3. ReadToTheEnd'
  BY DEF Callback, WaitAny, ReadToTheEnd, Undisturbed, AfterWait, Ended
<1>4. ~Alone /\ ~Alone' /\ UNCHANGED <<xpc, status>>
  BY ExecTyped DEF Callback, WaitAny, Alone, PoolTyped
<1>5. OwnStatus'
  BY <1>4 DEF OwnStatus
<1> QED BY <1>1, <1>2, <1>3, <1>5

LEMMA ExecKeeps == ASSUME RunIInv, [ExecNext]_execVars PROVE RunIInv'
<1>1. CASE UNCHANGED execVars
  <2>1. ExecTypeOK' /\ Conserved'
    BY <1>1 DEF RunIInv, execVars, process, data, ExecTypeOK, Conserved
  <2>2. ReadToTheEnd' /\ OwnStatus'
    BY <1>1 DEF RunIInv, execVars, process, data, ReadToTheEnd, OwnStatus, Undisturbed, AfterWait, Ended, Alone, Exited
  <2> QED BY <2>1, <2>2 DEF RunIInv
<1>2. CASE ExecNext
  BY <1>2, ForkKeeps, WaitKeeps, ReadKeeps, ChildKeeps, PoolKeeps DEF ExecNext, Caller, Child
<1> QED BY <1>1, <1>2

(* ecexec_run tells all a child wrote that was never stopped, whoever      *)
(* waits for it, and its status if nobody else waits for children.         *)
THEOREM ChildReadWhole == ExecInit /\ [][ExecNext]_execVars => []RunInv
<1>1. RunIInv => RunInv
  <2> SUFFICES ASSUME RunIInv PROVE RunInv
    OBVIOUS
  <2>1. UndisturbedComplete
    <3> SUFFICES ASSUME xpc = "done", Undisturbed PROVE got = wrote
      BY DEF UndisturbedComplete
    <3>1. \A p \in Pipes : got[p] = wrote[p]
      BY ExecTyped, ExecConstants DEF RunIInv, ReadToTheEnd, Conserved, Pipes, PipesTyped
    <3> QED BY <3>1, ExecTyped DEF RunIInv, PipesTyped
  <2>2. StatusReported
    BY DEF RunIInv, OwnStatus, StatusReported, AfterWait
  <2> QED BY <2>1, <2>2 DEF RunIInv, RunInv
<1> QED BY <1>1, ExecStarts, ExecKeeps, PTL
-----------------------------------------------------------------------------
(* StreamWorker: the workers of a TCP connection.                          *)

(* A set of naturals that is not empty has a smallest element.             *)
LEMMA Smallest ==
  ASSUME NEW S \in SUBSET Nat, S # {}
  PROVE  \E x \in S : \A y \in S : x <= y
<1> DEFINE R == OpToRel(<, Nat)
<1>1. IsWellFoundedOn(R, Nat)
  BY NatLessThanWellFounded, Zenon
<1>2. PICK x \in S : \A y \in S : ~(<<y, x>> \in R)
  <2> HIDE DEF R
  <2> QED
    BY <1>1, WFMin
<1>3. ASSUME NEW y \in S, y < x PROVE FALSE
  BY <1>2, <1>3 DEF OpToRel
<1>4. ASSUME NEW y \in S PROVE x <= y
  <2>1. x \in Nat /\ y \in Nat
    BY <1>2
  <2>2. ~(y < x)
    BY <1>3
  <2>. QED
    BY <2>1, <2>2
<1>. QED
  BY <1>2, <1>4

(* The recursion of FlattenSeq.                                            *)
Flattens(f, s) ==
  f = [i \in 1 .. Len(s) |-> IF i = 1 THEN s[i] ELSE f[i - 1] \o s[i]]
Flattened(s) == CHOOSE f : Flattens(f, s)

LEMMA FlattenIsLast ==
  ASSUME NEW s, Len(s) # 0
  PROVE  FlattenSeq(s) = Flattened(s)[Len(s)]
BY DEF FlattenSeq, Flattened, Flattens

(* It has one solution ...                                                 *)
LEMMA FlattensOnce ==
  ASSUME NEW s, Len(s) \in Nat, NEW f, NEW g, Flattens(f, s), Flattens(g, s)
  PROVE  f = g
<1> DEFINE D == {i \in 1 .. Len(s) : f[i] # g[i]}
<1>1. CASE D = {}
  <2>1. f = [i \in 1 .. Len(s) |-> f[i]] /\ g = [i \in 1 .. Len(s) |-> g[i]]
    BY DEF Flattens
  <2>2. \A i \in 1 .. Len(s) : f[i] = g[i]
    BY <1>1
  <2>. QED
    BY <2>1, <2>2
<1>2. CASE D # {}
  <2>1. D \in SUBSET Nat
    OBVIOUS
  <2>2. PICK x \in D : \A y \in D : x <= y
    <3> HIDE DEF D
    <3> QED
      BY <1>2, <2>1, Smallest
  <2>3. x \in 1 .. Len(s) /\ f[x] # g[x]
    BY <2>2
  <2>4. /\ f[x] = IF x = 1 THEN s[x] ELSE f[x - 1] \o s[x]
        /\ g[x] = IF x = 1 THEN s[x] ELSE g[x - 1] \o s[x]
    BY <2>3 DEF Flattens
  <2>5. x - 1 \in 1 .. Len(s) /\ f[x - 1] # g[x - 1]
    BY <2>3, <2>4
  <2>. QED
    BY <2>2, <2>5
<1>. QED
  BY <1>1, <1>2

(* ... for each sequence ...                                               *)
LEMMA FlattensSome == \A s : Len(s) \in Nat => \E f : Flattens(f, s)
<1> SUFFICES ASSUME NEW s, Len(s) \in Nat PROVE \E f : Flattens(f, s)
  OBVIOUS
<1> DEFINE Upto(f, m) == f = [i \in 1 .. m |-> IF i = 1 THEN s[i] ELSE f[i - 1] \o s[i]]
           D == {m \in Nat : ~ \E f : Upto(f, m)}
<1>1. \E f : Upto(f, 0)
  <2> DEFINE f == [i \in 1 .. 0 |-> s[i]]
  <2>1. Upto(f, 0)
    OBVIOUS
  <2>. QED
    BY <2>1
<1>2. ASSUME NEW m \in Nat, NEW f, Upto(f, m) PROVE \E g : Upto(g, m + 1)
  <2> DEFINE g == [i \in 1 .. m + 1 |-> IF i <= m THEN f[i]
                                        ELSE IF i = 1 THEN s[i] ELSE f[i - 1] \o s[i]]
  <2>1. ASSUME NEW i \in 1 .. m + 1 PROVE g[i] = IF i = 1 THEN s[i] ELSE g[i - 1] \o s[i]
    <3>1. CASE i <= m
      <4>1. i \in 1 .. m /\ g[i] = f[i] /\ (i # 1 => g[i - 1] = f[i - 1])
        BY <3>1
      <4>2. f[i] = IF i = 1 THEN s[i] ELSE f[i - 1] \o s[i]
        BY <1>2, <4>1
      <4>. QED
        BY <4>1, <4>2
    <3>2. CASE ~(i <= m)
      BY <3>2
    <3>. QED
      BY <3>1, <3>2
  <2>2. g = [i \in 1 .. m + 1 |-> g[i]]
    OBVIOUS
  <2>3. Upto(g, m + 1)
    <3> HIDE DEF g
    <3> QED
      BY <2>1, <2>2
  <2>. QED
    BY <2>3
<1>3. CASE D = {}
  BY <1>3 DEF Flattens
<1>4. CASE D # {}
  <2>1. PICK x \in D : \A y \in D : x <= y
    <3>1. D \in SUBSET Nat
      OBVIOUS
    <3> HIDE DEF D
    <3> QED
      BY <1>4, <3>1, Smallest
  <2>2. x \in Nat /\ ~ \E f : Upto(f, x)
    BY <2>1
  <2>3. x # 0
    BY <1>1, <2>2
  <2>4. x - 1 \in Nat /\ ~(x <= x - 1)
    BY <2>2, <2>3
  <2>5. PICK f : Upto(f, x - 1)
    <3>1. x - 1 \notin D
      <4> HIDE DEF D
      <4> QED
        BY <2>1, <2>4
    <3>. QED
      BY <2>4, <3>1
  <2>6. \E g : Upto(g, (x - 1) + 1)
    <3> HIDE DEF Upto
    <3> QED
      BY <1>2, <2>4, <2>5
  <2>7. (x - 1) + 1 = x
    BY <2>2
  <2>. QED
    BY <2>2, <2>6, <2>7
<1>. QED
  BY <1>3, <1>4

LEMMA FlattenedFlattens ==
  ASSUME NEW s, Len(s) \in Nat
  PROVE  Flattens(Flattened(s), s)
BY FlattensSome DEF Flattened

(* ... so that flattening a sequence with one more at its end gives what   *)
(* it gave before, and what was added.                                     *)
LEMMA FlattenAppend ==
  ASSUME NEW S, NEW s \in Seq(S), NEW x \in S, Len(s) # 0
  PROVE  FlattenSeq(Append(s, x)) = FlattenSeq(s) \o x
<1> DEFINE t == Append(s, x)
           n == Len(s)
           f == Flattened(t)
           g == [i \in 1 .. n |-> f[i]]
<1>1. n \in Nat /\ n # 0 /\ Len(t) = n + 1 /\ t[n + 1] = x /\ \A i \in 1 .. n : t[i] = s[i]
  OBVIOUS
<1>2. Flattens(f, t)
  <2>1. Len(t) \in Nat
    BY <1>1
  <2> HIDE DEF t
  <2> QED
    BY <2>1, FlattenedFlattens
<1> HIDE DEF t, f
<1>3. \A i \in 1 .. n + 1 : f[i] = IF i = 1 THEN t[i] ELSE f[i - 1] \o t[i]
  BY <1>1, <1>2 DEF Flattens
<1>4. Flattens(g, s)
  <2>1. ASSUME NEW i \in 1 .. n PROVE g[i] = IF i = 1 THEN s[i] ELSE g[i - 1] \o s[i]
    BY <1>1, <1>3
  <2>2. g = [i \in 1 .. n |-> g[i]]
    OBVIOUS
  <2> HIDE DEF g
  <2> QED
    BY <2>1, <2>2 DEF Flattens
<1>5. g = Flattened(s)
  <2> HIDE DEF g
  <2> QED
    BY <1>1, <1>4, FlattensOnce, FlattenedFlattens
<1>6. FlattenSeq(t) = f[n + 1]
  BY <1>1, FlattenIsLast DEF f
<1>7. f[n + 1] = f[n] \o x
  <2>1. n + 1 \in 1 .. n + 1 /\ n + 1 # 1 /\ (n + 1) - 1 = n
    BY <1>1
  <2>. QED
    BY <1>1, <1>3, <2>1
<1>8. f[n] = FlattenSeq(s)
  <2>1. g[n] = f[n]
    BY <1>1
  <2>2. FlattenSeq(s) = Flattened(s)[n]
    BY <1>1, FlattenIsLast
  <2>. QED
    BY <1>5, <2>1, <2>2
<1>. QED
  BY <1>6, <1>7, <1>8 DEF t

LEMMA FlattenOne == ASSUME NEW x PROVE FlattenSeq(<<x>>) = x /\ FlattenSeq(<<>>) = <<>>
<1> DEFINE s == <<x>>
<1>1. Len(s) = 1 /\ s[1] = x
  OBVIOUS
<1>2. FlattenSeq(<<>>) = <<>>
  BY DEF FlattenSeq
<1>3. FlattenSeq(s) = x
  <2> HIDE DEF s
  <2>1. Flattens(Flattened(s), s)
    BY <1>1, FlattenedFlattens
  <2>2. Flattened(s)[1] = x
    BY <1>1, <2>1 DEF Flattens
  <2>3. Len(s) # 0
    BY <1>1
  <2>4. FlattenSeq(s) = Flattened(s)[Len(s)]
    BY <2>3, FlattenIsLast
  <2>. QED
    BY <1>1, <2>2, <2>4
<1>. QED
  BY <1>2, <1>3

-----------------------------------------------------------------------------
Bunches == [i \in DOMAIN given |-> given[i].bytes]
Given == FlattenSeq(Bunches)

(* The stream was given in order; what was read since is in the buffer.    *)
InOrder ==
  /\ Given \in Seq(Nat) /\ \A i \in DOMAIN Given : Given[i] = i
  /\ wpc # "ended" =>
       /\ Len(Given) = taken - pos
       /\ \A i \in Slots : i < pos => buffer[i] = taken - pos + 1 + i

(* What the strict worker collects is what its idle callback asked for     *)
(* last; the plain one collects nothing.                                   *)
Collects ==
  /\ ~strict => pos = 0 /\ len = 0
  /\ wpc = "read" => pos < len
  /\ wpc # "ended" =>
       /\ pos < len \/ (pos = 0 /\ len = 0)
       /\ strict => IF len = 0 THEN Len(given) = Len(asked)
                    ELSE Len(asked) = Len(given) + 1 /\ asked[Len(asked)] = len

WorkerIInv == WorkerTypeOK /\ InBuffer /\ AsAsked /\ InOrder /\ Collects

(* WorkerTypeOK in parts.                                                  *)
StreamTyped ==
  /\ wpeer \in {"open", "closed", "reset", "gone"}
  /\ sent \in 0 .. MaxSent /\ taken \in 0 .. sent
FrameTyped ==
  /\ strict \in Kinds
  /\ wpc \in {"wait", "read", "ended"}
  /\ pos \in 0 .. Width - 1 /\ len \in 0 .. Width - 1
BufferTyped == buffer \in [Slots -> 0 .. MaxSent]
AskedTyped == asked \in Seq(Sizes \ {0})
GivenTyped == given \in Seq([len : 0 .. Width - 1, bytes : Seq(0 .. MaxSent)])

LEMMA WorkerTyped ==
  WorkerTypeOK <=> StreamTyped /\ FrameTyped /\ BufferTyped /\ AskedTyped /\ GivenTyped
BY DEF WorkerTypeOK, StreamTyped, FrameTyped, BufferTyped, AskedTyped, GivenTyped

LEMMA WorkerTypedNext ==
  ASSUME StreamTyped', FrameTyped', BufferTyped', AskedTyped', GivenTyped'
  PROVE  WorkerTypeOK'
BY DEF WorkerTypeOK, StreamTyped, FrameTyped, BufferTyped, AskedTyped, GivenTyped

LEMMA WorkerStarts == ASSUME WorkerInit PROVE WorkerIInv
<1>1. /\ strict \in Kinds /\ wpeer = "open" /\ sent = 0 /\ taken = 0 /\ wpc = "wait" /\ pos = 0
      /\ len \in Sizes /\ (~strict => len = 0) /\ given = <<>>
      /\ asked = IF len > 0 THEN <<len>> ELSE <<>>
      /\ buffer = [i \in Slots |-> 0]
  BY WorkerConstants DEF WorkerInit, Garbage
<1>2. StreamTyped /\ FrameTyped /\ BufferTyped /\ GivenTyped
  BY <1>1, WorkerConstants DEF StreamTyped, FrameTyped, BufferTyped, GivenTyped
<1>3. len \in Nat /\ AskedTyped /\ (len > 0 => Len(asked) = 1 /\ asked[1] = len) /\ (len = 0 => Len(asked) = 0)
  <2>1. len \in Nat /\ len \in Sizes
    BY <1>1, WorkerConstants
  <2>2. CASE len > 0
    <3>1. asked = <<len>> /\ len \in Sizes \ {0} /\ len # 0
      BY <1>1, <2>1, <2>2
    <3>. QED
      BY <2>1, <3>1 DEF AskedTyped
  <2>3. CASE len = 0
    <3>1. asked = <<>>
      BY <1>1, <2>3
    <3>. QED
      BY <2>3, <3>1 DEF AskedTyped
  <2>. QED
    BY <2>1, <2>2, <2>3
<1>4. Len(given) = 0 /\ DOMAIN given = {}
  BY <1>1
<1>5. InBuffer /\ AsAsked /\ Collects
  BY <1>1, <1>3, <1>4 DEF InBuffer, AsAsked, Collects
<1>6. Given = <<>>
  <2>1. Bunches = <<>>
    BY <1>4 DEF Bunches
  <2>. QED
    BY <2>1, FlattenOne DEF Given
<1>7. InOrder
  BY <1>1, <1>6, WorkerConstants DEF InOrder, Slots
<1>. QED
  BY <1>2, <1>3, <1>5, <1>7, WorkerTyped DEF WorkerIInv

(* Giving the next n bytes from the buffer goes on with the stream.        *)
LEMMA GiveNext ==
  ASSUME WorkerIInv, wpc # "ended", BufferTyped', NEW n \in 1 .. Width - 1,
         Give(n), \A i \in 1 .. n : buffer'[i - 1] = Len(Given) + i
  PROVE  /\ GivenTyped' /\ Given' \in Seq(Nat) /\ \A i \in DOMAIN Given' : Given'[i] = i
         /\ Len(Given') = Len(Given) + n
         /\ Len(given') = Len(given) + 1 /\ given'[Len(given) + 1].len = n
         /\ \A i \in DOMAIN given : given'[i] = given[i]
<1> DEFINE b == Content(n)
           r == [len |-> n, bytes |-> b]
<1>1. GivenTyped /\ Given \in Seq(Nat) /\ \A i \in DOMAIN Given : Given[i] = i
  BY WorkerTyped DEF WorkerIInv, InOrder
<1>2. b \in Seq(0 .. MaxSent) /\ Len(b) = n /\ \A i \in 1 .. n : b[i] = Len(Given) + i
  <2>1. \A i \in 1 .. n : buffer'[i - 1] \in 0 .. MaxSent
    BY WorkerConstants DEF BufferTyped, Slots
  <2>. QED
    BY <2>1 DEF Content
<1> HIDE DEF b
<1>3. given' = Append(given, r)
  BY DEF Give, b
<1>4. r.len = n /\ r.bytes = b /\ r \in [len : 0 .. Width - 1, bytes : Seq(0 .. MaxSent)]
  BY <1>2, WorkerConstants
<1> HIDE DEF r
<1>5. GivenTyped'
  BY <1>1, <1>3, <1>4 DEF GivenTyped
<1>6. /\ Len(given) \in Nat /\ Len(given') = Len(given) + 1 /\ given'[Len(given) + 1] = r
      /\ DOMAIN given = 1 .. Len(given) /\ DOMAIN given' = 1 .. Len(given) + 1
      /\ \A i \in 1 .. Len(given) : given'[i] = given[i] /\ given[i].bytes \in Seq(0 .. MaxSent)
  <2> DEFINE R == [len : 0 .. Width - 1, bytes : Seq(0 .. MaxSent)]
  <2>1. given \in Seq(R) /\ r \in R
    BY <1>1, <1>4 DEF GivenTyped
  <2>2. \A i \in 1 .. Len(given) : given[i].bytes \in Seq(0 .. MaxSent)
    <3>1. \A x \in R : x.bytes \in Seq(0 .. MaxSent)
      OBVIOUS
    <3>2. \A i \in 1 .. Len(given) : given[i] \in R
      <4> HIDE DEF R
      <4> QED
        BY <2>1
    <3>. QED
      BY <3>1, <3>2
  <2>3. /\ Len(given) \in Nat /\ Len(Append(given, r)) = Len(given) + 1 /\ Append(given, r)[Len(given) + 1] = r
        /\ DOMAIN given = 1 .. Len(given) /\ DOMAIN Append(given, r) = 1 .. Len(given) + 1
        /\ \A i \in 1 .. Len(given) : Append(given, r)[i] = given[i]
    <3> HIDE DEF R
    <3> QED
      BY <2>1
  <2>. QED
    BY <1>3, <2>2, <2>3
<1>7. Bunches \in Seq(Seq(0 .. MaxSent)) /\ Len(Bunches) = Len(given)
  BY <1>6 DEF Bunches
<1>8. Bunches' = Append(Bunches, b)
  <2>1. Append(Bunches, b) = [i \in 1 .. Len(given) + 1 |-> IF i <= Len(given) THEN given[i].bytes ELSE b]
    BY <1>6, <1>7, <1>2 DEF Bunches
  <2>2. Bunches' = [i \in 1 .. Len(given) + 1 |-> given'[i].bytes]
    BY <1>6 DEF Bunches
  <2>. QED
    BY <1>4, <1>6, <2>1, <2>2
<1>9. Given' = Given \o b
  <2>1. CASE Len(given) = 0
    <3>1. Bunches = <<>> /\ Bunches' = <<b>>
      BY <1>7, <1>8, <2>1
    <3>2. Given = <<>> /\ Given' = b
      BY <3>1, FlattenOne DEF Given
    <3>. QED
      BY <1>2, <3>2
  <2>2. CASE Len(given) # 0
    BY <1>2, <1>7, <1>8, <2>2, FlattenAppend DEF Given
  <2>. QED
    BY <2>1, <2>2
<1>10. /\ Given' \in Seq(Nat) /\ Len(Given') = Len(Given) + n
       /\ \A i \in 1 .. Len(Given') : Given'[i] = i
  <2>1. b \in Seq(Nat) /\ Len(Given) \in Nat
    BY <1>1, <1>2, WorkerConstants
  <2>2. /\ Given \o b \in Seq(Nat) /\ Len(Given \o b) = Len(Given) + n
        /\ \A i \in 1 .. Len(Given) + n :
             (Given \o b)[i] = IF i <= Len(Given) THEN Given[i] ELSE b[i - Len(Given)]
    BY <1>1, <1>2, <2>1, ConcatProperties
  <2>3. ASSUME NEW i \in 1 .. Len(Given) + n PROVE (Given \o b)[i] = i
    <3>1. CASE i <= Len(Given)
      BY <1>1, <2>1, <2>2, <3>1
    <3>2. CASE ~(i <= Len(Given))
      <4>1. i - Len(Given) \in 1 .. n
        BY <2>1, <3>2
      <4>. QED
        BY <1>2, <2>1, <2>2, <3>2, <4>1
    <3>. QED
      BY <3>1, <3>2
  <2>. QED
    BY <1>9, <2>2, <2>3
<1>. QED
  BY <1>4, <1>5, <1>6, <1>10

(* A read puts its bytes behind those that are in the buffer.              *)
LEMMA FillAdds ==
  ASSUME WorkerIInv, wpc # "ended", wpeer \notin {"reset", "gone"},
         NEW n \in Nat, pos + n < Width, NEW res \in Answers(n), Fill(pos, res)
  PROVE  /\ res \in 0 .. n /\ taken' = taken + res /\ UNCHANGED stream
         /\ StreamTyped' /\ BufferTyped' /\ taken \in Nat
         /\ \A i \in Slots : i < pos + res => buffer'[i] = taken - pos + 1 + i
<1>1. StreamTyped /\ FrameTyped /\ BufferTyped
  BY WorkerTyped DEF WorkerIInv
<1>2. sent \in Nat /\ taken \in Nat /\ sent <= MaxSent /\ taken <= sent /\ pos \in Nat
  BY <1>1, WorkerConstants DEF StreamTyped, FrameTyped
<1>3. res \in 0 .. n /\ taken + res <= sent
  <2>1. CASE taken < sent
    <3>1. res \in 1 .. Minimum(n, sent - taken)
      BY <2>1 DEF Answers
    <3>. QED
      BY <1>2, <3>1 DEF Minimum
  <2>2. CASE ~(taken < sent)
    BY <1>2, <2>2 DEF Answers
  <2>. QED
    BY <2>1, <2>2
<1>4. /\ buffer' = [i \in Slots |-> IF i \in pos .. pos + res - 1 THEN taken + 1 + i - pos ELSE buffer[i]]
      /\ taken' = taken + res /\ UNCHANGED stream
  BY DEF Fill, IsError
<1>5. Slots \subseteq Nat
  BY WorkerConstants DEF Slots
<1>6. StreamTyped'
  BY <1>1, <1>2, <1>3, <1>4 DEF StreamTyped, stream
<1>7. ASSUME NEW i \in Slots PROVE buffer'[i] \in 0 .. MaxSent
  BY <1>1, <1>2, <1>3, <1>4, <1>5, <1>7, WorkerConstants DEF BufferTyped
<1>8. BufferTyped'
  BY <1>4, <1>7 DEF BufferTyped
<1>9. ASSUME NEW i \in Slots, i < pos + res PROVE buffer'[i] = taken - pos + 1 + i
  <2>1. CASE i < pos
    <3>1. buffer[i] = taken - pos + 1 + i
      BY <2>1, <1>9 DEF WorkerIInv, InOrder
    <3>2. i \notin pos .. pos + res - 1
      BY <1>2, <1>5, <2>1
    <3>. QED
      BY <1>4, <3>1, <3>2
  <2>2. CASE ~(i < pos)
    BY <1>2, <1>3, <1>4, <1>5, <1>9, <2>2
  <2>. QED
    BY <2>1, <2>2
<1>. QED
  BY <1>2, <1>3, <1>4, <1>6, <1>8, <1>9

(* Where the bytes come to an end nothing is left to say about the buffer. *)
LEMMA EndKeeps ==
  ASSUME WorkerIInv, wpc' = "ended", UNCHANGED <<strict, asked, given>>,
         StreamTyped', FrameTyped', BufferTyped', ~strict => pos' = 0 /\ len' = 0
  PROVE  WorkerIInv'
<1>1. AskedTyped' /\ GivenTyped'
  BY WorkerTyped DEF WorkerIInv, AskedTyped, GivenTyped
<1>2. Given' = Given
  BY DEF Given, Bunches
<1>3. InBuffer' /\ AsAsked'
  BY DEF WorkerIInv, InBuffer, AsAsked
<1>4. InOrder' /\ Collects'
  BY <1>2 DEF WorkerIInv, InOrder, Collects
<1>. QED
  BY <1>1, <1>3, <1>4, WorkerTypedNext DEF WorkerIInv

LEMMA PeerKeeps ==
  ASSUME WorkerIInv, Send \/ \E how \in {"closed", "reset"} : End(how)
  PROVE  WorkerIInv'
<1>1. StreamTyped /\ FrameTyped /\ BufferTyped /\ AskedTyped /\ GivenTyped
  BY WorkerTyped DEF WorkerIInv
<1>2. UNCHANGED <<taken, wpc, strict, pos, len, buffer, asked, given>>
  BY DEF Send, End, frame
<1>3. StreamTyped'
  BY <1>1, WorkerConstants DEF Send, End, StreamTyped
<1>4. FrameTyped' /\ BufferTyped' /\ AskedTyped' /\ GivenTyped'
  BY <1>1, <1>2 DEF FrameTyped, BufferTyped, AskedTyped, GivenTyped
<1>5. Given' = Given
  BY <1>2 DEF Given, Bunches
<1>6. InBuffer' /\ AsAsked'
  BY <1>2 DEF WorkerIInv, InBuffer, AsAsked
<1>7. InOrder'
  BY <1>2, <1>5 DEF WorkerIInv, InOrder
<1>8. Collects'
  BY <1>2 DEF WorkerIInv, Collects
<1>. QED
  BY <1>3, <1>4, <1>6, <1>7, <1>8, WorkerTypedNext DEF WorkerIInv

LEMMA PlainKeeps ==
  ASSUME WorkerIInv, wpeer \notin {"reset", "gone"}, Run
  PROVE  WorkerIInv'
<1>1. StreamTyped /\ FrameTyped /\ BufferTyped /\ AskedTyped /\ GivenTyped
  BY WorkerTyped DEF WorkerIInv
<1>2. ~strict /\ wpc = "wait" /\ pos = 0 /\ len = 0 /\ UNCHANGED <<strict, pos, len, asked>>
  BY DEF Run, WorkerIInv, Collects
<1>3. PICK res \in Answers(BufferSize) :
        /\ Fill(pos, res)
        /\ IF res > 0 THEN Give(res) /\ UNCHANGED wpc ELSE wpc' = "ended" /\ UNCHANGED given
  BY <1>2 DEF Run
<1>4. /\ res \in 0 .. BufferSize /\ taken' = taken + res /\ UNCHANGED stream
      /\ StreamTyped' /\ BufferTyped' /\ taken \in Nat
      /\ \A i \in Slots : i < pos + res => buffer'[i] = taken - pos + 1 + i
  <2>1. BufferSize \in Nat /\ pos + BufferSize < Width
    BY <1>2, WorkerConstants
  <2>. QED
    BY <1>2, <1>3, <2>1, FillAdds
<1>5. AskedTyped'
  BY <1>1, <1>2 DEF AskedTyped
<1>6. CASE ~(res > 0)
  <2>1. FrameTyped'
    BY <1>1, <1>2, <1>3, <1>6 DEF FrameTyped
  <2>. QED
    BY <1>2, <1>3, <1>4, <1>6, <2>1, EndKeeps
<1>7. CASE res > 0
  <2>1. res \in 1 .. Width - 1 /\ res <= BufferSize
    BY <1>4, <1>7, WorkerConstants
  <2>2. Len(Given) = taken
    BY <1>2, <1>4 DEF WorkerIInv, InOrder
  <2>3. \A i \in 1 .. res : buffer'[i - 1] = Len(Given) + i
    <3>1. ASSUME NEW i \in 1 .. res PROVE i - 1 \in Slots /\ i - 1 < pos + res
      BY <1>2, <2>1, WorkerConstants DEF Slots
    <3>. QED
      BY <1>2, <1>4, <2>1, <2>2, <3>1
  <2>4. /\ GivenTyped' /\ Given' \in Seq(Nat) /\ \A i \in DOMAIN Given' : Given'[i] = i
        /\ Len(Given') = Len(Given) + res
        /\ Len(given') = Len(given) + 1 /\ given'[Len(given) + 1].len = res
        /\ \A i \in DOMAIN given : given'[i] = given[i]
    BY <1>2, <1>3, <1>4, <1>7, <2>1, <2>3, GiveNext
  <2>5. InBuffer'
    <3>1. Len(given) \in Nat /\ DOMAIN given = 1 .. Len(given) /\ DOMAIN given' = 1 .. Len(given) + 1
      BY <1>1, <2>4 DEF GivenTyped
    <3>. QED
      BY <1>2, <2>1, <2>4, <3>1 DEF InBuffer, WorkerIInv
  <2>6. InOrder'
    BY <1>2, <1>3, <1>4, <1>7, <2>2, <2>4, WorkerConstants DEF InOrder, Slots
  <2>7. FrameTyped' /\ AsAsked' /\ Collects'
    BY <1>1, <1>2, <1>3, <1>7 DEF FrameTyped, AsAsked, Collects
  <2>. QED
    BY <1>4, <1>5, <2>4, <2>5, <2>6, <2>7, WorkerTypedNext DEF WorkerIInv
<1>. QED
  BY <1>6, <1>7

(* What the idle callback answers: a size, which is what the next bunch    *)
(* must have, or the end.                                                  *)
LEMMA IdleAnswers ==
  ASSUME AskedTyped, NEW place, Idle(place)
  PROVE  \/ wpc' = "ended" /\ UNCHANGED <<pos, len, asked>>
         \/ /\ pos' = 0 /\ len' \in 1 .. Width - 1 /\ wpc' = place
            /\ AskedTyped' /\ Len(asked) \in Nat /\ Len(asked') = Len(asked) + 1
            /\ asked'[Len(asked) + 1] = len'
            /\ \A i \in 1 .. Len(asked) : asked'[i] = asked[i]
<1>1. PICK size \in Sizes :
        IF size > 0
        THEN pos' = 0 /\ len' = size /\ asked' = Append(asked, size) /\ wpc' = place
        ELSE wpc' = "ended" /\ UNCHANGED <<pos, len, asked>>
  BY DEF Idle
<1>2. size \in Nat /\ size < Width
  BY WorkerConstants
<1>3. CASE size > 0
  <2>1. size \in Sizes \ {0} /\ size \in 1 .. Width - 1
    BY <1>2, <1>3, WorkerConstants
  <2>2. asked \in Seq(Sizes \ {0}) /\ asked' = Append(asked, size)
    BY <1>1, <1>3 DEF AskedTyped
  <2>. QED
    BY <1>1, <1>3, <2>1, <2>2 DEF AskedTyped
<1>. QED
  BY <1>1, <1>3

LEMMA Widths == Width \in Nat \ {0} /\ 0 \in 0 .. Width - 1 /\ 1 .. Width - 1 \subseteq 0 .. Width - 1
BY WorkerConstants

LEMMA IdleKeeps == ASSUME WorkerIInv, RunIdle PROVE WorkerIInv'
<1>1. StreamTyped /\ FrameTyped /\ BufferTyped /\ AskedTyped /\ GivenTyped
  BY WorkerTyped DEF WorkerIInv
<1>2. /\ strict /\ wpc = "wait" /\ pos >= len /\ Idle("read")
      /\ UNCHANGED <<strict, wpeer, sent, taken, buffer, given>>
  BY DEF RunIdle, stream
<1>3. pos = 0 /\ len = 0 /\ Len(given) = Len(asked)
  <2>1. ~(pos < len)
    BY <1>1, <1>2, WorkerConstants DEF FrameTyped
  <2>. QED
    BY <1>2, <2>1 DEF WorkerIInv, Collects
<1>4. StreamTyped' /\ BufferTyped' /\ GivenTyped' /\ Given' = Given
  BY <1>1, <1>2 DEF StreamTyped, BufferTyped, GivenTyped, Given, Bunches
<1>5. CASE wpc' = "ended" /\ UNCHANGED <<pos, len, asked>>
  <2>1. FrameTyped'
    BY <1>1, <1>2, <1>5 DEF FrameTyped
  <2>. QED
    BY <1>2, <1>4, <1>5, <2>1, EndKeeps
<1>6. CASE /\ pos' = 0 /\ len' \in 1 .. Width - 1 /\ wpc' = "read"
           /\ AskedTyped' /\ Len(asked) \in Nat /\ Len(asked') = Len(asked) + 1
           /\ asked'[Len(asked) + 1] = len'
           /\ \A i \in 1 .. Len(asked) : asked'[i] = asked[i]
  <2>1. FrameTyped'
    BY <1>1, <1>2, <1>6, Widths DEF FrameTyped
  <2>2. DOMAIN given = 1 .. Len(given)
    BY <1>1 DEF GivenTyped
  <2>3. InBuffer' /\ AsAsked'
    BY <1>2, <1>3, <1>6, <2>2 DEF WorkerIInv, InBuffer, AsAsked
  <2>4. InOrder'
    BY <1>2, <1>3, <1>4, <1>6 DEF WorkerIInv, InOrder
  <2>5. Collects'
    BY <1>2, <1>3, <1>6, WorkerConstants DEF Collects
  <2>. QED
    BY <1>4, <1>6, <2>1, <2>3, <2>4, <2>5, WorkerTypedNext DEF WorkerIInv
<1>. QED
  BY <1>1, <1>2, <1>5, <1>6, IdleAnswers

LEMMA ReadKeepsStream ==
  ASSUME WorkerIInv, wpeer \notin {"reset", "gone"}, RunRead
  PROVE  WorkerIInv'
<1>1. StreamTyped /\ FrameTyped /\ BufferTyped /\ AskedTyped /\ GivenTyped
  BY WorkerTyped DEF WorkerIInv
<1>2. strict /\ wpc # "ended" /\ pos < len /\ UNCHANGED strict
  BY DEF RunRead, Reading, WorkerIInv, Collects
<1>3. /\ pos \in Nat /\ len \in 1 .. Width - 1 /\ len - pos \in Nat /\ pos + (len - pos) = len
      /\ Len(asked) = Len(given) + 1 /\ asked[Len(asked)] = len
  BY <1>1, <1>2, WorkerConstants DEF FrameTyped, WorkerIInv, Collects
<1>4. PICK res \in Answers(len - pos) :
        /\ Fill(pos, res)
        /\ CASE res = 0 -> wpc' = "ended" /\ UNCHANGED <<pos, len, asked, given>>
             [] res > 0 /\ (pos + res) % Width = len -> Recv
             [] OTHER -> /\ pos' = (pos + res) % Width
                         /\ wpc' = "wait"
                         /\ UNCHANGED <<len, asked, given>>
  BY DEF RunRead
<1>5. /\ res \in 0 .. len - pos /\ taken' = taken + res /\ UNCHANGED stream
      /\ StreamTyped' /\ BufferTyped' /\ taken \in Nat
      /\ \A i \in Slots : i < pos + res => buffer'[i] = taken - pos + 1 + i
  <2>1. pos + (len - pos) < Width
    BY <1>3, WorkerConstants
  <2>. QED
    BY <1>2, <1>3, <1>4, <2>1, FillAdds
<1>6. pos + res \in 0 .. len /\ (pos + res) % Width = pos + res
  BY <1>3, <1>5, WorkerConstants
<1>7. Len(Given) = taken - pos
  BY <1>2 DEF WorkerIInv, InOrder
<1>8. CASE res = 0
  <2>1. wpc' = "ended" /\ UNCHANGED <<pos, len, asked, given>>
    BY <1>4, <1>8
  <2>2. FrameTyped'
    BY <1>1, <1>2, <2>1 DEF FrameTyped
  <2>. QED
    BY <1>2, <1>5, <2>1, <2>2, EndKeeps
<1>9. CASE res # 0 /\ pos + res = len
  <2>1. Recv
    BY <1>4, <1>5, <1>6, <1>9
  <2>2. \A i \in 1 .. len : buffer'[i - 1] = Len(Given) + i
    <3>1. ASSUME NEW i \in 1 .. len PROVE i - 1 \in Slots /\ i - 1 < pos + res
      BY <1>3, <1>9, WorkerConstants DEF Slots
    <3>. QED
      BY <1>3, <1>5, <1>7, <3>1
  <2>3. /\ GivenTyped' /\ Given' \in Seq(Nat) /\ \A i \in DOMAIN Given' : Given'[i] = i
        /\ Len(Given') = Len(Given) + len
        /\ Len(given') = Len(given) + 1 /\ given'[Len(given) + 1].len = len
        /\ \A i \in DOMAIN given : given'[i] = given[i]
    BY <1>2, <1>3, <1>5, <2>1, <2>2, GiveNext DEF Recv
  <2>4. /\ Len(given) \in Nat /\ DOMAIN given = 1 .. Len(given) /\ DOMAIN given' = 1 .. Len(given) + 1
        /\ \A i \in 1 .. Len(given) : given'[i].len = asked[i]
    <3>1. /\ Len(given) \in Nat /\ DOMAIN given = 1 .. Len(given)
          /\ Len(given') \in Nat /\ DOMAIN given' = 1 .. Len(given')
      BY <1>1, <2>3 DEF GivenTyped
    <3>2. \A i \in DOMAIN given : given[i].len = asked[i]
      BY <1>2 DEF WorkerIInv, AsAsked
    <3>. QED
      BY <2>3, <3>1, <3>2
  <2>5. /\ InBuffer'
        /\ \A i \in 1 .. Len(given) + 1 : given'[i].len = asked[i]
    <3>1. ASSUME NEW i \in 1 .. Len(given) + 1 PROVE given'[i].len = asked[i]
      <4>1. CASE i = Len(given) + 1
        BY <1>3, <2>3, <4>1
      <4>2. CASE i # Len(given) + 1
        <5>1. i \in 1 .. Len(given)
          BY <2>4, <4>2
        <5>. QED
          BY <2>3, <2>4, <5>1
      <4>. QED
        BY <4>1, <4>2
    <3>. QED
      BY <1>2, <3>1 DEF InBuffer
  <2>6. CASE wpc' = "ended" /\ UNCHANGED <<len, asked>> /\ pos' \in {pos, len}
    <3>1. FrameTyped' /\ AskedTyped'
      BY <1>1, <1>2, <2>6 DEF FrameTyped, AskedTyped
    <3>2. AsAsked'
      <4>1. Len(given') = Len(asked')
        BY <1>3, <2>3, <2>6
      <4>. QED
        BY <2>4, <2>5, <2>6, <4>1 DEF AsAsked
    <3>3. InOrder' /\ Collects'
      BY <1>2, <2>3, <2>6 DEF InOrder, Collects
    <3>. QED
      BY <1>5, <2>3, <2>5, <3>1, <3>2, <3>3, WorkerTypedNext DEF WorkerIInv
  <2>7. CASE /\ pos' = 0 /\ len' \in 1 .. Width - 1 /\ wpc' = "wait"
             /\ AskedTyped' /\ Len(asked) \in Nat /\ Len(asked') = Len(asked) + 1
             /\ asked'[Len(asked) + 1] = len'
             /\ \A i \in 1 .. Len(asked) : asked'[i] = asked[i]
    <3>1. FrameTyped'
      BY <1>1, <1>2, <2>7, Widths DEF FrameTyped
    <3>2. /\ Len(given') = Len(asked') - 1
          /\ \A i \in 1 .. Len(given) + 1 : asked'[i] = asked[i]
      BY <1>3, <2>3, <2>4, <2>7
    <3>3. AsAsked'
      BY <2>4, <2>5, <3>2 DEF AsAsked
    <3>4. Len(Given') = taken' - pos'
      BY <1>3, <1>5, <1>7, <1>9, <2>3, <2>7
    <3>5. InOrder'
      BY <2>3, <2>7, <3>4, WorkerConstants DEF InOrder, Slots
    <3>6. Collects'
      BY <1>2, <1>3, <2>3, <2>4, <2>7, WorkerConstants DEF Collects
    <3>. QED
      BY <1>5, <2>3, <2>5, <2>7, <3>1, <3>3, <3>5, <3>6, WorkerTypedNext DEF WorkerIInv
  <2>8. CASE Idle("wait")
    BY <1>1, <2>6, <2>7, <2>8, IdleAnswers
  <2>. QED
    BY <2>1, <2>6, <2>8 DEF Recv
<1>10. CASE res # 0 /\ pos + res # len
  <2>1. pos' = pos + res /\ wpc' = "wait" /\ UNCHANGED <<len, asked, given>>
    BY <1>4, <1>5, <1>6, <1>10
  <2>2. pos' < len' /\ FrameTyped' /\ AskedTyped' /\ GivenTyped'
    <3>1. pos' < len' /\ pos' \in 0 .. Width - 1 /\ len' = len
      <4>1. pos' \in 0 .. len /\ pos' # len /\ len' = len
        BY <1>6, <1>10, <2>1
      <4>2. len \in 1 .. Width - 1 /\ Width \in Nat
        BY <1>3, Widths
      <4>. QED
        BY <4>1, <4>2
    <3>2. FrameTyped'
      BY <1>1, <1>2, <2>1, <3>1 DEF FrameTyped
    <3>. QED
      BY <1>1, <2>1, <3>1, <3>2 DEF AskedTyped, GivenTyped
  <2>3. Given' = Given
    BY <2>1 DEF Given, Bunches
  <2>4. InBuffer' /\ AsAsked' /\ Collects'
    BY <1>2, <1>3, <2>1, <2>2 DEF WorkerIInv, InBuffer, AsAsked, Collects
  <2>5. taken' - pos' = taken - pos
    BY <1>3, <1>5, <2>1
  <2>6. InOrder'
    BY <1>2, <1>5, <1>7, <2>1, <2>3, <2>5 DEF WorkerIInv, InOrder
  <2>. QED
    BY <1>5, <2>2, <2>4, <2>6, WorkerTypedNext DEF WorkerIInv
<1>. QED
  BY <1>8, <1>9, <1>10

LEMMA WorkerKeeps ==
  ASSUME wpeer # "gone" => WorkerIInv, [WorkerNext]_workerVars, wpeer' # "gone"
  PROVE  WorkerIInv'
<1>1. CASE UNCHANGED workerVars
  <2>1. UNCHANGED <<wpeer, sent, strict, pos, len, buffer, asked, taken, wpc, given>>
    BY <1>1 DEF workerVars, stream, frame
  <2>2. WorkerIInv /\ Given' = Given
    BY <2>1 DEF Given, Bunches
  <2>3. WorkerTypeOK'
    BY <2>1, <2>2 DEF WorkerIInv, WorkerTypeOK
  <2>4. InBuffer' /\ AsAsked'
    BY <2>1, <2>2 DEF WorkerIInv, InBuffer, AsAsked
  <2>5. InOrder' /\ Collects'
    BY <2>1, <2>2 DEF WorkerIInv, InOrder, Collects
  <2>. QED
    BY <2>3, <2>4, <2>5 DEF WorkerIInv
<1>2. CASE Run \/ RunRead
  <2>1. PICK at, res : Fill(at, res)
    BY <1>2 DEF Run, RunRead
  <2>2. wpeer \notin {"reset", "gone"}
    BY <2>1 DEF Fill, IsError, stream
  <2>. QED
    BY <1>2, <2>2, PlainKeeps, ReadKeepsStream
<1>3. CASE RunIdle
  BY <1>3, IdleKeeps DEF RunIdle, stream
<1>4. CASE Send \/ \E how \in {"closed", "reset"} : End(how)
  BY <1>4, PeerKeeps DEF Send, End
<1>. QED
  BY <1>1, <1>2, <1>3, <1>4 DEF WorkerNext

LEMMA WorkerImplies == ASSUME WorkerIInv PROVE WorkerInv
<1>1. StreamTyped /\ FrameTyped
  BY WorkerTyped DEF WorkerIInv
<1>2. wpc # "ended" => Len(Given) + (IF strict THEN pos ELSE 0) = taken
  BY <1>1, WorkerConstants DEF WorkerIInv, InOrder, Collects, StreamTyped, FrameTyped
<1>3. GivenInOrder
  BY <1>2 DEF GivenInOrder, Given, Bunches, WorkerIInv, InOrder
<1>. QED
  BY <1>3 DEF WorkerInv, WorkerIInv

(* Until a reset of the connection is read, the callbacks of both workers  *)
(* are given the bytes of the stream, each once and in order, and the      *)
(* strict one exactly as many as it asked for: for any sizes, buffer and   *)
(* number of bytes.                                                        *)
THEOREM WorkersGiveTheStream ==
  WorkerInit /\ [][WorkerNext]_workerVars => [](wpeer # "gone" => WorkerInv)
<1> DEFINE IInv == wpeer # "gone" => WorkerIInv
<1>1. WorkerInit => IInv
  BY WorkerStarts
<1>2. IInv /\ [WorkerNext]_workerVars => IInv'
  BY WorkerKeeps
<1>3. IInv => (wpeer # "gone" => WorkerInv)
  BY WorkerImplies
<1> HIDE DEF IInv
<1>. QED
  BY <1>1, <1>2, <1>3, PTL

(* Where no connection is reset, WorkerInv is an invariant.                *)
THEOREM WorkersKeep ==
  ASSUME "reset" \notin Ends
  PROVE  WorkerInit /\ [][WorkerNext]_workerVars => []WorkerInv
<1> DEFINE Closed == wpeer \in {"open", "closed"}
<1>1. WorkerInit => Closed
  BY DEF WorkerInit
<1>2. Closed /\ [WorkerNext]_workerVars => Closed'
  <2> SUFFICES ASSUME Closed, [WorkerNext]_workerVars PROVE Closed'
    OBVIOUS
  <2>1. CASE UNCHANGED workerVars
    BY <2>1 DEF workerVars, stream
  <2>2. ASSUME NEW at, NEW res, Fill(at, res) PROVE Closed'
    BY <2>2 DEF Fill, IsError, stream
  <2>3. CASE Run \/ RunRead
    BY <2>2, <2>3 DEF Run, RunRead
  <2>4. CASE RunIdle \/ Send \/ \E how \in {"closed", "reset"} : End(how)
    BY <2>4 DEF RunIdle, Send, End, stream
  <2>. QED
    BY <2>1, <2>3, <2>4 DEF WorkerNext
<1>3. Closed => wpeer # "gone"
  OBVIOUS
<1> HIDE DEF Closed
<1>. QED
  BY <1>1, <1>2, <1>3, WorkersGiveTheStream, PTL

-----------------------------------------------------------------------------
(* AsyncUdp: the UDP dispatcher.                                           *)

(* What the run of this component assumes too: where the receive callback  *)
(* closes contexts there is one thread.  (With more of them a context can  *)
(* be used after it was freed.)                                            *)
OneThreadCloses == \A s \in Settings : "close" \in s.replies => \E t : s.threads \subseteq {t}

Sole == "close" \in replies => \E t : threads \subseteq {t}

(* What a thread can rely on where it is.                                  *)
Stands(t) ==
  /\ pc[t] # "idle" => t \in threads
  /\ t \in Callers => pc[t] \in {"idle", "disp", "next", "send"}
  /\ pc[t] \in {"find", "lock"} => ident[t] \in Peers
  /\ pc[t] = "lock" => contexts[ident[t]] = context[t]
  /\ pc[t] \in {"lock", "recv", "destroy"} \/ (t \in Dispatchers /\ pc[t] \in {"disp", "next", "send"})
       => context[t] \in Contexts /\ memory[context[t]] = "live"
  /\ pc[t] \in {"destroy", "erase"} => "close" \in replies
  /\ pc[t] = "erase" => context[t] \in Contexts
  /\ pc[t] \in {"next", "send"} => \A c \in todo[t] : memory[c] = "live"

OneEach == \A p, q \in Peers : (p # q /\ contexts[p] # Nothing) => contexts[p] # contexts[q]
OwnSender == \A p \in Peers : contexts[p] # Nothing => peer[contexts[p]] \in {p, Nothing}
Untouched == \A c \in Contexts : memory[c] = "unused" => peer[c] = Nothing /\ \A p \in Peers : contexts[p] # c
InboxOfReceived == \A p \in Peers : inbox[p] <= received[p]

UdpIInv ==
  /\ TypeOK /\ Sole /\ (\A t \in Threads : Stands(t))
  /\ OneEach /\ OwnSender /\ Untouched /\ InboxOfReceived /\ MapIsLive /\ FreedIsUnused

(* TypeOK in parts.                                                        *)
MapTyped ==
  /\ contexts \in [Peers -> Contexts \cup {Nothing}]
  /\ memory \in [Contexts -> {"unused", "live", "freed"}]
  /\ peer \in [Contexts -> Peers \cup {Nothing}]
LocksTyped ==
  /\ mutex \in Threads \cup {Nothing}
  /\ cmutex \in [Contexts -> Threads \cup {Nothing}]
NetTyped ==
  /\ inbox \in [Peers -> 0 .. MaxDatagrams]
  /\ received \in [Peers -> 0 .. MaxDatagrams]
ThreadsTyped ==
  /\ pc \in [Threads -> Places]
  /\ ident \in [Threads -> Peers \cup {Nothing}]
  /\ context \in [Threads -> Contexts \cup {Nothing}]
  /\ todo \in [Threads -> SUBSET Contexts]
SettingTyped == [threads |-> threads, replies |-> replies] \in Settings

LEMMA UdpTyped ==
  TypeOK <=> MapTyped /\ LocksTyped /\ NetTyped /\ ThreadsTyped /\ SettingTyped /\ touched \subseteq Contexts
BY DEF TypeOK, MapTyped, LocksTyped, NetTyped, ThreadsTyped, SettingTyped

LEMMA UdpTypedNext ==
  ASSUME MapTyped', LocksTyped', NetTyped', ThreadsTyped', SettingTyped', touched' \subseteq Contexts
  PROVE  TypeOK'
BY DEF TypeOK, MapTyped, LocksTyped, NetTyped, ThreadsTyped, SettingTyped

LEMMA ThreadSets ==
  /\ Dispatchers \subseteq Threads /\ Callers \subseteq Threads
  /\ \A t \in Threads : t \in Dispatchers <=> t \notin Callers
  /\ Nothing \notin Threads /\ Nothing \notin Peers /\ Nothing \notin Contexts
BY DispatcherConstants DEF Threads

LEMMA UdpStarts == ASSUME OneThreadCloses, Init PROVE UdpIInv
<1>1. PICK s \in Settings : threads = s.threads /\ replies = s.replies
  BY DEF Init
<1>2. s = [threads |-> s.threads, replies |-> s.replies]
  BY DispatcherConstants
<1>3. SettingTyped /\ Sole
  BY <1>1, <1>2, OneThreadCloses DEF SettingTyped, Sole, OneThreadCloses
<1>4. MapTyped /\ LocksTyped /\ NetTyped /\ ThreadsTyped /\ touched \subseteq Contexts
  BY DispatcherConstants DEF Init, MapTyped, LocksTyped, NetTyped, ThreadsTyped, Places
<1>5. ASSUME NEW t \in Threads PROVE Stands(t)
  BY DEF Init, Stands
<1>6. OneEach /\ OwnSender /\ Untouched /\ MapIsLive /\ FreedIsUnused
  BY ThreadSets DEF Init, OneEach, OwnSender, Untouched, MapIsLive, FreedIsUnused
<1>7. InboxOfReceived
  BY DEF Init, InboxOfReceived
<1>. QED
  BY <1>3, <1>4, <1>5, <1>6, <1>7, UdpTyped DEF UdpIInv

(* Where contexts are closed, a thread that is somewhere is alone.         *)
LEMMA ClosesAlone ==
  ASSUME UdpIInv, NEW t \in Threads, NEW u \in Threads,
         pc[t] # "idle", pc[u] # "idle", "close" \in replies
  PROVE  t = u
<1>1. t \in threads /\ u \in threads
  BY DEF UdpIInv, Stands
<1>. QED
  BY <1>1 DEF UdpIInv, Sole

(* A thread that is about to use the map finds contexts that are alive.    *)
LEMMA MappedIsLive ==
  ASSUME UdpIInv, NEW t \in Threads, pc[t] \in {"find", "disp"},
         NEW p \in Peers, contexts[p] # Nothing
  PROVE  memory[contexts[p]] = "live"
<1>1. SUFFICES ASSUME NEW u \in Dispatchers, pc[u] = "erase" PROVE FALSE
  BY DEF UdpIInv, MapIsLive
<1>2. u \in Threads
  BY ThreadSets
<1>3. "close" \in replies
  BY <1>1, <1>2 DEF UdpIInv, Stands
<1>. QED
  BY <1>1, <1>2, <1>3, ClosesAlone

MapParts == OneEach /\ OwnSender /\ Untouched /\ MapIsLive

(* A step that leaves the map alone, and frees nothing.                    *)
LEMMA MapStays ==
  ASSUME UdpIInv, UNCHANGED <<contexts, memory, peer>>,
         \A u \in Threads : pc[u] = "erase" => pc'[u] = "erase" /\ context'[u] = context[u]
  PROVE  MapParts'
<1>1. OneEach' /\ OwnSender' /\ Untouched'
  BY DEF UdpIInv, OneEach, OwnSender, Untouched
<1>2. MapIsLive'
  BY ThreadSets DEF UdpIInv, MapIsLive
<1>. QED
  BY <1>1, <1>2 DEF MapParts

LEMMA NetKeeps ==
  ASSUME UdpIInv, NEW p \in Peers,
         Arrive(p) \/ \E t \in Threads : Read(t, p)
  PROVE  UdpIInv'
<1>1. TypeOK /\ NetTyped /\ ThreadsTyped /\ InboxOfReceived
  BY UdpTyped DEF UdpIInv
<1>2. NetTyped' /\ InboxOfReceived'
  <2>1. /\ inbox \in [Peers -> Nat] /\ received \in [Peers -> Nat]
        /\ \A q \in Peers : inbox[q] <= received[q] /\ received[q] <= MaxDatagrams
    BY <1>1, DispatcherConstants DEF NetTyped, InboxOfReceived
  <2>2. CASE Arrive(p)
    BY <2>1, <2>2, DispatcherConstants DEF Arrive, NetTyped, InboxOfReceived
  <2>3. ASSUME NEW t \in Threads, Read(t, p) PROVE NetTyped' /\ InboxOfReceived'
    BY <2>1, <2>3, DispatcherConstants DEF Read, NetTyped, InboxOfReceived
  <2>. QED
    BY <2>2, <2>3
<1>3. UNCHANGED <<fixed, locks, contexts, mem, context, todo>>
  BY DEF Arrive, Read
<1>4. CASE Arrive(p)
  <2>1. UNCHANGED <<pc, ident>>
    BY <1>4 DEF Arrive
  <2>2. MapTyped' /\ LocksTyped' /\ ThreadsTyped' /\ SettingTyped' /\ touched' \subseteq Contexts
    BY <1>1, <1>3, <2>1, UdpTyped DEF fixed, locks, mem, MapTyped, LocksTyped, ThreadsTyped, SettingTyped
  <2>3. ASSUME NEW u \in Threads PROVE Stands(u)'
    BY <1>3, <2>1 DEF UdpIInv, Stands, fixed, mem
  <2>4. MapParts'
    BY <1>3, <2>1, MapStays DEF mem
  <2>. QED
    BY <1>2, <1>3, <2>2, <2>3, <2>4, UdpTypedNext DEF UdpIInv, MapParts, Sole, FreedIsUnused, fixed, mem
<1>5. ASSUME NEW t \in Threads, Read(t, p) PROVE UdpIInv'
  <2>1. /\ t \in Dispatchers /\ t \in threads /\ pc[t] = "idle"
        /\ pc' = [pc EXCEPT ![t] = "find"] /\ ident' = [ident EXCEPT ![t] = p]
    BY <1>5 DEF Read, Go
  <2>2. MapTyped' /\ LocksTyped' /\ ThreadsTyped' /\ SettingTyped' /\ touched' \subseteq Contexts
    BY <1>1, <1>3, <2>1, UdpTyped DEF fixed, locks, mem, MapTyped, LocksTyped, ThreadsTyped, SettingTyped, Places
  <2>3. ASSUME NEW u \in Threads PROVE Stands(u)'
    <3>1. Stands(u)
      BY DEF UdpIInv
    <3>2. CASE u = t
      BY <1>1, <1>3, <2>1, <3>2, ThreadSets DEF Stands, fixed, mem, ThreadsTyped
    <3>3. CASE u # t
      BY <1>1, <1>3, <2>1, <3>1, <3>3 DEF Stands, fixed, mem, ThreadsTyped
    <3>. QED
      BY <3>2, <3>3
  <2>4. \A u \in Threads : pc[u] = "erase" => pc'[u] = "erase" /\ context'[u] = context[u]
    BY <1>1, <1>3, <2>1 DEF ThreadsTyped
  <2>5. MapParts'
    BY <1>3, <2>4, MapStays DEF mem
  <2>. QED
    BY <1>2, <1>3, <2>2, <2>3, <2>5, UdpTypedNext DEF UdpIInv, MapParts, Sole, FreedIsUnused, fixed, mem
<1>. QED
  BY <1>4, <1>5

LEMMA FindKeeps == ASSUME UdpIInv, NEW t \in Threads, Find(t) PROVE UdpIInv'
<1> DEFINE p == ident[t]
<1>1. TypeOK /\ MapTyped /\ ThreadsTyped /\ NetTyped
  BY UdpTyped DEF UdpIInv
<1>2. pc[t] = "find" /\ pc' = [pc EXCEPT ![t] = "lock"] /\ p \in Peers /\ t \in threads /\ t \in Dispatchers
  BY ThreadSets DEF Find, Go, UdpIInv, Stands
<1>3. UNCHANGED <<fixed, locks, peer, touched, net, ident, todo>>
  BY DEF Find
<1>4. PICK c \in Contexts :
        /\ context' = [context EXCEPT ![t] = c]
        /\ \/ /\ contexts[p] = c /\ memory[c] = "live" /\ UNCHANGED <<contexts, memory>>
           \/ /\ contexts[p] = Nothing /\ memory[c] = "unused"
              /\ memory' = [memory EXCEPT ![c] = "live"]
              /\ contexts' = [contexts EXCEPT ![p] = c]
  <2>1. CASE contexts[p] # Nothing
    BY <1>1, <1>2, <2>1, MappedIsLive DEF Find, MapTyped
  <2>2. CASE contexts[p] = Nothing
    BY <2>2 DEF Find
  <2>. QED
    BY <2>1, <2>2
<1>5. MapTyped' /\ ThreadsTyped'
  BY <1>1, <1>2, <1>3, <1>4 DEF MapTyped, ThreadsTyped, Places
<1>6. LocksTyped' /\ NetTyped' /\ SettingTyped' /\ touched' \subseteq Contexts
  BY <1>1, <1>3, UdpTyped DEF fixed, locks, net, LocksTyped, NetTyped, SettingTyped
<1>7. contexts'[p] = c /\ memory'[c] = "live" /\ \A x \in Contexts : memory[x] = "live" => memory'[x] = "live"
  BY <1>1, <1>2, <1>4 DEF MapTyped
<1>8. ASSUME NEW u \in Threads PROVE Stands(u)'
  <2>1. Stands(u)
    BY DEF UdpIInv
  <2>2. CASE u = t
    BY <1>1, <1>2, <1>3, <1>4, <1>7, <2>2, ThreadSets DEF Stands, fixed, ThreadsTyped
  <2>3. CASE u # t
    <3>1. pc'[u] = pc[u] /\ context'[u] = context[u]
      BY <1>1, <1>2, <1>4, <2>3 DEF ThreadsTyped
    <3>2. ASSUME pc[u] = "lock" PROVE contexts'[ident[u]] = context[u]
      <4>1. ident[u] \in Peers /\ contexts[ident[u]] = context[u] /\ context[u] \in Contexts
        BY <2>1, <3>2 DEF Stands
      <4>. QED
        BY <4>1, <1>1, <1>2, <1>4, ThreadSets DEF MapTyped
    <3>3. todo[u] \in SUBSET Contexts
      BY <1>1 DEF ThreadsTyped
    <3>. QED
      BY <1>3, <1>7, <2>1, <3>1, <3>2, <3>3 DEF Stands, fixed
  <2>. QED
    BY <2>2, <2>3
<1>9. \A u \in Threads : pc[u] = "erase" => pc'[u] = "erase" /\ context'[u] = context[u]
  BY <1>1, <1>2, <1>4 DEF ThreadsTyped
<1>10. MapParts'
  <2>1. CASE UNCHANGED <<contexts, memory>>
    BY <1>3, <1>9, <2>1, MapStays
  <2>2. CASE /\ contexts[p] = Nothing /\ memory[c] = "unused"
             /\ memory' = [memory EXCEPT ![c] = "live"]
             /\ contexts' = [contexts EXCEPT ![p] = c]
    <3>1. /\ \A q \in Peers : contexts[q] # c
          /\ peer[c] = Nothing
      BY <2>2 DEF UdpIInv, Untouched
    <3>2. \A q \in Peers : q # p => contexts'[q] = contexts[q]
      BY <1>1, <2>2 DEF MapTyped
    <3>3. \A x \in Contexts : x # c => memory'[x] = memory[x]
      BY <1>1, <2>2 DEF MapTyped
    <3>4. OneEach'
      BY <1>7, <3>1, <3>2 DEF UdpIInv, OneEach
    <3>5. OwnSender'
      BY <1>3, <1>7, <3>1, <3>2 DEF UdpIInv, OwnSender
    <3>6. Untouched'
      BY <1>2, <1>3, <1>7, <3>2, <3>3 DEF UdpIInv, Untouched
    <3>7. MapIsLive'
      BY <1>1, <1>7, <1>9, <3>1, <3>2, <3>3, ThreadSets DEF UdpIInv, MapIsLive, MapTyped
    <3>. QED
      BY <3>4, <3>5, <3>6, <3>7 DEF MapParts
  <2>. QED
    BY <1>4, <2>1, <2>2
<1>. QED
  BY <1>3, <1>5, <1>6, <1>8, <1>10, UdpTypedNext
     DEF UdpIInv, MapParts, Sole, FreedIsUnused, InboxOfReceived, fixed, net

(* A step of one thread that leaves the contexts alone keeps everything if *)
(* the thread can rely on what it needs where it goes.                     *)
LEMMA ThreadMoves ==
  ASSUME UdpIInv, NEW t \in Threads, pc[t] # "erase",
         UNCHANGED <<fixed, contexts, mem, net, ident>>,
         LocksTyped', ThreadsTyped', Stands(t)',
         \A u \in Threads : u # t => pc'[u] = pc[u] /\ context'[u] = context[u] /\ todo'[u] = todo[u]
  PROVE  UdpIInv'
<1>1. MapTyped' /\ NetTyped' /\ SettingTyped' /\ touched' \subseteq Contexts
  BY UdpTyped DEF UdpIInv, fixed, mem, net, MapTyped, NetTyped, SettingTyped
<1>2. ASSUME NEW u \in Threads PROVE Stands(u)'
  <2>1. CASE u # t
    BY <2>1 DEF UdpIInv, Stands, fixed, mem
  <2>. QED
    BY <2>1
<1>3. MapParts'
  <2>1. \A u \in Threads : pc[u] = "erase" => pc'[u] = "erase" /\ context'[u] = context[u]
    OBVIOUS
  <2>. QED
    BY <2>1, MapStays DEF mem
<1>. QED
  BY <1>1, <1>2, <1>3, UdpTypedNext
     DEF UdpIInv, MapParts, Sole, FreedIsUnused, InboxOfReceived, fixed, mem, net

LEMMA RecvKeeps ==
  ASSUME UdpIInv, NEW t \in Threads, RecvKeep(t) \/ RecvClose(t) \/ RecvBroadcast(t)
  PROVE  UdpIInv'
<1>1. LocksTyped /\ ThreadsTyped /\ Stands(t) /\ pc[t] = "recv"
  BY UdpTyped DEF UdpIInv, RecvKeep, RecvClose, RecvBroadcast
<1>2. t \in Dispatchers /\ t \notin Callers
  BY <1>1, ThreadSets DEF Stands
<1>3. UNCHANGED <<fixed, mutex, contexts, mem, net, ident, todo>>
  BY DEF RecvKeep, RecvClose, RecvBroadcast, locks
<1>4. LocksTyped'
  BY <1>1, ThreadSets DEF RecvKeep, RecvClose, RecvBroadcast, Leave, locks, LocksTyped
<1>5. PICK place \in {"idle", "destroy", "disp"} :
        /\ pc' = [pc EXCEPT ![t] = place]
        /\ place = "destroy" => "close" \in replies
        /\ IF place = "idle" THEN context' = [context EXCEPT ![t] = Nothing] ELSE UNCHANGED context
  BY DEF RecvKeep, RecvClose, RecvBroadcast, Leave, Go
<1>6. ThreadsTyped'
  BY <1>1, <1>3, <1>5 DEF ThreadsTyped, Places
<1>7. pc'[t] = place /\ (place # "idle" => context'[t] = context[t])
  BY <1>1, <1>5 DEF ThreadsTyped
<1>8. Stands(t)'
  BY <1>1, <1>2, <1>3, <1>5, <1>7 DEF Stands, fixed, mem
<1>9. \A u \in Threads : u # t => pc'[u] = pc[u] /\ context'[u] = context[u] /\ todo'[u] = todo[u]
  BY <1>1, <1>3, <1>5 DEF ThreadsTyped
<1>. QED
  BY <1>1, <1>3, <1>4, <1>6, <1>8, <1>9, ThreadMoves

LEMMA BroadcastKeeps ==
  ASSUME UdpIInv, NEW t \in Threads,
         BroadcastCall(t) \/ BroadcastLock(t) \/ BroadcastSent(t) \/ BroadcastDone(t)
           \/ \E c \in Contexts : BroadcastSend(t, c)
  PROVE  UdpIInv'
<1>1. TypeOK /\ MapTyped /\ LocksTyped /\ ThreadsTyped /\ Stands(t)
  BY UdpTyped DEF UdpIInv
<1>2. CASE BroadcastCall(t)
  <2>1. /\ pc[t] = "idle" /\ t \in threads /\ pc' = [pc EXCEPT ![t] = "disp"]
        /\ t \notin Dispatchers
        /\ UNCHANGED <<fixed, locks, contexts, mem, net, ident, context, todo>>
    BY <1>2, ThreadSets DEF BroadcastCall, Go
  <2>2. LocksTyped' /\ ThreadsTyped'
    BY <1>1, <2>1 DEF LocksTyped, ThreadsTyped, locks, Places
  <2>3. Stands(t)'
    BY <1>1, <2>1 DEF Stands, fixed, ThreadsTyped
  <2>4. \A u \in Threads : u # t => pc'[u] = pc[u] /\ context'[u] = context[u] /\ todo'[u] = todo[u]
    BY <1>1, <2>1 DEF ThreadsTyped
  <2>. QED
    BY <2>1, <2>2, <2>3, <2>4, ThreadMoves
<1>3. CASE BroadcastLock(t)
  <2>1. /\ pc[t] = "disp" /\ pc' = [pc EXCEPT ![t] = "next"] /\ mutex' = t
        /\ todo' = [todo EXCEPT ![t] = {contexts[p] : p \in Peers} \ {context[t], Nothing}]
        /\ UNCHANGED <<fixed, cmutex, contexts, mem, net, ident, context>>
    BY <1>3 DEF BroadcastLock, Go
  <2>2. {contexts[p] : p \in Peers} \ {context[t], Nothing} \in SUBSET Contexts
    BY <1>1 DEF MapTyped
  <2>3. LocksTyped' /\ ThreadsTyped'
    BY <1>1, <2>1, <2>2 DEF LocksTyped, ThreadsTyped, Places
  <2>4. ASSUME NEW c \in todo'[t] PROVE memory[c] = "live"
    BY <1>1, <2>1, <2>2, <2>4, MappedIsLive DEF ThreadsTyped
  <2>5. Stands(t)'
    BY <1>1, <2>1, <2>4 DEF Stands, fixed, mem, ThreadsTyped
  <2>6. \A u \in Threads : u # t => pc'[u] = pc[u] /\ context'[u] = context[u] /\ todo'[u] = todo[u]
    BY <1>1, <2>1 DEF ThreadsTyped
  <2>. QED
    BY <2>1, <2>3, <2>5, <2>6, ThreadMoves
<1>4. ASSUME NEW c \in Contexts, BroadcastSend(t, c) PROVE UdpIInv'
  <2>1. /\ pc[t] = "next" /\ pc' = [pc EXCEPT ![t] = "send"] /\ c \in todo[t]
        /\ cmutex' = [cmutex EXCEPT ![c] = t]
        /\ todo' = [todo EXCEPT ![t] = @ \ {c}]
        /\ UNCHANGED <<fixed, mutex, contexts, memory, peer, net, ident, context>>
    BY <1>4 DEF BroadcastSend, Go
  <2>2. UNCHANGED touched
    BY <1>1, <1>4, <2>1 DEF BroadcastSend, Touch, Stands
  <2>3. LocksTyped' /\ ThreadsTyped'
    BY <1>1, <2>1 DEF LocksTyped, ThreadsTyped, Places
  <2>4. Stands(t)'
    BY <1>1, <2>1 DEF Stands, fixed, ThreadsTyped
  <2>5. \A u \in Threads : u # t => pc'[u] = pc[u] /\ context'[u] = context[u] /\ todo'[u] = todo[u]
    BY <1>1, <2>1 DEF ThreadsTyped
  <2>. QED
    BY <2>1, <2>2, <2>3, <2>4, <2>5, ThreadMoves DEF mem
<1>5. CASE BroadcastSent(t)
  <2>1. /\ pc[t] = "send" /\ pc' = [pc EXCEPT ![t] = "next"]
        /\ UNCHANGED <<fixed, mutex, contexts, mem, net, ident, context, todo>>
    BY <1>5 DEF BroadcastSent, Go
  <2>2. LocksTyped'
    BY <1>1, <1>5, <2>1 DEF BroadcastSent, LocksTyped
  <2>3. ThreadsTyped'
    BY <1>1, <2>1 DEF ThreadsTyped, Places
  <2>4. Stands(t)'
    BY <1>1, <2>1 DEF Stands, fixed, mem, ThreadsTyped
  <2>5. \A u \in Threads : u # t => pc'[u] = pc[u] /\ context'[u] = context[u] /\ todo'[u] = todo[u]
    BY <1>1, <2>1 DEF ThreadsTyped
  <2>. QED
    BY <2>1, <2>2, <2>3, <2>4, <2>5, ThreadMoves
<1>6. CASE BroadcastDone(t)
  <2>1. /\ pc[t] = "next" /\ mutex' = Nothing
        /\ UNCHANGED <<fixed, contexts, mem, net, ident, todo>>
    BY <1>6 DEF BroadcastDone
  <2>2. PICK place \in {"idle", "destroy"} :
          /\ pc' = [pc EXCEPT ![t] = place]
          /\ cmutex' = [cmutex EXCEPT ![context[t]] = Nothing] \/ UNCHANGED cmutex
          /\ place = "destroy" => "close" \in replies /\ t \in Dispatchers /\ UNCHANGED context
          /\ context' = [context EXCEPT ![t] = Nothing] \/ UNCHANGED context
    BY <1>6 DEF BroadcastDone, Leave, Go
  <2>3. LocksTyped'
    BY <1>1, <2>1, <2>2 DEF LocksTyped
  <2>4. ThreadsTyped'
    BY <1>1, <2>1, <2>2 DEF ThreadsTyped, Places
  <2>5. Stands(t)'
    BY <1>1, <2>1, <2>2, ThreadSets DEF Stands, fixed, mem, ThreadsTyped
  <2>6. \A u \in Threads : u # t => pc'[u] = pc[u] /\ context'[u] = context[u] /\ todo'[u] = todo[u]
    BY <1>1, <2>1, <2>2 DEF ThreadsTyped
  <2>. QED
    BY <2>1, <2>3, <2>4, <2>5, <2>6, ThreadMoves
<1>. QED
  BY <1>2, <1>3, <1>4, <1>5, <1>6

LEMMA RecvLockKeeps == ASSUME UdpIInv, NEW t \in Threads, RecvLock(t) PROVE UdpIInv'
<1> DEFINE c == context[t]
<1>1. TypeOK /\ MapTyped /\ LocksTyped /\ ThreadsTyped /\ NetTyped /\ Stands(t)
  BY UdpTyped DEF UdpIInv
<1>2. /\ pc[t] = "lock" /\ c \in Contexts /\ memory[c] = "live"
      /\ ident[t] \in Peers /\ contexts[ident[t]] = c /\ t \in threads /\ t \notin Callers
  BY <1>1 DEF RecvLock, Stands
<1>3. /\ pc' = [pc EXCEPT ![t] = "recv"] /\ ident' = [ident EXCEPT ![t] = Nothing]
      /\ cmutex' = [cmutex EXCEPT ![c] = t]
      /\ peer' = [peer EXCEPT ![c] = ident[t]]
      /\ UNCHANGED <<fixed, mutex, contexts, memory, net, context, todo, touched>>
  BY <1>2 DEF RecvLock, Go, Touch
<1>4. MapTyped' /\ LocksTyped' /\ ThreadsTyped'
  BY <1>1, <1>2, <1>3 DEF MapTyped, LocksTyped, ThreadsTyped, Places
<1>5. NetTyped' /\ SettingTyped' /\ touched' \subseteq Contexts
  BY <1>1, <1>3, UdpTyped DEF net, fixed, NetTyped, SettingTyped
<1>6. ASSUME NEW u \in Threads PROVE Stands(u)'
  <2>1. Stands(u)
    BY DEF UdpIInv
  <2>2. CASE u = t
    BY <1>1, <1>2, <1>3, <2>2 DEF Stands, fixed, ThreadsTyped
  <2>3. CASE u # t
    BY <1>1, <1>3, <2>1, <2>3 DEF Stands, fixed, ThreadsTyped
  <2>. QED
    BY <2>2, <2>3
<1>7. OneEach' /\ MapIsLive'
  BY <1>1, <1>2, <1>3, ThreadSets DEF UdpIInv, OneEach, MapIsLive, ThreadsTyped
<1>8. \A p \in Peers : p # ident[t] => contexts[p] # c
  BY <1>2, ThreadSets DEF UdpIInv, OneEach
<1>9. OwnSender'
  BY <1>1, <1>2, <1>3, <1>8 DEF UdpIInv, OwnSender, MapTyped
<1>10. Untouched'
  BY <1>1, <1>2, <1>3 DEF UdpIInv, Untouched, MapTyped
<1>. QED
  BY <1>3, <1>4, <1>5, <1>6, <1>7, <1>9, <1>10, UdpTypedNext
     DEF UdpIInv, Sole, FreedIsUnused, InboxOfReceived, fixed, net

LEMMA DestroyKeeps == ASSUME UdpIInv, NEW t \in Threads, CloseDestroy(t) PROVE UdpIInv'
<1> DEFINE c == context[t]
<1>1. TypeOK /\ MapTyped /\ LocksTyped /\ ThreadsTyped /\ NetTyped /\ Stands(t)
  BY UdpTyped DEF UdpIInv
<1>2. /\ pc[t] = "destroy" /\ c \in Contexts /\ memory[c] = "live"
      /\ t \in threads /\ t \in Dispatchers /\ "close" \in replies
  BY <1>1, ThreadSets DEF CloseDestroy, Stands
<1>3. /\ pc' = [pc EXCEPT ![t] = "erase"] /\ memory' = [memory EXCEPT ![c] = "freed"]
      /\ UNCHANGED <<fixed, locks, contexts, peer, net, ident, context, todo, touched>>
  BY <1>2 DEF CloseDestroy, Go, Touch
<1>4. MapTyped' /\ ThreadsTyped'
  BY <1>1, <1>2, <1>3 DEF MapTyped, ThreadsTyped, Places
<1>5. LocksTyped' /\ NetTyped' /\ SettingTyped' /\ touched' \subseteq Contexts
  BY <1>1, <1>3, UdpTyped DEF net, locks, fixed, LocksTyped, NetTyped, SettingTyped
<1>6. \A u \in Threads : u # t => pc[u] = "idle"
  BY <1>2, ClosesAlone
<1>7. ASSUME NEW u \in Threads PROVE Stands(u)'
  <2>1. CASE u = t
    BY <1>1, <1>2, <1>3, <2>1, ThreadSets DEF Stands, fixed, ThreadsTyped
  <2>2. CASE u # t
    BY <1>1, <1>3, <1>6, <2>2 DEF Stands, fixed, ThreadsTyped
  <2>. QED
    BY <2>1, <2>2
<1>8. OneEach' /\ OwnSender' /\ Untouched'
  BY <1>1, <1>2, <1>3 DEF UdpIInv, OneEach, OwnSender, Untouched, MapTyped
<1>9. MapIsLive'
  <2>1. pc'[t] = "erase" /\ context'[t] = c
    BY <1>1, <1>3 DEF ThreadsTyped
  <2>2. ASSUME NEW p \in Peers, contexts'[p] # Nothing, contexts'[p] # c PROVE memory'[contexts'[p]] = "live"
    <3>1. contexts[p] \in Contexts /\ memory'[contexts[p]] = memory[contexts[p]]
      BY <1>1, <1>3, <2>2 DEF MapTyped
    <3>2. \A u \in Dispatchers : pc[u] # "erase"
      BY <1>2, <1>6, ThreadSets
    <3>. QED
      BY <1>3, <2>2, <3>1, <3>2 DEF UdpIInv, MapIsLive
  <2>. QED
    BY <1>2, <2>1, <2>2 DEF MapIsLive
<1>. QED
  BY <1>3, <1>4, <1>5, <1>7, <1>8, <1>9, UdpTypedNext
     DEF UdpIInv, Sole, FreedIsUnused, InboxOfReceived, fixed, net

LEMMA EraseKeeps == ASSUME UdpIInv, NEW t \in Threads, CloseErase(t) PROVE UdpIInv'
<1> DEFINE c == context[t]
<1>1. TypeOK /\ MapTyped /\ LocksTyped /\ ThreadsTyped /\ NetTyped /\ Stands(t)
  BY UdpTyped DEF UdpIInv
<1>2. /\ pc[t] = "erase" /\ c \in Contexts
      /\ t \in threads /\ t \in Dispatchers /\ "close" \in replies
  BY <1>1, ThreadSets DEF CloseErase, Stands
<1>3. /\ pc' = [pc EXCEPT ![t] = "idle"] /\ context' = [context EXCEPT ![t] = Nothing]
      /\ contexts' = [p \in Peers |-> IF contexts[p] = c THEN Nothing ELSE contexts[p]]
      /\ UNCHANGED <<fixed, locks, mem, net, ident, todo>>
  BY DEF CloseErase, Go
<1>4. MapTyped' /\ ThreadsTyped'
  BY <1>1, <1>2, <1>3 DEF mem, MapTyped, ThreadsTyped, Places
<1>5. LocksTyped' /\ NetTyped' /\ SettingTyped' /\ touched' \subseteq Contexts
  BY <1>1, <1>3, UdpTyped DEF net, mem, locks, fixed, LocksTyped, NetTyped, SettingTyped
<1>6. \A u \in Threads : u # t => pc[u] = "idle"
  BY <1>2, ClosesAlone
<1>7. ASSUME NEW u \in Threads PROVE Stands(u)'
  <2>1. pc'[u] = "idle"
    BY <1>1, <1>3, <1>6 DEF ThreadsTyped
  <2>. QED
    BY <2>1 DEF Stands
<1>8. \A p \in Peers : contexts'[p] # Nothing => contexts'[p] = contexts[p] /\ contexts[p] # c
  BY <1>3
<1>9. OneEach' /\ OwnSender' /\ Untouched'
  BY <1>1, <1>3, <1>8, ThreadSets DEF UdpIInv, OneEach, OwnSender, Untouched, mem
<1>10. MapIsLive'
  <2>1. ASSUME NEW p \in Peers, contexts'[p] # Nothing PROVE memory[contexts[p]] = "live"
    <3>1. \A u \in Dispatchers : pc[u] = "erase" => context[u] # contexts[p]
      BY <1>6, <1>8, <2>1, ThreadSets
    <3>. QED
      BY <1>8, <2>1, <3>1 DEF UdpIInv, MapIsLive
  <2>. QED
    BY <1>3, <1>8, <2>1 DEF MapIsLive, mem
<1>. QED
  BY <1>3, <1>4, <1>5, <1>7, <1>9, <1>10, UdpTypedNext
     DEF UdpIInv, Sole, FreedIsUnused, InboxOfReceived, fixed, net, mem

LEMMA UdpKeeps == ASSUME UdpIInv, [Next]_vars PROVE UdpIInv'
<1>1. ASSUME UNCHANGED vars PROVE UdpIInv'
  <2>1. /\ UNCHANGED <<threads, replies, mutex, cmutex, contexts, memory, peer, touched>>
        /\ UNCHANGED <<inbox, received, pc, ident, context, todo>>
    BY <1>1 DEF vars, fixed, locks, mem, net
  <2>2. TypeOK'
    BY <2>1 DEF UdpIInv, TypeOK
  <2>3. ASSUME NEW t \in Threads PROVE Stands(t)'
    BY <2>1 DEF UdpIInv, Stands
  <2>4. OneEach' /\ OwnSender' /\ Untouched' /\ InboxOfReceived' /\ MapIsLive'
    BY <2>1 DEF UdpIInv, OneEach, OwnSender, Untouched, InboxOfReceived, MapIsLive
  <2>. QED
    BY <2>1, <2>2, <2>3, <2>4 DEF UdpIInv, Sole, FreedIsUnused
<1>2. ASSUME NEW t \in Threads, Locks(t) \/ Goes(t) \/ Sortout(t) \/ BroadcastCall(t) PROVE UdpIInv'
  BY <1>1, <1>2, FindKeeps, RecvLockKeeps, EraseKeeps, BroadcastKeeps, RecvKeeps, DestroyKeeps
     DEF Locks, Goes, Sortout
<1>3. ASSUME NEW p \in Peers, Arrive(p) \/ \E t \in Threads : Read(t, p) PROVE UdpIInv'
  BY <1>3, NetKeeps
<1>. QED
  BY <1>1, <1>2, <1>3 DEF Next

LEMMA UdpImplies == UdpIInv => DispatcherInv
<1>1. ASSUME UdpIInv, NEW t \in Dispatchers, NEW u \in Dispatchers,
             pc[t] = "lock", pc[u] = "lock", ident[t] = ident[u]
      PROVE  context[t] = context[u]
  BY <1>1, ThreadSets DEF UdpIInv, Stands
<1>2. UdpIInv => OneContextPerPeer
  BY <1>1 DEF UdpIInv, OneContextPerPeer, OneEach, OwnSender
<1>. QED
  BY <1>2 DEF UdpIInv, DispatcherInv

(* The dispatcher of ecasync_udpdisp_run gives each peer one context of    *)
(* its own, finds only contexts in its map that were not freed but for the *)
(* one a thread is about to erase, and no thread uses one that was: for    *)
(* any number of threads, peers and contexts, where the receive callback   *)
(* closes none, or one thread runs the dispatcher.                         *)
THEOREM DispatcherKeeps == ASSUME OneThreadCloses PROVE Spec => []DispatcherInv
<1>1. Init => UdpIInv
  BY UdpStarts
<1>2. UdpIInv /\ [Next]_vars => UdpIInv'
  BY UdpKeeps
<1>3. UdpIInv => DispatcherInv
  BY UdpImplies
<1>. QED
  BY <1>1, <1>2, <1>3, PTL DEF Spec

-----------------------------------------------------------------------------
(* FileWatch: the file observer.                                           *)

WatchKinds == {"MODIFY", "ATTRIB", "MOVE_SELF", "DELETE_SELF", "IGNORED"}
Event == [wd : Watches, kind : WatchKinds]
FilesTyped ==
  /\ wmade \in Nat /\ wat \in 0 .. wmade /\ whandle \in 0 .. wmade
  /\ wgone \subseteq 1 .. wmade /\ wleaked \subseteq 1 .. wmade /\ wat \notin wgone
InodesTyped ==
  /\ wadded \in 0 .. WMaxWatches /\ winode \in [Watches -> 0 .. wmade] /\ wslots \subseteq Watches
EventsTyped == wevents \in Seq(Event) /\ wread \in 0 .. Len(wevents)
ActorsTyped ==
  /\ wthread \in {"idle", "retry", "opened", "added", "ended", "crashed"}
  /\ wopener \in {"idle", "opened", "added"}
  /\ wnew \in [{"thread", "opener"} -> 0 .. WMaxWatches]
  /\ wtries \in 0 .. WTries /\ wlost \in BOOLEAN
  /\ wthread = "added" => wnew.thread \in Watches
  /\ wopener = "added" => wnew.opener \in Watches
WatchTyped == FilesTyped /\ InodesTyped /\ EventsTyped /\ ActorsTyped

(* What is reported, and of that what closes a handle.                     *)
Events(s) == {s[i] : i \in DOMAIN s}
Endings(s) == {e \in Events(s) : e.kind \in {"MOVE_SELF", "DELETE_SELF"}}

(* A file has one watch, numbers of watches are used once, and no ending is*)
(* reported of the file that has the name now.                             *)
OneWatchEach ==
  /\ \A v, w \in Watches : winode[v] = winode[w] /\ v # w => winode[v] = NoFile
  /\ \A w \in Watches : winode[w] # NoFile => w <= wadded
  /\ \A e \in Events(wevents) : e.wd <= wadded
EndingsOfOthers == wat # NoFile => \A e \in Endings(wevents) : winode[e.wd] # wat

(* A handle that nothing happened to unseen is the file that has the name, *)
(* and watched as far as who opened it came; or its end is reported of a   *)
(* watch whose entry is filled in, or is about to be.                      *)
WillClose(slots) == \E e \in Endings(wevents) : e.wd \in slots
Followed(w) == whandle = wat /\ winode[w] = wat
FollowsThread ==
  /\ wthread \in {"opened", "added"} => wopener = "idle"
  /\ wthread = "opened" => whandle = wat
  /\ wthread = "added" =>
       Followed(wnew.thread) \/ (whandle # wat /\ WillClose(wslots \cup {wnew.thread}))
FollowsOpener ==
  wthread \notin {"opened", "added"} =>
    /\ wopener = "opened" => whandle = wat
    /\ wopener = "added" => Followed(wnew.opener)
    /\ wopener = "idle" => \/ \E w \in wslots : Followed(w)
                           \/ whandle # wat /\ WillClose(wslots)
Follows ==
  /\ wthread \in {"opened", "added"} => whandle # NoFile
  /\ ~wlost /\ whandle # NoFile => FollowsThread /\ FollowsOpener

(* The thread waits without a handle before the first opening, or when it  *)
(* gave up.                                                                *)
GivenUp ==
  /\ (whandle = NoFile /\ wthread \in {"idle", "ended"} /\ wtries # WTries)
       => wslots = {} /\ wopener = "idle"
  /\ wthread = "crashed" => wtries = WTries

WatchIInv == WatchTyped /\ OneWatchEach /\ EndingsOfOthers /\ Follows /\ GivenUp

-----------------------------------------------------------------------------
(* What sequences of events hold.                                          *)
LEMMA EventsAreEvents ==
  ASSUME NEW s \in Seq(Event), NEW e \in Events(s)
  PROVE  e.wd \in Watches /\ e.kind \in WatchKinds
<1>1. e \in Event
  BY DEF Events
<1>. QED
  BY <1>1 DEF Event

LEMMA EventsAppend ==
  ASSUME NEW s \in Seq(Event), NEW t \in Seq(Event)
  PROVE  /\ s \o t \in Seq(Event) /\ Len(s) <= Len(s \o t) /\ Len(s) \in Nat
         /\ Len(s \o t) \in Nat
         /\ Events(s \o t) = Events(s) \cup Events(t)
         /\ Endings(s \o t) = Endings(s) \cup Endings(t)
<1>1. /\ s \o t \in Seq(Event) /\ Len(s \o t) = Len(s) + Len(t)
      /\ Len(s) \in Nat /\ Len(t) \in Nat
      /\ \A i \in 1 .. Len(s) : (s \o t)[i] = s[i]
      /\ \A i \in 1 .. Len(t) : (s \o t)[Len(s) + i] = t[i]
  OBVIOUS
<1>2. ASSUME NEW e \in Events(s \o t) PROVE e \in Events(s) \cup Events(t)
  <2>1. PICK i \in 1 .. Len(s) + Len(t) : e = (s \o t)[i]
    BY <1>1, <1>2 DEF Events
  <2>2. CASE i \in 1 .. Len(s)
    BY <2>1, <2>2, <1>1 DEF Events
  <2>3. CASE i - Len(s) \in 1 .. Len(t)
    <3>1. Len(s) + (i - Len(s)) = i
      BY <1>1
    <3>2. e = t[i - Len(s)]
      BY <2>1, <2>3, <3>1, <1>1
    <3>. QED
      BY <2>3, <3>2 DEF Events
  <2>. QED
    BY <2>2, <2>3, <1>1
<1>3. ASSUME NEW e \in Events(s) PROVE e \in Events(s \o t)
  <2>1. PICK i \in 1 .. Len(s) : e = s[i]
    BY <1>3 DEF Events
  <2>2. i \in DOMAIN (s \o t) /\ (s \o t)[i] = e
    BY <2>1, <1>1
  <2>. QED
    BY <2>2 DEF Events
<1>4. ASSUME NEW e \in Events(t) PROVE e \in Events(s \o t)
  <2>1. PICK i \in 1 .. Len(t) : e = t[i]
    BY <1>4 DEF Events
  <2>2. Len(s) + i \in DOMAIN (s \o t) /\ (s \o t)[Len(s) + i] = e
    BY <2>1, <1>1
  <2>. QED
    BY <2>2 DEF Events
<1>5. Events(s \o t) = Events(s) \cup Events(t)
  BY <1>2, <1>3, <1>4
<1>. QED
  BY <1>1, <1>5 DEF Endings

LEMMA EventsJoin ==
  ASSUME NEW s \in Seq(Event), NEW t \in Seq(Event), NEW u \in Seq(Event)
  PROVE  (s \o t) \o u = s \o (t \o u)
  BY ConcatAssociative

LEMMA EventsTail ==
  ASSUME NEW s \in Seq(Event), s # <<>>
  PROVE  /\ Tail(s) \in Seq(Event) /\ Len(Tail(s)) = Len(s) - 1 /\ Len(s) \in Nat
         /\ Head(s) \in Event /\ Head(s) \in Events(s)
         /\ Events(s) = Events(Tail(s)) \cup {Head(s)}
         /\ Endings(Tail(s)) \subseteq Endings(s)
         /\ Endings(s) \subseteq Endings(Tail(s)) \cup {Head(s)}
<1>1. /\ Tail(s) \in Seq(Event) /\ Len(Tail(s)) = Len(s) - 1
      /\ Head(s) = s[1] /\ Len(s) \in Nat /\ Len(s) # 0
      /\ \A i \in 1 .. Len(s) - 1 : Tail(s)[i] = s[i + 1]
  OBVIOUS
<1>2. Head(s) \in Event /\ Head(s) \in Events(s)
  BY <1>1 DEF Events
<1>3. ASSUME NEW e \in Events(s) PROVE e \in Events(Tail(s)) \cup {Head(s)}
  <2>1. PICK i \in 1 .. Len(s) : e = s[i]
    BY <1>3 DEF Events
  <2>2. CASE i # 1
    <3>1. i - 1 \in 1 .. Len(s) - 1 /\ (i - 1) + 1 = i
      BY <2>2, <1>1
    <3>2. i - 1 \in DOMAIN Tail(s) /\ Tail(s)[i - 1] = e
      BY <3>1, <2>1, <1>1
    <3>. QED
      BY <3>2 DEF Events
  <2>. QED
    BY <2>1, <2>2, <1>1
<1>4. ASSUME NEW e \in Events(Tail(s)) PROVE e \in Events(s)
  <2>1. PICK i \in 1 .. Len(s) - 1 : e = Tail(s)[i]
    BY <1>1, <1>4 DEF Events
  <2>2. i + 1 \in DOMAIN s /\ s[i + 1] = e
    BY <2>1, <1>1
  <2>. QED
    BY <2>2 DEF Events
<1>5. Events(s) = Events(Tail(s)) \cup {Head(s)}
  BY <1>2, <1>3, <1>4
<1>. QED
  BY <1>1, <1>2, <1>5 DEF Endings

LEMMA EventsFew ==
  /\ <<>> \in Seq(Event) /\ Events(<<>>) = {} /\ Endings(<<>>) = {}
  /\ \A w \in Watches, k \in WatchKinds :
       /\ Report(w, k) \in Seq(Event) /\ Events(Report(w, k)) = {[wd |-> w, kind |-> k]}
       /\ k \notin {"MOVE_SELF", "DELETE_SELF"} => Endings(Report(w, k)) = {}
       /\ k \in {"MOVE_SELF", "DELETE_SELF"} => Endings(Report(w, k)) = {[wd |-> w, kind |-> k]}
<1>1. <<>> \in Seq(Event) /\ Events(<<>>) = {}
  BY DEF Events
<1>2. ASSUME NEW w \in Watches, NEW k \in WatchKinds
      PROVE  Report(w, k) \in Seq(Event) /\ Events(Report(w, k)) = {[wd |-> w, kind |-> k]}
  <2>1. [wd |-> w, kind |-> k] \in Event
    BY DEF Event
  <2>. QED
    BY <2>1 DEF Report, Events
<1>. QED
  BY <1>1, <1>2 DEF Endings

(* What is reported of a file is of its watch.                             *)
LEMMA ReportsOfWatch ==
  ASSUME NEW f, NEW kind \in WatchKinds
  PROVE  /\ Reports(f, kind) \in Seq(Event)
         /\ \A e \in Events(Reports(f, kind)) : e.wd \in WatchOf(f) /\ e.kind = kind
         /\ WatchOf(f) # {} => \E w \in WatchOf(f) : [wd |-> w, kind |-> kind] \in Events(Reports(f, kind))
<1>1. WatchOf(f) \subseteq Watches
  BY DEF WatchOf
<1>2. CASE WatchOf(f) = {}
  BY <1>2, EventsFew DEF Reports
<1>3. CASE WatchOf(f) # {}
  <2>1. PICK w \in WatchOf(f) : Reports(f, kind) = Report(w, kind)
    BY <1>3 DEF Reports
  <2>. QED
    BY <2>1, <1>1, EventsFew
<1>. QED
  BY <1>2, <1>3

LEMMA WatchStarts == ASSUME WatchInit PROVE WatchIInv
<1>1. WatchTyped
  <2>1. WTries \in Nat /\ WMaxWatches \in Nat
    BY WatchConstants
  <2>2. FilesTyped /\ InodesTyped /\ ActorsTyped
    <3>1. FilesTyped
      BY DEF WatchInit, FilesTyped, NoFile
    <3>2. InodesTyped
      BY <2>1 DEF WatchInit, InodesTyped, NoFile
    <3>3. ActorsTyped
      <4>1. [thread |-> 0, opener |-> 0] \in [{"thread", "opener"} -> 0 .. WMaxWatches]
        BY <2>1
      <4>2. 0 \in 0 .. WTries
        BY <2>1
      <4>3. wthread = "idle" /\ wopener = "idle" /\ wtries = 0 /\ wlost = FALSE
        BY DEF WatchInit
      <4>4. wnew = [thread |-> 0, opener |-> 0]
        BY DEF WatchInit
      <4>. QED
        BY <4>1, <4>2, <4>3, <4>4 DEF ActorsTyped
    <3>. QED
      BY <3>1, <3>2, <3>3
  <2>3. EventsTyped
    BY EventsFew DEF WatchInit, EventsTyped
  <2>. QED
    BY <2>2, <2>3 DEF WatchTyped
<1>2. OneWatchEach /\ EndingsOfOthers
  BY EventsFew DEF WatchInit, OneWatchEach, EndingsOfOthers, NoFile
<1>3. Follows /\ GivenUp
  BY DEF WatchInit, Follows, GivenUp
<1>. QED
  BY <1>1, <1>2, <1>3 DEF WatchIInv

(* A part of the invariant depends on these variables alone.               *)
LEMMA WatchFrames ==
  ASSUME WatchIInv
  PROVE  /\ UNCHANGED <<wmade, wat, whandle, wgone, wleaked>> => FilesTyped'
         /\ UNCHANGED <<wadded, winode, wslots, wmade>> => InodesTyped'
         /\ UNCHANGED <<wevents, wread>> => EventsTyped'
         /\ UNCHANGED <<wthread, wopener, wnew, wtries, wlost>> => ActorsTyped'
         /\ UNCHANGED <<winode, wadded, wevents>> => OneWatchEach'
         /\ UNCHANGED <<wat, winode, wevents>> => EndingsOfOthers'
         /\ UNCHANGED <<wthread, wopener, whandle, wlost, wat, winode, wnew, wslots, wevents>>
              => Follows'
         /\ UNCHANGED <<wthread, wopener, whandle, wtries, wslots>> => GivenUp'
<1>1. /\ FilesTyped /\ InodesTyped /\ EventsTyped /\ ActorsTyped
      /\ OneWatchEach /\ EndingsOfOthers /\ Follows /\ GivenUp
  BY DEF WatchIInv, WatchTyped
<1>2. UNCHANGED <<wmade, wat, whandle, wgone, wleaked>> => FilesTyped'
  BY <1>1 DEF FilesTyped
<1>3. UNCHANGED <<wadded, winode, wslots, wmade>> => InodesTyped'
  BY <1>1 DEF InodesTyped
<1>4. UNCHANGED <<wevents, wread>> => EventsTyped'
  BY <1>1 DEF EventsTyped
<1>5. UNCHANGED <<wthread, wopener, wnew, wtries, wlost>> => ActorsTyped'
  BY <1>1 DEF ActorsTyped
<1>6. UNCHANGED <<winode, wadded, wevents>> => OneWatchEach'
  BY <1>1 DEF OneWatchEach
<1>7. UNCHANGED <<wat, winode, wevents>> => EndingsOfOthers'
  BY <1>1 DEF EndingsOfOthers
<1>8. UNCHANGED <<wthread, wopener, whandle, wlost, wat, winode, wnew, wslots, wevents>> => Follows'
  BY <1>1 DEF Follows, FollowsThread, FollowsOpener, Followed, WillClose
<1>9. UNCHANGED <<wthread, wopener, whandle, wtries, wslots>> => GivenUp'
  BY <1>1 DEF GivenUp
<1>. QED
  BY <1>2, <1>3, <1>4, <1>5, <1>6, <1>7, <1>8, <1>9

LEMMA WatchStutters == ASSUME WatchIInv, UNCHANGED watchVars PROVE WatchIInv'
<1>1. /\ UNCHANGED <<wmade, wat, whandle, wgone, wleaked, wadded, winode, wslots>>
      /\ UNCHANGED <<wevents, wread, wthread, wopener, wnew, wtries, wlost>>
  BY DEF watchVars
<1>. QED
  BY <1>1, WatchFrames DEF WatchIInv, WatchTyped

-----------------------------------------------------------------------------
(* What other programs do.                                                 *)
LEMMA WriteFileKeeps == ASSUME WatchIInv, WriteFile PROVE WatchIInv'
<1>. DEFINE more == Reports(wat, "MODIFY")
<1>1. /\ wevents' = wevents \o more
      /\ UNCHANGED <<wmade, wat, whandle, wgone, wleaked, wadded, winode, wslots>>
      /\ UNCHANGED <<wread, wthread, wopener, wnew, wtries, wlost>>
  BY DEF WriteFile, Rest, wfiles
<1>2. /\ WatchTyped /\ OneWatchEach /\ EndingsOfOthers /\ Follows /\ GivenUp
      /\ wevents \in Seq(Event)
  BY DEF WatchIInv, WatchTyped, EventsTyped
<1>3. /\ more \in Seq(Event)
      /\ \A e \in Events(more) : e.wd \in WatchOf(wat) /\ e.kind = "MODIFY"
  BY ReportsOfWatch DEF WatchKinds
<1>. HIDE DEF more
<1>4. Endings(more) = {}
  BY <1>3 DEF Endings
<1>5. /\ wevents' \in Seq(Event) /\ Len(wevents) <= Len(wevents') /\ Len(wevents) \in Nat
      /\ Len(wevents') \in Nat
      /\ Events(wevents') = Events(wevents) \cup Events(more)
      /\ Endings(wevents') = Endings(wevents)
  <2>1. Endings(wevents \o more) = Endings(wevents) \cup Endings(more)
    BY <1>2, <1>3, EventsAppend
  <2>. QED
    BY <2>1, <1>1, <1>2, <1>3, <1>4, EventsAppend
<1>6. EventsTyped'
  BY <1>1, <1>2, <1>5 DEF WatchTyped, EventsTyped
<1>7. OneWatchEach'
  BY <1>1, <1>2, <1>3, <1>5 DEF OneWatchEach, WatchOf
<1>8. EndingsOfOthers'
  BY <1>1, <1>2, <1>5 DEF EndingsOfOthers
<1>9. Follows'
  BY <1>1, <1>2, <1>5 DEF Follows, FollowsThread, FollowsOpener, Followed, WillClose
<1>. QED
  BY <1>1, <1>6, <1>7, <1>8, <1>9, WatchFrames DEF WatchIInv, WatchTyped

(* A file that is followed is moved away: its end is reported of the one   *)
(* watch it has.                                                           *)
LEMMA MoveAwayKeeps == ASSUME WatchIInv, MoveAway PROVE WatchIInv'
<1>. DEFINE more == Reports(wat, "MOVE_SELF")
<1>1. /\ wevents' = wevents \o more /\ wat # NoFile /\ wat' = NoFile
      /\ wlost' = (wlost \/ Unwatched)
      /\ UNCHANGED <<wmade, whandle, wgone, wleaked, wadded, winode, wslots>>
      /\ UNCHANGED <<wread, wthread, wopener, wnew, wtries>>
  BY DEF MoveAway, Rest
<1>2. /\ FilesTyped /\ InodesTyped /\ EventsTyped /\ ActorsTyped
      /\ OneWatchEach /\ EndingsOfOthers /\ Follows /\ GivenUp
      /\ wevents \in Seq(Event)
  BY DEF WatchIInv, WatchTyped, EventsTyped
<1>3. /\ more \in Seq(Event)
      /\ \A e \in Events(more) : e.wd \in WatchOf(wat) /\ e.kind = "MOVE_SELF"
      /\ WatchOf(wat) # {} => \E w \in WatchOf(wat) : [wd |-> w, kind |-> "MOVE_SELF"] \in Events(more)
  BY ReportsOfWatch DEF WatchKinds
<1>. HIDE DEF more
<1>4. ASSUME NEW w \in Watches, winode[w] = wat PROVE \E e \in Endings(more) : e.wd = w
  <2>1. w \in WatchOf(wat) /\ \A v \in WatchOf(wat) : v = w
    BY <1>1, <1>2, <1>4 DEF WatchOf, OneWatchEach
  <2>2. [wd |-> w, kind |-> "MOVE_SELF"] \in Events(more)
    BY <1>3, <2>1
  <2>3. [wd |-> w, kind |-> "MOVE_SELF"] \in Endings(more)
    BY <2>2 DEF Endings
  <2>. QED
    BY <2>3
<1>5. /\ wevents' \in Seq(Event) /\ Len(wevents) <= Len(wevents') /\ Len(wevents) \in Nat
      /\ Len(wevents') \in Nat
      /\ Events(wevents') = Events(wevents) \cup Events(more)
      /\ Endings(wevents') = Endings(wevents) \cup Endings(more)
  BY <1>1, <1>2, <1>3, EventsAppend
<1>6. FilesTyped' /\ EventsTyped' /\ ActorsTyped'
  <2>1. FilesTyped'
    BY <1>1, <1>2 DEF FilesTyped, NoFile
  <2>2. EventsTyped'
    BY <1>1, <1>2, <1>5 DEF EventsTyped
  <2>3. ActorsTyped'
    BY <1>1, <1>2 DEF ActorsTyped, Unwatched
  <2>. QED
    BY <2>1, <2>2, <2>3
<1>7. OneWatchEach' /\ EndingsOfOthers'
  BY <1>1, <1>2, <1>3, <1>5 DEF OneWatchEach, EndingsOfOthers, WatchOf
<1>8. Follows'
  <2>. SUFFICES ASSUME ~wlost, ~Unwatched, whandle # NoFile
                PROVE  FollowsThread' /\ FollowsOpener'
    BY <1>1, <1>2 DEF Follows
  <2>1. FollowsThread /\ FollowsOpener /\ wopener = "idle" /\ wthread # "opened"
    BY <1>2 DEF Follows, Unwatched
  <2>2. \A w \in Watches : Followed(w) => \E e \in Endings(wevents') : e.wd = w
    BY <1>4, <1>5 DEF Followed
  <2>3. FollowsThread'
    <3>. SUFFICES ASSUME wthread = "added"
                  PROVE  WillClose(wslots \cup {wnew.thread})'
      BY <1>1, <2>1 DEF FollowsThread
    <3>1. wnew.thread \in Watches
      BY <1>2 DEF ActorsTyped
    <3>2. CASE Followed(wnew.thread)
      BY <3>1, <3>2, <2>2, <1>1 DEF WillClose
    <3>3. CASE WillClose(wslots \cup {wnew.thread})
      BY <3>3, <1>1, <1>5 DEF WillClose
    <3>. QED
      BY <3>2, <3>3, <2>1 DEF FollowsThread
  <2>4. FollowsOpener'
    <3>. SUFFICES ASSUME wthread \notin {"opened", "added"}
                  PROVE  WillClose(wslots)'
      BY <1>1, <2>1 DEF FollowsOpener
    <3>1. CASE \E w \in wslots : Followed(w)
      BY <3>1, <2>2, <1>1, <1>2 DEF WillClose, InodesTyped
    <3>2. CASE WillClose(wslots)
      BY <3>2, <1>1, <1>5 DEF WillClose
    <3>. QED
      BY <3>1, <3>2, <2>1 DEF FollowsOpener
  <2>. QED
    BY <2>3, <2>4
<1>. QED
  BY <1>1, <1>6, <1>7, <1>8, WatchFrames DEF WatchIInv, WatchTyped

(* A file is removed or replaced: unless it is open its watch goes with it,*)
(* and the next one has no watch yet.                                      *)
LEMMA UnlinkKeeps ==
  ASSUME WatchIInv, RemoveFile \/ ReplaceFile
  PROVE  WatchIInv'
<1>0. PICK next : /\ Unlink(next)
                  /\ next = NoFile \/ next = wmade + 1
                  /\ wmade' = IF next = NoFile THEN wmade ELSE wmade + 1
  <2>1. wmade \in Nat
    BY DEF WatchIInv, WatchTyped, FilesTyped
  <2>. QED
    BY <2>1 DEF RemoveFile, ReplaceFile, NoFile
<1>1. /\ wat # NoFile /\ wat' = next /\ wgone' = wgone \cup {wat}
      /\ wlost' = (wlost \/ Unwatched \/ wat = whandle \/ wat \in wleaked)
      /\ UNCHANGED <<whandle, wleaked, wadded, wslots>>
      /\ UNCHANGED <<wread, wthread, wopener, wnew, wtries>>
  <2>1. wat # NoFile /\ wat' = next /\ wgone' = wgone \cup {wat} /\ Rest
    BY <1>0 DEF Unlink
  <2>2. wlost' = (wlost \/ Unwatched \/ wat = whandle \/ wat \in wleaked)
    BY <1>0 DEF Unlink
  <2>. QED
    BY <2>1, <2>2 DEF Rest
<1>2. /\ FilesTyped /\ InodesTyped /\ EventsTyped /\ ActorsTyped
      /\ OneWatchEach /\ EndingsOfOthers /\ Follows /\ GivenUp
      /\ wevents \in Seq(Event) /\ wmade \in Nat /\ wmade' \in Nat /\ wmade <= wmade'
  BY <1>0 DEF WatchIInv, WatchTyped, EventsTyped, FilesTyped
<1>3. PICK more \in Seq(Event) :
        /\ wevents' = wevents \o more
        /\ \A e \in Events(more) : e.wd \in WatchOf(wat)
  <2>1. /\ Reports(wat, "ATTRIB") \in Seq(Event) /\ Reports(wat, "DELETE_SELF") \in Seq(Event)
        /\ Reports(wat, "IGNORED") \in Seq(Event)
        /\ \A e \in Events(Reports(wat, "ATTRIB")) : e.wd \in WatchOf(wat)
        /\ \A e \in Events(Reports(wat, "DELETE_SELF")) : e.wd \in WatchOf(wat)
        /\ \A e \in Events(Reports(wat, "IGNORED")) : e.wd \in WatchOf(wat)
    BY ReportsOfWatch DEF WatchKinds
  <2>2. /\ Gone(wat) \in Seq(Event) /\ \A e \in Events(Gone(wat)) : e.wd \in WatchOf(wat)
    BY <2>1, EventsAppend DEF Gone
  <2>3. /\ Reports(wat, "ATTRIB") \o Gone(wat) \in Seq(Event)
        /\ \A e \in Events(Reports(wat, "ATTRIB") \o Gone(wat)) : e.wd \in WatchOf(wat)
    BY <2>1, <2>2, EventsAppend
  <2>4. (wevents \o Reports(wat, "ATTRIB")) \o Gone(wat)
          = wevents \o (Reports(wat, "ATTRIB") \o Gone(wat))
    BY <2>1, <2>2, <1>2, ConcatAssociative
  <2>. QED
    <3>1. \/ wevents' = wevents \o Reports(wat, "ATTRIB")
          \/ wevents' = (wevents \o Reports(wat, "ATTRIB")) \o Gone(wat)
      BY <1>0 DEF Unlink
    <3>. QED
      BY <3>1, <2>1, <2>3, <2>4
<1>4. /\ winode' \in [Watches -> 0 .. wmade]
      /\ \A w \in Watches : winode'[w] = winode[w] \/ winode'[w] = NoFile
  <2>1. winode' = winode \/ winode' = WithoutWatch(wat)
    BY <1>0 DEF Unlink
  <2>. QED
    BY <2>1, <1>2 DEF WithoutWatch, InodesTyped, NoFile
<1>5. /\ wevents' \in Seq(Event) /\ Len(wevents) <= Len(wevents') /\ Len(wevents) \in Nat
      /\ Len(wevents') \in Nat
      /\ Events(wevents') = Events(wevents) \cup Events(more)
      /\ Endings(wevents') = Endings(wevents) \cup Endings(more)
  BY <1>2, <1>3, EventsAppend
<1>6. FilesTyped' /\ InodesTyped' /\ EventsTyped' /\ ActorsTyped'
  <2>1. FilesTyped'
    BY <1>0, <1>1, <1>2 DEF FilesTyped, NoFile
  <2>2. InodesTyped'
    BY <1>1, <1>2, <1>4 DEF InodesTyped
  <2>3. EventsTyped'
    BY <1>1, <1>2, <1>5 DEF EventsTyped
  <2>4. ActorsTyped'
    BY <1>1, <1>2 DEF ActorsTyped, Unwatched
  <2>. QED
    BY <2>1, <2>2, <2>3, <2>4
<1>7. OneWatchEach'
  <2>1. \A v, w \in Watches : winode'[v] = winode'[w] /\ v # w => winode'[v] = NoFile
    BY <1>2, <1>4 DEF OneWatchEach
  <2>2. \A w \in Watches : winode'[w] # NoFile => w <= wadded
    BY <1>2, <1>4 DEF OneWatchEach
  <2>3. \A e \in Events(wevents') : e.wd <= wadded
    BY <1>1, <1>2, <1>3, <1>5 DEF OneWatchEach, WatchOf
  <2>. QED
    BY <2>1, <2>2, <2>3, <1>1 DEF OneWatchEach
<1>8. EndingsOfOthers'
  <2>. SUFFICES ASSUME next = wmade + 1, NEW e \in Endings(wevents')
                PROVE  winode'[e.wd] # wmade + 1
    BY <1>0, <1>1 DEF EndingsOfOthers
  <2>1. e.wd \in Watches
    BY <1>5, EventsAreEvents DEF Endings
  <2>2. winode'[e.wd] \in 0 .. wmade
    BY <2>1, <1>4
  <2>. QED
    BY <2>2, <1>2
<1>9. Follows'
  <2>. SUFFICES ASSUME ~wlost, ~Unwatched, whandle # NoFile, whandle # wat
                PROVE  FollowsThread' /\ FollowsOpener'
    BY <1>1, <1>2 DEF Follows
  <2>1. FollowsThread /\ FollowsOpener /\ wopener = "idle" /\ wthread # "opened"
    BY <1>2 DEF Follows, Unwatched
  <2>2. whandle # wat'
    BY <1>0, <1>1, <1>2 DEF FilesTyped
  <2>3. \A slots : WillClose(slots) => WillClose(slots)'
    BY <1>5 DEF WillClose
  <2>4. FollowsThread'
    BY <2>1, <2>2, <2>3, <1>1 DEF FollowsThread, Followed
  <2>5. FollowsOpener'
    BY <2>1, <2>2, <2>3, <1>1 DEF FollowsOpener, Followed
  <2>. QED
    BY <2>4, <2>5
<1>. QED
  BY <1>1, <1>6, <1>7, <1>8, <1>9, WatchFrames DEF WatchIInv, WatchTyped

LEMMA CreateFileKeeps == ASSUME WatchIInv, CreateFile PROVE WatchIInv'
<1>1. /\ wat = NoFile /\ wat' = wmade + 1 /\ wmade' = wmade + 1
      /\ UNCHANGED <<whandle, wgone, wleaked, wadded, winode, wslots>>
      /\ UNCHANGED <<wevents, wread, wthread, wopener, wnew, wtries, wlost>>
  BY DEF CreateFile, Rest
<1>2. FilesTyped /\ InodesTyped /\ EventsTyped /\ EndingsOfOthers /\ Follows /\ wmade \in Nat
  BY DEF WatchIInv, WatchTyped, FilesTyped
<1>3. FilesTyped'
  BY <1>1, <1>2 DEF FilesTyped
<1>4. InodesTyped'
  BY <1>1, <1>2 DEF InodesTyped
<1>5. EndingsOfOthers'
  <2>. SUFFICES ASSUME NEW e \in Endings(wevents) PROVE winode[e.wd] # wmade + 1
    BY <1>1 DEF EndingsOfOthers
  <2>1. e.wd \in Watches
    BY <1>2, EventsAreEvents DEF Endings, EventsTyped
  <2>2. winode[e.wd] \in 0 .. wmade
    BY <2>1, <1>2 DEF InodesTyped
  <2>. QED
    BY <2>2, <1>2
<1>6. Follows'
  <2>. SUFFICES ASSUME ~wlost, whandle # NoFile
                PROVE  FollowsThread' /\ FollowsOpener'
    BY <1>1, <1>2 DEF Follows
  <2>1. FollowsThread /\ FollowsOpener /\ whandle # wat /\ whandle # wat'
    BY <1>1, <1>2 DEF Follows, FilesTyped
  <2>2. \A slots : WillClose(slots)' <=> WillClose(slots)
    BY <1>1 DEF WillClose
  <2>3. FollowsThread'
    BY <2>1, <2>2, <1>1 DEF FollowsThread, Followed
  <2>4. FollowsOpener'
    BY <2>1, <2>2, <1>1 DEF FollowsOpener, Followed
  <2>. QED
    BY <2>3, <2>4
<1>. QED
  BY <1>1, <1>3, <1>4, <1>5, <1>6, WatchFrames DEF WatchIInv, WatchTyped

-----------------------------------------------------------------------------
(* A watch is asked for: it is of the file that has the name, and the      *)
(* files that were watched still are.                                      *)
LEMMA AddWatchKeeps ==
  ASSUME WatchIInv, NEW w \in Watches, AddWatch(w), UNCHANGED <<wat, wmade>>,
         Events(wevents') \subseteq Events(wevents)
  PROVE  /\ wat # NoFile /\ winode'[w] = wat
         /\ wadded' \in 0 .. WMaxWatches /\ winode' \in [Watches -> 0 .. wmade]
         /\ \A v \in Watches : winode[v] = wat => winode'[v] = wat
         /\ OneWatchEach' /\ EndingsOfOthers'
<1>1. /\ FilesTyped /\ InodesTyped /\ EventsTyped /\ OneWatchEach /\ EndingsOfOthers
      /\ wat # NoFile
  BY DEF WatchIInv, WatchTyped, AddWatch
<1>2. Endings(wevents') \subseteq Endings(wevents)
  BY DEF Endings
<1>3. CASE WatchOf(wat) # {}
  <2>1. w \in WatchOf(wat) /\ UNCHANGED <<winode, wadded>>
    BY <1>3 DEF AddWatch
  <2>2. winode[w] = wat
    BY <2>1 DEF WatchOf
  <2>3. OneWatchEach'
    BY <2>1, <1>1 DEF OneWatchEach
  <2>4. EndingsOfOthers'
    BY <2>1, <1>1, <1>2 DEF EndingsOfOthers
  <2>. QED
    BY <2>1, <2>2, <2>3, <2>4, <1>1 DEF InodesTyped
<1>4. CASE WatchOf(wat) = {}
  <2>1. /\ wadded < WMaxWatches /\ w = wadded + 1 /\ wadded' = w
        /\ winode' = [winode EXCEPT ![w] = wat]
    BY <1>4 DEF AddWatch
  <2>2. wadded \in Nat /\ WMaxWatches \in Nat
    BY <1>1, WatchConstants DEF InodesTyped
  <2>3. /\ winode'[w] = wat /\ \A v \in Watches \ {w} : winode'[v] = winode[v]
        /\ wadded' \in 0 .. WMaxWatches /\ winode' \in [Watches -> 0 .. wmade]
    BY <2>1, <2>2, <1>1 DEF InodesTyped, FilesTyped
  <2>4. \A v \in Watches : winode[v] # wat
    BY <1>1, <1>4 DEF WatchOf
  <2>5. OneWatchEach'
    <3>1. \A u, v \in Watches : winode'[u] = winode'[v] /\ u # v => winode'[u] = NoFile
      BY <2>3, <2>4, <1>1 DEF OneWatchEach
    <3>2. \A v \in Watches : winode'[v] # NoFile => v <= wadded'
      BY <2>1, <2>2, <2>3, <1>1 DEF OneWatchEach, Watches
    <3>3. \A e \in Events(wevents') : e.wd <= wadded'
      <4>1. \A e \in Events(wevents') : e.wd \in Watches /\ e.wd <= wadded
        BY <1>1, EventsAreEvents DEF OneWatchEach, EventsTyped
      <4>. QED
        BY <4>1, <2>1, <2>2 DEF Watches
    <3>. QED
      BY <3>1, <3>2, <3>3 DEF OneWatchEach
  <2>6. EndingsOfOthers'
    <3>. SUFFICES ASSUME NEW e \in Endings(wevents') PROVE winode'[e.wd] # wat
      BY DEF EndingsOfOthers
    <3>1. e \in Endings(wevents) /\ e \in Events(wevents)
      BY <1>2 DEF Endings
    <3>2. e.wd \in Watches /\ e.wd <= wadded
      BY <3>1, <1>1, EventsAreEvents DEF OneWatchEach, EventsTyped
    <3>3. e.wd # w
      BY <3>2, <2>1, <2>2 DEF Watches
    <3>. QED
      BY <3>1, <3>2, <3>3, <2>3, <2>4
  <2>. QED
    BY <2>3, <2>4, <2>5, <2>6, <1>1
<1>. QED
  BY <1>3, <1>4

(* The application.                                                        *)
LEMMA OpenFileKeeps == ASSUME WatchIInv, OpenFile PROVE WatchIInv'
<1>1. /\ wopener = "idle" /\ whandle = NoFile /\ wat # NoFile /\ whandle' = wat
      /\ wopener' = "opened"
      /\ UNCHANGED <<wmade, wat, wgone, wleaked, wadded, winode, wslots>>
      /\ UNCHANGED <<wevents, wread, wthread, wnew, wtries, wlost>>
  BY DEF OpenFile, wfiles, wkernel
<1>2. FilesTyped /\ ActorsTyped /\ Follows /\ wthread \notin {"opened", "added"}
  BY <1>1 DEF WatchIInv, WatchTyped, Follows
<1>3. FilesTyped' /\ ActorsTyped'
  BY <1>1, <1>2 DEF FilesTyped, ActorsTyped
<1>4. Follows'
  BY <1>1, <1>2 DEF Follows, FollowsThread, FollowsOpener
<1>5. GivenUp'
  BY <1>1, <1>2 DEF WatchIInv, GivenUp
<1>. QED
  BY <1>1, <1>3, <1>4, <1>5, WatchFrames DEF WatchIInv, WatchTyped

LEMMA OpenerWatchesKeeps == ASSUME WatchIInv, OpenerWatches PROVE WatchIInv'
<1>1. /\ wopener = "opened"
      /\ UNCHANGED <<wmade, wat, whandle, wgone, wleaked, wslots>>
      /\ UNCHANGED <<wevents, wread, wthread, wtries, wlost>>
  BY DEF OpenerWatches, wfiles
<1>2. /\ FilesTyped /\ InodesTyped /\ ActorsTyped /\ Follows /\ GivenUp
  BY <1>1 DEF WatchIInv, WatchTyped
<1>3. ASSUME ~wlost, whandle # NoFile
      PROVE  wthread \notin {"opened", "added"} /\ whandle = wat
  BY <1>1, <1>2, <1>3 DEF Follows, FollowsThread, FollowsOpener
<1>4. GivenUp'
  BY <1>1, <1>2 DEF GivenUp
<1>5. CASE Registers("opener") /\ wopener' = "added"
  <2>1. PICK w \in Watches : AddWatch(w) /\ wnew' = [wnew EXCEPT !["opener"] = w]
    BY <1>5 DEF Registers
  <2>2. wnew'.opener = w /\ wnew'.thread = wnew.thread
        /\ wnew' \in [{"thread", "opener"} -> 0 .. WMaxWatches]
    BY <2>1, <1>2, WatchConstants DEF ActorsTyped, Watches
  <2>3. /\ wat # NoFile /\ winode'[w] = wat
        /\ wadded' \in 0 .. WMaxWatches /\ winode' \in [Watches -> 0 .. wmade]
        /\ OneWatchEach' /\ EndingsOfOthers'
    BY <2>1, <1>1, AddWatchKeeps
  <2>4. InodesTyped' /\ ActorsTyped'
    BY <1>1, <1>2, <1>5, <2>2, <2>3 DEF InodesTyped, ActorsTyped
  <2>5. Follows'
    BY <1>1, <1>2, <1>3, <1>5, <2>2, <2>3 DEF Follows, FollowsThread, FollowsOpener, Followed
  <2>. QED
    BY <1>1, <1>4, <2>3, <2>4, <2>5, WatchFrames DEF WatchIInv, WatchTyped
<1>6. CASE RegisterFails("opener") /\ wopener' = "idle"
  <2>1. wat = NoFile /\ UNCHANGED <<winode, wadded, wnew>>
    BY <1>6 DEF RegisterFails
  <2>2. ActorsTyped'
    BY <1>1, <1>2, <1>6, <2>1 DEF ActorsTyped
  <2>3. Follows'
    BY <1>1, <1>2, <1>3, <2>1 DEF Follows
  <2>. QED
    BY <1>1, <1>4, <2>1, <2>2, <2>3, WatchFrames DEF WatchIInv, WatchTyped
<1>. QED
  BY <1>5, <1>6 DEF OpenerWatches

LEMMA OpenerFillsKeeps == ASSUME WatchIInv, OpenerFills PROVE WatchIInv'
<1>1. /\ wopener = "added" /\ wopener' = "idle" /\ wslots' = wslots \cup {wnew.opener}
      /\ UNCHANGED <<wmade, wat, whandle, wgone, wleaked, winode, wadded>>
      /\ UNCHANGED <<wevents, wread, wthread, wnew, wtries, wlost>>
  BY DEF OpenerFills, wfiles, wkernel
<1>2. InodesTyped /\ ActorsTyped /\ Follows /\ GivenUp /\ wnew.opener \in Watches
  BY <1>1 DEF WatchIInv, WatchTyped, ActorsTyped
<1>3. InodesTyped' /\ ActorsTyped'
  BY <1>1, <1>2 DEF InodesTyped, ActorsTyped
<1>4. Follows'
  BY <1>1, <1>2 DEF Follows, FollowsThread, FollowsOpener, Followed
<1>5. GivenUp'
  BY <1>1, <1>2 DEF GivenUp
<1>. QED
  BY <1>1, <1>3, <1>4, <1>5, WatchFrames DEF WatchIInv, WatchTyped

-----------------------------------------------------------------------------
(* The thread: it reads the events, and ends when it is told to.           *)
LEMMA ReadingKeeps ==
  ASSUME WatchIInv, ReadEvents \/ StopThread \/ AbortThread
  PROVE  WatchIInv'
<1>1. /\ UNCHANGED <<wmade, wat, whandle, wgone, wleaked, wadded, winode, wslots>>
      /\ UNCHANGED <<wevents, wopener, wnew, wtries, wlost>>
  BY DEF ReadEvents, StopThread, AbortThread, wfiles, wkernel
<1>2. EventsTyped /\ ActorsTyped /\ Follows /\ GivenUp
  BY DEF WatchIInv, WatchTyped
<1>3. \/ UNCHANGED wread /\ UNCHANGED wthread
      \/ UNCHANGED wthread /\ wread' = Len(wevents)
      \/ UNCHANGED wread /\ wthread = "idle" /\ wthread' = "ended"
  BY DEF ReadEvents, StopThread, AbortThread
<1>4. EventsTyped'
  BY <1>1, <1>2, <1>3 DEF EventsTyped
<1>5. ActorsTyped' /\ Follows' /\ GivenUp'
  <2>1. CASE UNCHANGED wthread
    BY <2>1, <1>1, WatchFrames
  <2>2. CASE wthread = "idle" /\ wthread' = "ended"
    <3>1. ActorsTyped'
      BY <2>2, <1>1, <1>2 DEF ActorsTyped
    <3>2. Follows'
      BY <2>2, <1>1, <1>2 DEF Follows, FollowsThread, FollowsOpener, Followed, WillClose
    <3>3. GivenUp'
      BY <2>2, <1>1, <1>2 DEF GivenUp
    <3>. QED
      BY <3>1, <3>2, <3>3
  <2>. QED
    BY <2>1, <2>2, <1>3
<1>. QED
  BY <1>1, <1>4, <1>5, WatchFrames DEF WatchIInv, WatchTyped

(* What an event that is taken leaves.                                     *)
LEMMA NextEventTaken ==
  ASSUME WatchIInv, NEW kinds, NextEvent(kinds)
  PROVE  /\ wthread = "idle" /\ wevents # <<>>
         /\ Head(wevents).kind \in kinds
         /\ Head(wevents).wd \in Watches /\ Head(wevents).wd <= wadded
         /\ Head(wevents) \in Events(wevents)
         /\ Tail(wevents) \in Seq(Event) /\ wread' \in 0 .. Len(Tail(wevents))
         /\ Events(wevents) = Events(Tail(wevents)) \cup {Head(wevents)}
         /\ Endings(Tail(wevents)) \subseteq Endings(wevents)
         /\ Endings(wevents) \subseteq Endings(Tail(wevents)) \cup {Head(wevents)}
<1>1. /\ wthread = "idle" /\ wread > 0 /\ Head(wevents).kind \in kinds /\ wread' = wread - 1
      /\ wevents \in Seq(Event) /\ wread \in 0 .. Len(wevents) /\ OneWatchEach
  BY DEF NextEvent, WatchIInv, WatchTyped, EventsTyped
<1>2. wevents # <<>>
  BY <1>1
<1>3. /\ Tail(wevents) \in Seq(Event) /\ Len(Tail(wevents)) = Len(wevents) - 1
      /\ Len(wevents) \in Nat /\ Head(wevents) \in Events(wevents)
      /\ Events(wevents) = Events(Tail(wevents)) \cup {Head(wevents)}
      /\ Endings(Tail(wevents)) \subseteq Endings(wevents)
      /\ Endings(wevents) \subseteq Endings(Tail(wevents)) \cup {Head(wevents)}
  BY <1>1, <1>2, EventsTail
<1>4. Head(wevents).wd \in Watches
  BY <1>1, <1>3, EventsAreEvents
<1>5. Head(wevents).wd <= wadded
  BY <1>1, <1>3 DEF OneWatchEach
<1>6. wread' \in 0 .. Len(Tail(wevents))
  BY <1>1, <1>3
<1>. QED
  BY <1>1, <1>2, <1>3, <1>4, <1>5, <1>6

LEMMA ChangedKeeps == ASSUME WatchIInv, Changed PROVE WatchIInv'
<1>1. /\ NextEvent({"MODIFY", "ATTRIB"}) /\ wevents' = Tail(wevents)
      /\ UNCHANGED <<wmade, wat, whandle, wgone, wleaked, wadded, winode, wslots>>
      /\ UNCHANGED <<wthread, wopener, wnew, wtries, wlost>>
  BY DEF Changed, wfiles
<1>2. /\ Head(wevents).kind \in {"MODIFY", "ATTRIB"}
      /\ wevents' \in Seq(Event) /\ wread' \in 0 .. Len(wevents')
      /\ Events(wevents') \subseteq Events(wevents)
      /\ Endings(wevents') \subseteq Endings(wevents)
      /\ Endings(wevents) \subseteq Endings(wevents') \cup {Head(wevents)}
  BY <1>1, NextEventTaken
<1>3. Endings(wevents') = Endings(wevents)
  BY <1>2 DEF Endings
<1>4. OneWatchEach /\ EndingsOfOthers /\ Follows
  BY DEF WatchIInv
<1>5. EventsTyped'
  BY <1>2 DEF EventsTyped
<1>6. OneWatchEach' /\ EndingsOfOthers'
  BY <1>1, <1>2, <1>3, <1>4 DEF OneWatchEach, EndingsOfOthers
<1>7. Follows'
  BY <1>1, <1>3, <1>4 DEF Follows, FollowsThread, FollowsOpener, Followed, WillClose
<1>. QED
  BY <1>1, <1>5, <1>6, <1>7, WatchFrames DEF WatchIInv, WatchTyped

(* An ending: the watch goes, and if its entry is filled in the handle is  *)
(* closed, with the last watch it has.  Else nothing that is followed loses*)
(* its watch.                                                              *)
LEMMA DeletedKeeps == ASSUME WatchIInv, Deleted PROVE WatchIInv'
<1>0. PICK w, inodes, ignored :
        /\ w = Head(wevents).wd
        /\ ignored = IF winode[w] = NoFile THEN <<>> ELSE Report(w, "IGNORED")
        /\ inodes = [winode EXCEPT ![w] = NoFile]
  OBVIOUS
<1>1. /\ NextEvent({"DELETE_SELF", "MOVE_SELF"})
      /\ UNCHANGED <<wmade, wat, wgone, wadded, wslots, wleaked, wopener, wnew, wlost>>
      /\ IF Told(w) /\ whandle # NoFile
         THEN CloseHandle(inodes, ignored) /\ wthread' = "retry" /\ wtries' = 0
         ELSE /\ winode' = inodes /\ wevents' = Tail(wevents) \o ignored
              /\ wthread' = IF Told(w) THEN "crashed" ELSE "idle"
              /\ UNCHANGED <<whandle, wtries>>
  BY <1>0 DEF Deleted, wfiles
<1>2. /\ FilesTyped /\ InodesTyped /\ EventsTyped /\ ActorsTyped
      /\ OneWatchEach /\ EndingsOfOthers /\ Follows /\ GivenUp
  BY DEF WatchIInv, WatchTyped
<1>3. /\ wthread = "idle" /\ w \in Watches /\ w <= wadded
      /\ Head(wevents).kind \in {"DELETE_SELF", "MOVE_SELF"}
      /\ Head(wevents) \in Events(wevents)
      /\ Tail(wevents) \in Seq(Event) /\ wread' \in 0 .. Len(Tail(wevents))
      /\ Events(wevents) = Events(Tail(wevents)) \cup {Head(wevents)}
      /\ Endings(Tail(wevents)) \subseteq Endings(wevents)
      /\ Endings(wevents) \subseteq Endings(Tail(wevents)) \cup {Head(wevents)}
  BY <1>0, <1>1, NextEventTaken
<1>4. Head(wevents) \in Endings(wevents)
  BY <1>3 DEF Endings
<1>5. /\ inodes \in [Watches -> 0 .. wmade] /\ inodes[w] = NoFile
      /\ \A v \in Watches \ {w} : inodes[v] = winode[v]
  BY <1>0, <1>2, <1>3 DEF InodesTyped, FilesTyped, NoFile
<1>6. /\ ignored \in Seq(Event) /\ Endings(ignored) = {}
      /\ \A e \in Events(ignored) : e.wd = w
  BY <1>0, <1>3, EventsFew DEF WatchKinds
<1>7. /\ Tail(wevents) \o ignored \in Seq(Event)
      /\ Len(Tail(wevents)) \in Nat /\ Len(Tail(wevents)) <= Len(Tail(wevents) \o ignored)
      /\ Len(Tail(wevents) \o ignored) \in Nat
      /\ Events(Tail(wevents) \o ignored) = Events(Tail(wevents)) \cup Events(ignored)
      /\ Endings(Tail(wevents) \o ignored) = Endings(Tail(wevents))
  <2>1. Endings(Tail(wevents) \o ignored) = Endings(Tail(wevents)) \cup Endings(ignored)
    BY <1>3, <1>6, EventsAppend
  <2>. QED
    BY <2>1, <1>3, <1>6, EventsAppend
<1>8. CASE Told(w) /\ whandle # NoFile
  <2>1. /\ CloseHandle(inodes, ignored) /\ wthread' = "retry" /\ wtries' = 0
        /\ whandle' = NoFile
    BY <1>1, <1>8 DEF CloseHandle
  <2>2. PICK more \in Seq(Event) :
          /\ wevents' = (Tail(wevents) \o ignored) \o more
          /\ winode' \in [Watches -> 0 .. wmade]
          /\ \A v \in Watches : winode'[v] = winode[v] \/ winode'[v] = NoFile
          /\ \A e \in Events(more) : e.wd \in Watches /\ e.wd <= wadded /\ winode'[e.wd] = NoFile
    <3>. DEFINE Of(v) == inodes[v] = whandle
                last == /\ whandle \in wgone /\ whandle \notin wleaked
                        /\ \E v \in Watches : Of(v)
                u == CHOOSE v \in Watches : Of(v)
    <3>1. CASE last
      <4>1. u \in Watches /\ inodes[u] = whandle
        BY <3>1
      <4>2. /\ winode' = [inodes EXCEPT ![u] = NoFile]
            /\ wevents' = Tail(wevents) \o ignored
                            \o Report(u, "DELETE_SELF") \o Report(u, "IGNORED")
        BY <2>1, <3>1 DEF CloseHandle
      <4>. HIDE DEF u
      <4>3. u # w /\ winode[u] = whandle /\ u <= wadded
        BY <4>1, <1>2, <1>5, <1>8 DEF OneWatchEach
      <4>4. /\ winode' \in [Watches -> 0 .. wmade] /\ winode'[u] = NoFile
            /\ \A v \in Watches : winode'[v] = winode[v] \/ winode'[v] = NoFile
        BY <4>1, <4>2, <1>5, <1>2 DEF FilesTyped, NoFile
      <4>5. /\ Report(u, "DELETE_SELF") \in Seq(Event) /\ Report(u, "IGNORED") \in Seq(Event)
            /\ \A e \in Events(Report(u, "DELETE_SELF")) : e.wd = u
            /\ \A e \in Events(Report(u, "IGNORED")) : e.wd = u
        BY <4>1, EventsFew DEF WatchKinds
      <4>6. /\ Report(u, "DELETE_SELF") \o Report(u, "IGNORED") \in Seq(Event)
            /\ \A e \in Events(Report(u, "DELETE_SELF") \o Report(u, "IGNORED")) : e.wd = u
        BY <4>5, EventsAppend
      <4>7. wevents' = (Tail(wevents) \o ignored)
                         \o (Report(u, "DELETE_SELF") \o Report(u, "IGNORED"))
        <5>1. PICK s \in Seq(Event), r1 \in Seq(Event), r2 \in Seq(Event) :
                /\ s = Tail(wevents) \o ignored
                /\ r1 = Report(u, "DELETE_SELF") /\ r2 = Report(u, "IGNORED")
          BY <4>5, <1>7
        <5>2. (s \o r1) \o r2 = s \o (r1 \o r2)
          BY EventsJoin
        <5>3. wevents' = (s \o r1) \o r2
          BY <4>2, <5>1
        <5>. QED
          BY <5>1, <5>2, <5>3
      <4>. QED
        BY <4>1, <4>3, <4>4, <4>6, <4>7
    <3>2. CASE ~last
      <4>1. winode' = inodes /\ wevents' = Tail(wevents) \o ignored
        BY <2>1, <3>2 DEF CloseHandle
      <4>2. (Tail(wevents) \o ignored) \o <<>> = Tail(wevents) \o ignored
        BY <1>7
      <4>. QED
        BY <4>1, <4>2, <1>5, EventsFew
    <3>. QED
      BY <3>1, <3>2
  <2>3. /\ wevents' \in Seq(Event) /\ Len(Tail(wevents)) <= Len(wevents') /\ Len(wevents') \in Nat
        /\ Events(wevents') = Events(Tail(wevents) \o ignored) \cup Events(more)
        /\ Endings(wevents') = Endings(Tail(wevents)) \cup Endings(more)
    <3>1. PICK s \in Seq(Event) : s = Tail(wevents) \o ignored
      BY <1>7
    <3>2. /\ s \o more \in Seq(Event) /\ Len(s \o more) = Len(s) + Len(more)
          /\ Events(s \o more) = Events(s) \cup Events(more)
          /\ Endings(s \o more) = Endings(s) \cup Endings(more)
      BY EventsAppend
    <3>3. Len(more) \in Nat /\ Len(s) \in Nat
      OBVIOUS
    <3>4. wevents' = s \o more
      BY <2>2, <3>1
    <3>. QED
      BY <3>1, <3>2, <3>3, <3>4, <1>7
  <2>4. FilesTyped' /\ InodesTyped' /\ EventsTyped' /\ ActorsTyped'
    <3>1. FilesTyped'
      BY <2>1, <1>1, <1>2 DEF FilesTyped, NoFile
    <3>2. InodesTyped'
      BY <2>2, <1>1, <1>2 DEF InodesTyped
    <3>3. EventsTyped'
      BY <2>3, <1>3, <1>7 DEF EventsTyped
    <3>4. ActorsTyped'
      BY <2>1, <1>1, <1>2, WatchConstants DEF ActorsTyped
    <3>. QED
      BY <3>1, <3>2, <3>3, <3>4
  <2>5. OneWatchEach'
    <3>1. \A e \in Events(wevents') : e.wd <= wadded
      BY <2>2, <2>3, <1>2, <1>3, <1>6, <1>7 DEF OneWatchEach
    <3>. QED
      BY <3>1, <2>2, <1>1, <1>2 DEF OneWatchEach
  <2>6. EndingsOfOthers'
    <3>. SUFFICES ASSUME wat # NoFile, NEW e \in Endings(wevents')
                  PROVE  winode'[e.wd] # wat
      BY <1>1 DEF EndingsOfOthers
    <3>1. CASE e \in Endings(more)
      BY <3>1, <2>2 DEF Endings
    <3>2. CASE e \in Endings(Tail(wevents))
      <4>1. e \in Endings(wevents) /\ e \in Events(wevents)
        BY <3>2, <1>3 DEF Endings
      <4>2. e.wd \in Watches
        BY <4>1, <1>2, EventsAreEvents DEF EventsTyped
      <4>. QED
        BY <4>1, <4>2, <2>2, <1>2 DEF EndingsOfOthers
    <3>. QED
      BY <3>1, <3>2, <2>3
  <2>7. Follows' /\ GivenUp'
    BY <2>1 DEF Follows, GivenUp
  <2>. QED
    BY <2>4, <2>5, <2>6, <2>7 DEF WatchIInv, WatchTyped
<1>9. CASE ~(Told(w) /\ whandle # NoFile)
  <2>1. /\ winode' = inodes /\ wevents' = Tail(wevents) \o ignored
        /\ wthread' = IF Told(w) THEN "crashed" ELSE "idle"
        /\ UNCHANGED <<whandle, wtries>>
    BY <1>1, <1>9
  <2>2. FilesTyped' /\ InodesTyped' /\ EventsTyped' /\ ActorsTyped'
    <3>1. FilesTyped'
      BY <2>1, <1>1, <1>2 DEF FilesTyped
    <3>2. InodesTyped'
      BY <2>1, <1>1, <1>2, <1>5 DEF InodesTyped
    <3>3. EventsTyped'
      BY <2>1, <1>3, <1>7 DEF EventsTyped
    <3>4. ActorsTyped'
      BY <2>1, <1>1, <1>2 DEF ActorsTyped
    <3>. QED
      BY <3>1, <3>2, <3>3, <3>4
  <2>3. OneWatchEach'
    <3>1. \A e \in Events(wevents') : e.wd <= wadded
      BY <2>1, <1>2, <1>3, <1>6, <1>7 DEF OneWatchEach
    <3>. QED
      BY <3>1, <2>1, <1>1, <1>2, <1>3, <1>5 DEF OneWatchEach
  <2>4. EndingsOfOthers'
    <3>. SUFFICES ASSUME wat # NoFile, NEW e \in Endings(wevents')
                  PROVE  inodes[e.wd] # wat
      BY <1>1, <2>1 DEF EndingsOfOthers
    <3>1. e \in Endings(wevents) /\ e \in Events(wevents)
      BY <2>1, <1>3, <1>7 DEF Endings
    <3>2. e.wd \in Watches
      BY <3>1, <1>2, EventsAreEvents DEF EventsTyped
    <3>. QED
      BY <3>1, <3>2, <1>2, <1>5 DEF EndingsOfOthers
  <2>5. GivenUp'
    BY <2>1, <1>1, <1>2, <1>3, <1>9 DEF GivenUp, Told
  <2>6. Follows'
    <3>. SUFFICES ASSUME ~wlost, whandle # NoFile
                  PROVE  FollowsThread' /\ FollowsOpener'
      BY <2>1, <1>1 DEF Follows
    <3>1. w \notin wslots /\ wthread' = "idle"
      BY <2>1, <1>9 DEF Told
    <3>2. FollowsOpener
      BY <1>2 DEF Follows
    <3>3. ASSUME NEW v \in Watches, Followed(v) PROVE Followed(v)'
      <4>1. winode[w] # wat
        BY <3>3, <1>0, <1>2, <1>4 DEF EndingsOfOthers, Followed
      <4>. QED
        BY <4>1, <3>3, <2>1, <1>1, <1>5 DEF Followed
    <3>4. WillClose(wslots) => WillClose(wslots)'
      BY <3>1, <2>1, <1>0, <1>1, <1>3, <1>7 DEF WillClose
    <3>5. wslots \subseteq Watches /\ (wopener = "added" => wnew.opener \in Watches)
      BY <1>2 DEF InodesTyped, ActorsTyped
    <3>. QED
      BY <3>1, <3>2, <3>3, <3>4, <3>5, <2>1, <1>1, <1>3 DEF FollowsThread, FollowsOpener
  <2>. QED
    BY <2>2, <2>3, <2>4, <2>5, <2>6 DEF WatchIInv, WatchTyped
<1>. QED
  BY <1>8, <1>9

LEMMA IgnoredKeeps == ASSUME WatchIInv, Ignored PROVE WatchIInv'
<1>1. /\ NextEvent({"IGNORED"}) /\ wevents' = Tail(wevents)
      /\ IF Told(Head(wevents).wd) /\ wat # NoFile
         THEN \E w \in Watches : AddWatch(w) /\ wslots' = wslots \cup {w}
         ELSE UNCHANGED <<winode, wadded, wslots>>
      /\ UNCHANGED <<wmade, wat, whandle, wgone, wleaked>>
      /\ UNCHANGED <<wthread, wopener, wnew, wtries, wlost>>
  BY DEF Ignored, wfiles
<1>2. /\ Head(wevents).kind = "IGNORED" /\ wthread = "idle"
      /\ wevents' \in Seq(Event) /\ wread' \in 0 .. Len(wevents')
      /\ Events(wevents') \subseteq Events(wevents)
      /\ Endings(wevents') \subseteq Endings(wevents)
      /\ Endings(wevents) \subseteq Endings(wevents') \cup {Head(wevents)}
  BY <1>1, NextEventTaken
<1>3. Endings(wevents') = Endings(wevents)
  BY <1>2 DEF Endings
<1>4. FilesTyped /\ InodesTyped /\ ActorsTyped /\ OneWatchEach /\ EndingsOfOthers /\ Follows /\ GivenUp
  BY DEF WatchIInv, WatchTyped
<1>5. EventsTyped'
  BY <1>2 DEF EventsTyped
<1>6. CASE Told(Head(wevents).wd) /\ wat # NoFile
  <2>1. PICK w \in Watches : AddWatch(w) /\ wslots' = wslots \cup {w}
    BY <1>1, <1>6
  <2>2. /\ wat # NoFile /\ winode'[w] = wat
        /\ wadded' \in 0 .. WMaxWatches /\ winode' \in [Watches -> 0 .. wmade]
        /\ \A v \in Watches : winode[v] = wat => winode'[v] = wat
        /\ OneWatchEach' /\ EndingsOfOthers'
    BY <2>1, <1>1, <1>2, AddWatchKeeps
  <2>3. InodesTyped'
    BY <2>1, <2>2, <1>1, <1>4 DEF InodesTyped
  <2>4. Follows'
    <3>. SUFFICES ASSUME ~wlost, whandle # NoFile
                  PROVE  FollowsThread' /\ FollowsOpener'
      BY <1>1, <1>2 DEF Follows
    <3>1. FollowsOpener
      BY <1>4 DEF Follows
    <3>2. \A v \in Watches : Followed(v) => Followed(v)'
      BY <2>2, <1>1 DEF Followed
    <3>3. WillClose(wslots) => WillClose(wslots)'
      BY <1>3, <2>1 DEF WillClose
    <3>4. wslots \subseteq Watches /\ (wopener = "added" => wnew.opener \in Watches)
      BY <1>4 DEF InodesTyped, ActorsTyped
    <3>. QED
      BY <3>1, <3>2, <3>3, <3>4, <2>1, <1>1, <1>2 DEF FollowsThread, FollowsOpener
  <2>5. GivenUp'
    BY <1>1, <1>4, <1>6 DEF GivenUp, Told
  <2>. QED
    BY <1>1, <1>5, <2>2, <2>3, <2>4, <2>5, WatchFrames DEF WatchIInv, WatchTyped
<1>7. CASE ~(Told(Head(wevents).wd) /\ wat # NoFile)
  <2>1. UNCHANGED <<winode, wadded, wslots>>
    BY <1>1, <1>7
  <2>2. OneWatchEach' /\ EndingsOfOthers'
    BY <2>1, <1>1, <1>2, <1>3, <1>4 DEF OneWatchEach, EndingsOfOthers
  <2>3. Follows'
    BY <2>1, <1>1, <1>3, <1>4 DEF Follows, FollowsThread, FollowsOpener, Followed, WillClose
  <2>. QED
    BY <1>1, <1>5, <2>1, <2>2, <2>3, WatchFrames DEF WatchIInv, WatchTyped
<1>. QED
  BY <1>6, <1>7

LEMMA ReopenKeeps == ASSUME WatchIInv, Reopen \/ NotYet PROVE WatchIInv'
<1>1. /\ wthread = "retry"
      /\ UNCHANGED <<wmade, wat, wgone, wadded, winode, wslots>>
      /\ UNCHANGED <<wevents, wread, wopener, wnew>>
  BY DEF Reopen, NotYet, wfiles, wkernel
<1>2. FilesTyped /\ ActorsTyped /\ Follows /\ GivenUp
  BY DEF WatchIInv, WatchTyped
<1>3. CASE Reopen
  <2>1. /\ wat # NoFile /\ whandle' = wat /\ wthread' = "opened"
        /\ wleaked' = wleaked \cup ({whandle} \ {NoFile})
        /\ wlost' = (wopener # "idle") /\ UNCHANGED wtries
    BY <1>3 DEF Reopen
  <2>2. FilesTyped' /\ ActorsTyped'
    <3>1. FilesTyped'
      BY <2>1, <1>1, <1>2 DEF FilesTyped, NoFile
    <3>2. ActorsTyped'
      BY <2>1, <1>1, <1>2 DEF ActorsTyped
    <3>. QED
      BY <3>1, <3>2
  <2>3. Follows' /\ GivenUp'
    BY <2>1, <1>1 DEF Follows, FollowsThread, FollowsOpener, GivenUp
  <2>. QED
    BY <1>1, <2>2, <2>3, WatchFrames DEF WatchIInv, WatchTyped
<1>4. CASE NotYet
  <2>1. /\ wat = NoFile /\ UNCHANGED <<whandle, wleaked, wlost>>
        /\ IF wtries < WTries THEN wtries' = wtries + 1 /\ UNCHANGED wthread
           ELSE wthread' = "idle" /\ UNCHANGED wtries
    BY <1>4 DEF NotYet
  <2>2. wtries \in 0 .. WTries /\ WTries \in Nat
    BY <1>2, WatchConstants DEF ActorsTyped
  <2>3. wtries' \in 0 .. WTries /\ wthread' \in {"retry", "idle"}
    BY <2>1, <2>2, <1>1
  <2>4. ActorsTyped'
    BY <2>1, <2>3, <1>1, <1>2 DEF ActorsTyped
  <2>5. Follows'
    BY <2>1, <2>3, <1>1, <1>2 DEF Follows, FollowsThread, FollowsOpener, Followed, WillClose
  <2>6. GivenUp'
    BY <2>1, <2>2, <2>3, <1>1, <1>2 DEF GivenUp
  <2>. QED
    BY <1>1, <2>1, <2>4, <2>5, <2>6, WatchFrames DEF WatchIInv, WatchTyped
<1>. QED
  BY <1>3, <1>4

LEMMA RewatchKeeps == ASSUME WatchIInv, Rewatch PROVE WatchIInv'
<1>1. /\ wthread = "opened"
      /\ UNCHANGED <<wmade, wat, whandle, wgone, wleaked, wslots>>
      /\ UNCHANGED <<wevents, wread, wopener, wtries, wlost>>
  BY DEF Rewatch, wfiles
<1>2. /\ FilesTyped /\ InodesTyped /\ ActorsTyped /\ Follows /\ GivenUp /\ whandle # NoFile
  BY <1>1 DEF WatchIInv, WatchTyped, Follows
<1>3. ~wlost => wopener = "idle" /\ whandle = wat
  BY <1>1, <1>2 DEF Follows, FollowsThread
<1>4. CASE Registers("thread") /\ wthread' = "added"
  <2>1. PICK w \in Watches : AddWatch(w) /\ wnew' = [wnew EXCEPT !["thread"] = w]
    BY <1>4 DEF Registers
  <2>2. wnew'.thread = w /\ wnew'.opener = wnew.opener
        /\ wnew' \in [{"thread", "opener"} -> 0 .. WMaxWatches]
    BY <2>1, <1>2, WatchConstants DEF ActorsTyped, Watches
  <2>3. /\ wat # NoFile /\ winode'[w] = wat
        /\ wadded' \in 0 .. WMaxWatches /\ winode' \in [Watches -> 0 .. wmade]
        /\ OneWatchEach' /\ EndingsOfOthers'
    BY <2>1, <1>1, AddWatchKeeps
  <2>4. InodesTyped' /\ ActorsTyped'
    BY <1>1, <1>2, <1>4, <2>2, <2>3 DEF InodesTyped, ActorsTyped
  <2>5. Follows' /\ GivenUp'
    BY <1>1, <1>2, <1>3, <1>4, <2>2, <2>3
       DEF Follows, FollowsThread, FollowsOpener, Followed, GivenUp
  <2>. QED
    BY <1>1, <2>3, <2>4, <2>5, WatchFrames DEF WatchIInv, WatchTyped
<1>5. CASE RegisterFails("thread") /\ wthread' = "idle"
  <2>1. wat = NoFile /\ UNCHANGED <<winode, wadded, wnew>>
    BY <1>5 DEF RegisterFails
  <2>2. ActorsTyped'
    BY <1>1, <1>2, <1>5, <2>1 DEF ActorsTyped
  <2>3. Follows' /\ GivenUp'
    BY <1>1, <1>2, <1>3, <1>5, <2>1 DEF Follows, GivenUp
  <2>. QED
    BY <1>1, <2>1, <2>2, <2>3, WatchFrames DEF WatchIInv, WatchTyped
<1>. QED
  BY <1>4, <1>5 DEF Rewatch

LEMMA RefilledKeeps == ASSUME WatchIInv, Refilled PROVE WatchIInv'
<1>1. /\ wthread = "added" /\ wthread' = "idle" /\ wslots' = wslots \cup {wnew.thread}
      /\ UNCHANGED <<wmade, wat, whandle, wgone, wleaked, winode, wadded>>
      /\ UNCHANGED <<wevents, wread, wopener, wnew, wtries, wlost>>
  BY DEF Refilled, wfiles, wkernel
<1>2. /\ InodesTyped /\ ActorsTyped /\ Follows /\ wnew.thread \in Watches /\ whandle # NoFile
  BY <1>1 DEF WatchIInv, WatchTyped, ActorsTyped, Follows
<1>3. InodesTyped' /\ ActorsTyped'
  BY <1>1, <1>2 DEF InodesTyped, ActorsTyped
<1>4. Follows'
  BY <1>1, <1>2 DEF Follows, FollowsThread, FollowsOpener, Followed, WillClose
<1>5. GivenUp'
  BY <1>1, <1>2 DEF GivenUp
<1>. QED
  BY <1>1, <1>3, <1>4, <1>5, WatchFrames DEF WatchIInv, WatchTyped

(* Once everything is reported, an open handle is the file that has the    *)
(* name and is watched, unless it was changed in a moment when nothing is  *)
(* reported; and the thread stumbles over a closed handle only after it    *)
(* gave the file up: for any number of files, watches, operations of other *)
(* programs and attempts.                                                  *)
THEOREM ObserverKeepsUp ==
  WatchInit /\ [][WatchNext]_watchVars => []ObserverFollows
<1>1. WatchInit => WatchIInv
  BY WatchStarts
<1>2. WatchIInv /\ [WatchNext]_watchVars => WatchIInv'
  <2>. SUFFICES ASSUME WatchIInv, [WatchNext]_watchVars PROVE WatchIInv'
    OBVIOUS
  <2>1. CASE WriteFile \/ MoveAway \/ RemoveFile \/ ReplaceFile \/ CreateFile
    BY <2>1, WriteFileKeeps, MoveAwayKeeps, UnlinkKeeps, CreateFileKeeps
  <2>2. CASE OpenFile \/ OpenerWatches \/ OpenerFills
    BY <2>2, OpenFileKeeps, OpenerWatchesKeeps, OpenerFillsKeeps
  <2>3. CASE AbortThread \/ ReadEvents \/ StopThread
    BY <2>3, ReadingKeeps
  <2>4. CASE Changed \/ Deleted \/ Ignored
    BY <2>4, ChangedKeeps, DeletedKeeps, IgnoredKeeps
  <2>5. CASE Reopen \/ NotYet \/ Rewatch \/ Refilled
    BY <2>5, ReopenKeeps, RewatchKeeps, RefilledKeeps
  <2>6. CASE UNCHANGED watchVars
    BY <2>6, WatchStutters
  <2>. QED
    BY <2>1, <2>2, <2>3, <2>4, <2>5, <2>6 DEF WatchNext, ThreadStep
<1>3. WatchIInv => ObserverFollows
  <2>. SUFFICES ASSUME WatchIInv PROVE ObserverFollows
    OBVIOUS
  <2>1. ASSUME wthread = "idle", wopener = "idle", wevents = <<>>, ~wlost, whandle # NoFile
        PROVE  whandle = wat /\ WatchOf(wat) # {} /\ WatchOf(wat) \subseteq wslots
    <3>1. FollowsOpener /\ wslots \subseteq Watches /\ OneWatchEach
      BY <2>1 DEF WatchIInv, WatchTyped, InodesTyped, Follows
    <3>2. ~WillClose(wslots)
      BY <2>1, EventsFew DEF WillClose
    <3>3. PICK w \in wslots : Followed(w)
      BY <2>1, <3>1, <3>2 DEF FollowsOpener
    <3>4. w \in WatchOf(wat) /\ \A v \in WatchOf(wat) : v = w
      BY <2>1, <3>1, <3>3 DEF Followed, WatchOf, OneWatchEach
    <3>. QED
      BY <3>3, <3>4 DEF Followed
  <2>2. wthread = "crashed" => wtries = WTries
    BY DEF WatchIInv, GivenUp
  <2>. QED
    BY <2>1, <2>2 DEF ObserverFollows
<1>. QED
  BY <1>1, <1>2, <1>3, PTL
=============================================================================
