------------------------------- MODULE JobPool -------------------------------
(***************************************************************************)
(* What EcServer of src/entc/tools/ecserver.c promises: objects are taken  *)
(* in the order in which they were accepted, each by one worker and once,  *)
(* and what is left when the server is destroyed is cleared.               *)
(***************************************************************************)
EXTENDS Sequences

CONSTANTS Workers, Objects

VARIABLES
  waiting,   \* the accepted objects nobody has taken, in order
  hands,     \* the objects each worker has in its callback: none or one
  finished   \* the objects destroyed by a worker or cleared

vars == <<waiting, hands, finished>>

Init ==
  /\ waiting = <<>>
  /\ hands = [w \in Workers |-> {}]
  /\ finished = {}

Known(o) == o \in finished \/ (\E w \in Workers : o \in hands[w])
              \/ \E i \in DOMAIN waiting : waiting[i] = o

Accept(o) ==
  /\ ~Known(o)
  /\ waiting' = Append(waiting, o)
  /\ UNCHANGED <<hands, finished>>

Take(w) ==
  /\ waiting # <<>> /\ hands[w] = {}
  /\ hands' = [hands EXCEPT ![w] = {Head(waiting)}]
  /\ waiting' = Tail(waiting)
  /\ UNCHANGED finished

Finish(w) ==
  /\ hands[w] # {}
  /\ finished' = finished \cup hands[w]
  /\ hands' = [hands EXCEPT ![w] = {}]
  /\ UNCHANGED waiting

Clear ==
  /\ \A w \in Workers : hands[w] = {}
  /\ finished' = finished \cup {waiting[i] : i \in DOMAIN waiting}
  /\ waiting' = <<>>
  /\ UNCHANGED hands

Next ==
  \/ \E o \in Objects : Accept(o)
  \/ \E w \in Workers : Take(w) \/ Finish(w)
  \/ Clear

Spec == Init /\ [][Next]_vars
=============================================================================
