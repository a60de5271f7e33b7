---------------------------- MODULE StreamWorker ----------------------------
(***************************************************************************)
(* The two worker contexts for a TCP connection of                         *)
(* src/entc/tools/ecasyncvc.c.  The plain one gives every bunch of bytes   *)
(* it reads to its callback.  The strict one asks its idle callback how    *)
(* many bytes come next, collects them over as many runs as it takes, and  *)
(* gives them to its recv callback.  The thread whose queue has the        *)
(* context runs it when the socket is readable, and removes it when run    *)
(* answers FALSE.  A byte is known by its place in the stream.             *)
(***************************************************************************)
EXTENDS Naturals, Sequences, SequencesExt

CONSTANTS
  Kinds,      \* which of the two there are: strict (TRUE), plain (FALSE)
  Sizes,      \* what the idle callback may answer (0: nothing more)
  BufferSize, \* of the plain context's buffer
  Width,      \* a ulong_t counts modulo Width
  Ends,       \* how the peer may end the connection: closed, reset
  MaxSent     \* bound on the bytes of the stream

ASSUME WorkerConstants ==
  /\ Kinds \subseteq BOOLEAN
  /\ Sizes \subseteq Nat /\ 0 \in Sizes
  /\ BufferSize \in Nat \ {0}
  /\ MaxSent \in Nat
  /\ Width \in Nat /\ MaxSent < Width /\ BufferSize < Width
  /\ \A s \in Sizes : s < Width
  /\ Ends \subseteq {"closed", "reset"}

VARIABLES
  strict,   \* which of the two it is
  wpeer,    \* open, closed, reset; gone once the reset was reported
  sent,     \* the bytes the peer sent
  taken,    \* the bytes that were read
  wpc,      \* wait: in the queue; read: in run; ended: removed
  pos, len, \* of the strict context
  buffer,   \* the bytes in the buffer
  asked,    \* what the idle callback answered so far
  given     \* what the callbacks were given so far: length and bytes

stream     == <<wpeer, sent>>
frame      == <<strict, pos, len, buffer, asked>>
workerVars == <<stream, taken, wpc, frame, given>>

Slots == 0 .. Width - 1
Garbage == 0

WorkerTypeOK ==
  /\ strict \in Kinds
  /\ wpeer \in {"open", "closed", "reset", "gone"}
  /\ sent \in 0 .. MaxSent /\ taken \in 0 .. sent
  /\ wpc \in {"wait", "read", "ended"}
  /\ pos \in 0 .. Width - 1 /\ len \in 0 .. Width - 1
  /\ buffer \in [Slots -> 0 .. MaxSent]
  /\ asked \in Seq(Sizes \ {0})
  /\ given \in Seq([len : 0 .. Width - 1, bytes : Seq(0 .. MaxSent)])

(* ecasync_worker_create; ecasync_strict_worker_create asks for the first  *)
(* time, and does not look at the answer.                                  *)
WorkerInit ==
  /\ strict \in Kinds
  /\ wpeer = "open" /\ sent = 0 /\ taken = 0
  /\ wpc = "wait"
  /\ pos = 0
  /\ len \in (IF strict THEN Sizes ELSE {0})
  /\ buffer = [i \in Slots |-> Garbage]
  /\ asked = IF len > 0 THEN <<len>> ELSE <<>>
  /\ given = <<>>

-----------------------------------------------------------------------------
Readable == taken < sent \/ wpeer # "open"

Minimum(a, b) == IF a < b THEN a ELSE b

(* Mutation: as many bytes as were asked for are taken as read.            *)
AnswersAll(n) ==
  IF wpeer = "open" \/ taken < sent THEN {n} ELSE {0}

(* What read() may answer for at most n bytes; -1 is Width - 1 as a        *)
(* ulong_t.  A reset discards what was not read.  The read is made when    *)
(* there is something to read, so that it does not wait and no signal ends *)
(* it; one that did would be an error, too: EINTR is not asked for.        *)
Answers(n) ==
  CASE wpeer = "reset" -> {Width - 1}
    [] wpeer = "gone" -> {0}
    [] OTHER -> IF taken < sent THEN 1 .. Minimum(n, sent - taken) ELSE {0}

IsError == wpeer = "reset"

(* The bytes go into the buffer from "at" on.                              *)
Fill(at, res) ==
  IF IsError
  THEN /\ wpeer' = "gone"
       /\ UNCHANGED <<sent, taken, buffer>>
  ELSE /\ buffer' = [i \in Slots |->
                       IF i \in at .. at + res - 1 THEN taken + 1 + i - at ELSE buffer[i]]
       /\ taken' = taken + res
       /\ UNCHANGED stream

Content(n) == [i \in 1 .. n |-> buffer'[i - 1]]
Give(n) == given' = Append(given, [len |-> n, bytes |-> Content(n)])

(* Mutation: the end of the stream does not end the context.               *)
RunAtEnd ==
  /\ ~strict /\ wpc = "wait" /\ Readable
  /\ \E res \in Answers(BufferSize) :
       /\ Fill(0, res)
       /\ IF res > 0 THEN Give(res) ELSE UNCHANGED given
  /\ UNCHANGED <<strict, wpc, pos, len, asked>>

(* Mutation: what is in the buffer already is given again.                 *)
RunAppends ==
  /\ ~strict /\ wpc = "wait" /\ Readable
  /\ \E res \in Answers(BufferSize) :
       /\ pos' = pos + res
       /\ Fill(pos, res)
       /\ IF res > 0
          THEN Give(pos + res) /\ UNCHANGED wpc
          ELSE wpc' = "ended" /\ UNCHANGED given
  /\ UNCHANGED <<strict, len, asked>>

(* ecasync_worker_run.                                                     *)
Run ==
  /\ ~strict /\ wpc = "wait" /\ Readable
  /\ \E res \in Answers(BufferSize) :
       /\ Fill(0, res)
       /\ IF res > 0
          THEN Give(res) /\ UNCHANGED wpc
          ELSE wpc' = "ended" /\ UNCHANGED given
  /\ UNCHANGED <<strict, pos, len, asked>>

(* Mutation: the count is not reset.                                       *)
IdleKeepsPos(place) ==
  \E size \in Sizes :
    IF size > 0
    THEN /\ len' = size
         /\ asked' = Append(asked, size)
         /\ wpc' = place
         /\ UNCHANGED pos
    ELSE wpc' = "ended" /\ UNCHANGED <<pos, len, asked>>

(* ecasync_strict_worker_onIdle: how many bytes come next?                 *)
Idle(place) ==
  \E size \in Sizes :
    IF size > 0
    THEN /\ pos' = 0 /\ len' = size
         /\ asked' = Append(asked, size)
         /\ wpc' = place
    ELSE wpc' = "ended" /\ UNCHANGED <<pos, len, asked>>

(* ecasync_strict_worker_run, when nothing is asked for yet.               *)
RunIdle ==
  /\ strict /\ wpc = "wait" /\ Readable
  /\ pos >= len
  /\ Idle("read")
  /\ UNCHANGED <<strict, stream, taken, buffer, given>>

(* The recv callback gets the bytes.  If it answers FALSE the context will *)
(* be removed; otherwise the idle callback is asked again.                 *)
Recv ==
  /\ Give(len)
  /\ \/ wpc' = "ended" /\ UNCHANGED <<len, asked>> /\ pos' = len
     \/ Idle("wait")

Reading == strict /\ Readable /\ (wpc = "read" \/ (wpc = "wait" /\ pos < len))

(* Mutation: the first bunch is given, whatever was asked for.             *)
RunReadOnce ==
  /\ Reading
  /\ \E res \in Answers(len - pos) :
       /\ Fill(pos, res)
       /\ IF res > 0
          THEN Give(pos + res) /\ Idle("wait")
          ELSE wpc' = "ended" /\ UNCHANGED <<pos, len, asked, given>>
  /\ UNCHANGED strict

(* Mutation: the end of the stream is waited for again.                    *)
RunReadAgain ==
  /\ Reading
  /\ \E res \in Answers(len - pos) :
       /\ Fill(pos, res)
       /\ IF (pos + res) % Width = len THEN Recv
          ELSE pos' = (pos + res) % Width /\ wpc' = "wait" /\ UNCHANGED <<len, asked, given>>
  /\ UNCHANGED strict

(* A bunch of what is missing is read, behind what is there already.       *)
RunRead ==
  /\ Reading
  /\ \E res \in Answers(len - pos) :
       /\ Fill(pos, res)
       /\ CASE res = 0 -> wpc' = "ended" /\ UNCHANGED <<pos, len, asked, given>>
            [] res > 0 /\ (pos + res) % Width = len -> Recv
            [] OTHER -> /\ pos' = (pos + res) % Width
                        /\ wpc' = "wait"
                        /\ UNCHANGED <<len, asked, given>>
  /\ UNCHANGED strict

(* The peer.                                                               *)
Send ==
  /\ wpeer = "open" /\ sent < MaxSent
  /\ sent' = sent + 1
  /\ UNCHANGED <<wpeer, taken, wpc, frame, given>>

End(how) ==
  /\ wpeer = "open" /\ how \in Ends
  /\ wpeer' = how
  /\ UNCHANGED <<sent, taken, wpc, frame, given>>

WorkerNext ==
  \/ Run \/ RunIdle \/ RunRead
  \/ Send \/ \E how \in {"closed", "reset"} : End(how)

(* A context whose socket is readable is run.                              *)
WorkerFairness == WF_workerVars(Run \/ RunIdle \/ RunRead)

-----------------------------------------------------------------------------
(* Properties.                                                             *)

(* The callbacks are given the stream: every byte once, in order, and      *)
(* nothing else; what was read and not given yet is in the buffer.         *)
GivenInOrder ==
  LET bytes == FlattenSeq([i \in DOMAIN given |-> given[i].bytes])
  IN  /\ \A i \in DOMAIN bytes : bytes[i] = i
      /\ wpc # "ended" => Len(bytes) + (IF strict THEN pos ELSE 0) = taken

(* The plain callback is told no more bytes than the buffer holds.         *)
InBuffer == \A i \in DOMAIN given : ~strict => given[i].len <= BufferSize

(* The strict recv callback gets exactly as many bytes as the idle         *)
(* callback asked for, once for each time it asked.                        *)
AsAsked ==
  strict =>
    /\ Len(given) \in {Len(asked), Len(asked) - 1}
    /\ \A i \in DOMAIN given : given[i].len = asked[i]

(* When the peer is gone the context is removed.                           *)
GoneIsRemoved == wpeer # "open" ~> wpc = "ended"

(* Types, a plain callback that is told the truth about its buffer, and    *)
(* callbacks that are given the stream, strict ones as they asked for it.  *)
WorkerInv == WorkerTypeOK /\ InBuffer /\ GivenInOrder /\ AsAsked
=============================================================================
