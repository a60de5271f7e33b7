------------------------------- MODULE Streams ------------------------------
(***************************************************************************)
(* The byte streams in memory: EcStream (src/entc/types/ecstream.c) grows  *)
(* its buffer (ecbuffer.c), EcDevStream gives what it collected to a       *)
(* callback, the smart buffer (utils/ecsmartbuffer.c) writes to a file but *)
(* keeps the last bytes, the read buffer (utils/ecreadbuffer.c) reads a    *)
(* file through a window.  A byte is known by its place in what the        *)
(* program gave or in the file; Hole is a byte nobody wrote.               *)
(***************************************************************************)
EXTENDS Integers, Sequences, SequencesExt

CONSTANTS
  GSize,    \* of a new stream's buffer (1000 in the code)
  GWidth,   \* a uint_t counts modulo GWidth
  GChunks,  \* the lengths that are appended and asked for
  GMaxBytes,\* bound on the bytes of a behaviour
  GBuffer   \* the size of the other buffers

ASSUME StreamConstants ==
  /\ GSize \in Nat \ {0} /\ GBuffer \in Nat \ {0}
  /\ GChunks \subseteq Nat \ {0} /\ GMaxBytes \in Nat
  /\ GWidth \in Nat /\ 4 * (GMaxBytes + GSize) < GWidth

VARIABLES
  gsize, galloc, gdata, ggave,   \* EcStream: size, allocated bytes, contents
  ddata, dout, dgave,            \* EcDevStream: contents, what the callback got
  bdata, bout, bgave,            \* smart buffer: contents, the file, what it was given
  rfile, rwin, rread, rgiven     \* read buffer: the file, its window, what was read

streamVars == <<gsize, galloc, gdata, ggave>>
devVars    == <<ddata, dout, dgave>>
smartVars  == <<bdata, bout, bgave>>
readVars   == <<rfile, rwin, rread, rgiven>>

Hole == 0
BytesFrom(a, n) == [i \in 1 .. n |-> a + i]   \* the n bytes behind place a
Smaller(a, b) == IF a < b THEN a ELSE b

-----------------------------------------------------------------------------
(* EcStream.  ecstream_new; ecbuf_create allocates one byte more than size *)
(* for the termination, ecbuf_resize does not.                             *)
StreamInit ==
  /\ gsize = GSize /\ galloc = GSize + 1
  /\ gdata = <<>> /\ ggave = 0

(* Mutation: the buffer grows when the bytes do not fit, without room for  *)
(* the termination.                                                        *)
CheckExact(n) ==
  LET filled == Len(gdata)
      grown == filled + n > gsize
  IN  /\ gsize' = IF grown THEN filled + n ELSE gsize
      /\ galloc' = IF grown THEN filled + n ELSE galloc

(* ecstream_check and ecbuf_resize.                                        *)
Check(n) ==
  LET filled == Len(gdata)
      remain == (gsize - filled - 1) % GWidth
      grown == (filled + n) % GWidth > remain
      size == filled + n + gsize
  IN  /\ gsize' = IF grown THEN size ELSE gsize
      /\ galloc' = IF grown THEN size ELSE galloc

(* ecstream_appendd, with ecstream_append, appendc and appendStream.       *)
StreamAppend(n) ==
  /\ ggave + n <= GMaxBytes
  /\ Check(n)
  /\ gdata' = gdata \o BytesFrom(ggave, n)
  /\ ggave' = ggave + n

(* ecstream_registerOffset: room for n bytes that come later.              *)
StreamReserve(n) ==
  /\ ggave + n <= GMaxBytes
  /\ Check(n)
  /\ gdata' = gdata \o [i \in 1 .. n |-> Hole]
  /\ ggave' = ggave + n

(* ecstream_fillOffset: the bytes that belong there.                       *)
StreamFill(at, n) ==
  /\ at + n <= Len(gdata) /\ \A i \in at + 1 .. at + n : gdata[i] = Hole
  /\ gdata' = [i \in DOMAIN gdata |-> IF i \in at + 1 .. at + n THEN ggave - Len(gdata) + i ELSE gdata[i]]
  /\ UNCHANGED <<gsize, galloc, ggave>>

(* ecstream_clear: the buffer keeps its size.                              *)
StreamClear ==
  /\ gdata # <<>>
  /\ gdata' = <<>>
  /\ UNCHANGED <<gsize, galloc, ggave>>

StreamNext ==
  \/ \E n \in GChunks :
       \/ StreamAppend(n) \/ StreamReserve(n)
       \/ \E at \in 0 .. GMaxBytes : StreamFill(at, n)
  \/ StreamClear

(* Whatever is appended, the bytes and the termination behind them stay    *)
(* inside what is allocated, also where the unsigned difference could wrap,*)
(* and the contents are what was given since the last clear, in order.     *)
StreamHolds ==
  /\ Len(gdata) < galloc
  /\ \A i \in DOMAIN gdata : gdata[i] \in {Hole, ggave - Len(gdata) + i}

-----------------------------------------------------------------------------
(* EcDevStream.                                                            *)
DevInit == ddata = <<>> /\ dout = <<>> /\ dgave = 0

(* Mutation: what does not fit is given without the rest of the bunch.     *)
DevAppendDrops(n) ==
  /\ dgave + n <= GMaxBytes
  /\ dgave' = dgave + n
  /\ IF Len(ddata) + n > GBuffer
     THEN dout' = dout \o ddata /\ ddata' = BytesFrom(dgave + n - Smaller(n, GBuffer), Smaller(n, GBuffer))
     ELSE ddata' = ddata \o BytesFrom(dgave, n) /\ UNCHANGED dout

(* ecdevstream_append: full buffers go to the callback as long as the rest *)
(* does not fit.                                                           *)
DevAppend(n) ==
  LET all == ddata \o BytesFrom(dgave, n)
      full == IF Len(all) <= GBuffer THEN 0 ELSE (Len(all) - 1) \div GBuffer
  IN  /\ dgave + n <= GMaxBytes
      /\ dgave' = dgave + n
      /\ dout' = dout \o SubSeq(all, 1, full * GBuffer)
      /\ ddata' = SubSeq(all, full * GBuffer + 1, Len(all))

(* ecdevstream_flush, also from ecdevstream_delete.                        *)
DevFlush ==
  /\ ddata # <<>>
  /\ dout' = dout \o ddata /\ ddata' = <<>>
  /\ UNCHANGED dgave

DevNext == DevFlush \/ \E n \in GChunks : DevAppend(n)

(* The callback and the buffer together have every byte once and in order. *)
DevKeeps == dout \o ddata = BytesFrom(0, dgave) /\ Len(ddata) <= GBuffer

-----------------------------------------------------------------------------
(* The smart buffer.                                                       *)
SmartInit == bdata = <<>> /\ bout = <<>> /\ bgave = <<>>

(* ecsmartbuffer_flush: all but the last "keep" go to the file.            *)
Flushed(s, keep) ==
  [out |-> s.out \o SubSeq(s.data, 1, Len(s.data) - keep),
   data |-> SubSeq(s.data, Len(s.data) - keep + 1, Len(s.data))]

(* ecsmartbuffer_append: the buffer is filled and flushed as often as the  *)
(* rest does not fit; the caller keeps fewer bytes than the buffer has.    *)
SmartAppend(n, keep) ==
  LET new == BytesFrom(Len(bgave), n)
      run[k \in 0 .. n] ==
        IF k = 0 THEN [out |-> bout, data |-> bdata, rest |-> new]
        ELSE LET s == run[k - 1]
                 room == GBuffer - Len(s.data)
                 f == Flushed([out |-> s.out, data |-> s.data \o SubSeq(s.rest, 1, room)], keep)
             IN  IF Len(s.rest) <= room THEN s
                 ELSE [out |-> f.out, data |-> f.data,
                       rest |-> SubSeq(s.rest, room + 1, Len(s.rest))]
      last == run[n]
  IN  /\ Len(bgave) + n <= GMaxBytes /\ keep < GBuffer
      /\ bgave' = bgave \o new
      /\ bout' = last.out
      /\ bdata' = last.data \o last.rest

(* ecsmartbuffer_setCompareKey flushes everything.                         *)
SmartFlush(keep) ==
  /\ keep < Len(bdata)
  /\ bout' = Flushed([out |-> bout, data |-> bdata], keep).out
  /\ bdata' = Flushed([out |-> bout, data |-> bdata], keep).data
  /\ UNCHANGED bgave

(* ecsmartbuffer_reduce: the last n bytes were not meant, if they are      *)
(* there still.                                                            *)
SmartReduce(n) ==
  /\ n <= Len(bdata)
  /\ bdata' = SubSeq(bdata, 1, Len(bdata) - n)
  /\ bgave' = SubSeq(bgave, 1, Len(bgave) - n)
  /\ UNCHANGED bout

SmartNext ==
  \/ \E n \in GChunks : SmartReduce(n) \/ SmartFlush(0)
                        \/ \E keep \in {0} \cup GChunks : SmartAppend(n, keep)

(* The file and the buffer together have what was given and not taken      *)
(* back, in order, and nothing twice although bytes are kept.              *)
SmartKeeps == bout \o bdata = bgave /\ Len(bdata) <= GBuffer

-----------------------------------------------------------------------------
(* The read buffer over a file of rfile bytes, of which rread were read.   *)
ReadInit == rfile \in 0 .. GMaxBytes /\ rwin = <<>> /\ rread = 0 /\ rgiven = 0

(* What one read() of at most n bytes may bring.                           *)
Bunches(n) == IF rread = rfile \/ n = 0 THEN {0} ELSE 1 .. Smaller(n, rfile - rread)

(* ecreadbuffer_getnext.                                                   *)
ReadNextByte ==
  /\ \E res \in IF rwin = <<>> THEN Bunches(GBuffer) ELSE {0} :
       LET win == rwin \o BytesFrom(rread, res)
       IN  /\ win # <<>>
           /\ rwin' = Tail(win) /\ rread' = rread + res /\ rgiven' = rgiven + 1
  /\ UNCHANGED rfile

(* Mutation: what is left of the window is overwritten.                    *)
ReadMoreOver(n) ==
  /\ Len(rwin) < n
  /\ \E res \in Bunches(GBuffer) :
       /\ res > 0
       /\ rwin' = BytesFrom(rread, res)
       /\ rread' = rread + res
  /\ UNCHANGED <<rfile, rgiven>>

(* ecreadbuffer_get, one round: the rest of the window is moved to the     *)
(* front and the file is read behind it.                                   *)
ReadMore(n) ==
  /\ Len(rwin) < n
  /\ \E res \in Bunches(GBuffer - Len(rwin)) :
       /\ res > 0
       /\ rwin' = rwin \o BytesFrom(rread, res)
       /\ rread' = rread + res
  /\ UNCHANGED <<rfile, rgiven>>

ReadStepNext == ReadNextByte \/ \E n \in GChunks : ReadMore(n)

(* The window has the bytes that come next, none skipped and none twice.   *)
ReadKeeps == rwin = BytesFrom(rgiven, rread - rgiven) /\ Len(rwin) <= GBuffer

(* No byte lost, doubled or moved in any of them, however they come in     *)
(* pieces.                                                                 *)
BytesKeep == StreamHolds /\ DevKeeps /\ SmartKeeps /\ ReadKeeps
=============================================================================
