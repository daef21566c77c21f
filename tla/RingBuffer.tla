----------------------------- MODULE RingBuffer -----------------------------
(***************************************************************************)
(* The positions of the ring buffer of common_audio/ring_buffer.c.  A      *)
(* buffer of n elements is a record of its two positions and of rw_wrap,   *)
(* which tells a full buffer from an empty one.  A position may stand at n *)
(* as well as at 0: it wraps only when it would pass the end.  The mobile  *)
(* echo canceller needs no more than these; RingBufferMemory adds the      *)
(* elements.                                                               *)
(***************************************************************************)
EXTENDS Integers

Smaller(a, b) == IF a < b THEN a ELSE b
Larger(a, b) == IF a < b THEN b ELSE a

Wraps == {"SAME_WRAP", "DIFF_WRAP"}
Buffers(n) == [read_pos : 0..n, write_pos : 0..n, rw_wrap : Wraps]

\* WebRtc_InitBuffer.
InitBuffer == [read_pos |-> 0, write_pos |-> 0, rw_wrap |-> "SAME_WRAP"]

AvailableRead(n, b) == IF b.rw_wrap = "SAME_WRAP"
                       THEN b.write_pos - b.read_pos
                       ELSE n - b.read_pos + b.write_pos

AvailableWrite(n, b) == n - AvailableRead(n, b)

\* How far WebRtc_MoveReadPtr moves when asked for count elements, forwards
\* or, for a negative count, backwards over elements already read.
Moved(n, b, count) ==
    Larger(Smaller(count, AvailableRead(n, b)), -AvailableWrite(n, b))

ReadPos(b, pos, wrap) == [read_pos |-> pos, write_pos |-> b.write_pos, rw_wrap |-> wrap]
WritePos(b, pos, wrap) == [read_pos |-> b.read_pos, write_pos |-> pos, rw_wrap |-> wrap]

MoveReadPtrNoWrapBack(n, b, count) ==
    LET pos == b.read_pos + Moved(n, b, count)
    IN  CASE pos > n -> ReadPos(b, pos - n, "SAME_WRAP")
          [] pos < 0 -> ReadPos(b, pos + n, b.rw_wrap)
          [] OTHER   -> ReadPos(b, pos, b.rw_wrap)

MoveReadPtr(n, b, count) ==
    LET pos == b.read_pos + Moved(n, b, count)
    IN  CASE pos > n -> ReadPos(b, pos - n, "SAME_WRAP")
          [] pos < 0 -> ReadPos(b, pos + n, "DIFF_WRAP")
          [] OTHER   -> ReadPos(b, pos, b.rw_wrap)

\* How many of count elements a read delivers, and where it leaves the buffer.
Readable(n, b, count) == Smaller(count, AvailableRead(n, b))
ReadBuffer(n, b, count) == MoveReadPtr(n, b, Readable(n, b, count))

\* The same for a write; what does not fit is not written.
Writable(n, b, count) == Smaller(count, AvailableWrite(n, b))
WriteBuffer(n, b, count) ==
    LET pos == b.write_pos + Writable(n, b, count)
    IN  IF pos > n THEN WritePos(b, pos - n, "DIFF_WRAP") ELSE WritePos(b, pos, b.rw_wrap)

\* The two positions agree with rw_wrap.
Consistent(n, b) ==
    /\ b \in Buffers(n)
    /\ IF b.rw_wrap = "SAME_WRAP" THEN b.read_pos =< b.write_pos
                                  ELSE b.write_pos =< b.read_pos
=============================================================================
