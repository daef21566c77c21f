-------------------------- MODULE RingBufferMemory --------------------------
(***************************************************************************)
(* The ring buffer of common_audio/ring_buffer.c with its elements: what a *)
(* write stores, what a read of one or two regions delivers, and moves of  *)
(* the read pointer, as the mobile echo canceller makes them, in any       *)
(* order.                                                                  *)
(***************************************************************************)
EXTENDS RingBuffer, Sequences

CONSTANTS Length,    \* element_count
          Elements,
          Zero,      \* what WebRtc_InitBuffer clears an element to
          MaxCount   \* bound: no call asks for more elements than this

ASSUME RingAssumption == /\ Length \in Nat \ {0}
                         /\ Zero \in Elements
                         /\ MaxCount \in Nat

VARIABLES ring,      \* the positions
          data,      \* the elements, by position
          returned   \* what the last WebRtc_ReadBuffer delivered
rvars == <<ring, data, returned>>

Slots == 0..(Length - 1)

RingInit == /\ ring = InitBuffer
            /\ data = [p \in Slots |-> Zero]
            /\ returned = << >>

Inputs == UNION {[1..k -> Elements] : k \in 0..MaxCount}

\* WebRtc_WriteBuffer: up to the end of the memory, the rest from its start.
RingWrite(xs) ==
    LET m == Writable(Length, ring, Len(xs))
        margin == Length - ring.write_pos
    IN  /\ data' = [p \in Slots |->
                      IF ring.write_pos =< p /\ p < ring.write_pos + m
                      THEN xs[p - ring.write_pos + 1]
                      ELSE IF p < m - margin THEN xs[margin + p + 1] ELSE data[p]]
        /\ ring' = WriteBuffer(Length, ring, Len(xs))
        /\ UNCHANGED returned

\* The elements of GetBufferReadRegions, one region after the other.
RegionsOneOff(m) == [i \in 1..m |->
    IF ring.read_pos + i - 1 =< Length - 1 THEN data[ring.read_pos + i - 1]
                                           ELSE data[i - (Length - ring.read_pos)]]

Regions(m) == [i \in 1..m |->
    IF i =< Length - ring.read_pos THEN data[ring.read_pos + i - 1]
                                   ELSE data[i - (Length - ring.read_pos) - 1]]

RingRead(count) ==
    /\ returned' = Regions(Readable(Length, ring, count))
    /\ ring' = ReadBuffer(Length, ring, count)
    /\ UNCHANGED data

RingMove(count) ==
    /\ ring' = MoveReadPtr(Length, ring, count)
    /\ UNCHANGED <<data, returned>>

\* WebRtc_InitBuffer of a buffer in use.
RingClear == /\ ring' = InitBuffer
             /\ data' = [p \in Slots |-> Zero]
             /\ UNCHANGED returned

RingNext == \/ \E xs \in Inputs : RingWrite(xs)
            \/ \E count \in 0..MaxCount : RingRead(count)
            \/ \E count \in -MaxCount..MaxCount : RingMove(count)
            \/ RingClear

RingSpec == RingInit /\ [][RingNext]_rvars

-----------------------------------------------------------------------------
(* Every write and read position stays in the memory and agrees with       *)
(* rw_wrap (the size_t subtractions of WebRtc_available_read never wrap).  *)
RingTypeOK == /\ Consistent(Length, ring)
              /\ data \in [Slots -> Elements]
              /\ returned \in Seq(Elements)

\* The element written a writes ago.
Written(a) == data[IF a =< ring.write_pos THEN ring.write_pos - a
                                          ELSE ring.write_pos - a + Length]

Tape == INSTANCE SampleTape WITH tape <- [a \in 1..Length |-> Written(a)],
                                 unread <- AvailableRead(Length, ring)

(* Whatever the order of writes, reads and moves in both directions over   *)
(* the end of the memory, the buffer is a tape of the last Length elements *)
(* with a movable read head.                                               *)
ImplementsTape == Tape!TapeSpec
=============================================================================
