----------------------------- MODULE AecmFrames -----------------------------
(***************************************************************************)
(* How the core of the mobile echo canceller cuts its frames of FRAME_LEN   *)
(* samples into blocks of PART_LEN (WebRtcAecm_ProcessFrame of              *)
(* aecm/aecm_core.cc).  The far-end frame passes through a cyclic buffer   *)
(* that could delay it (its knownDelay stays 0: the wrapper's estimate is  *)
(* not passed on), then far, near-end and output samples wait in ring      *)
(* buffers for a whole block or a whole frame.  The clean near-end signal  *)
(* comes only with the calls made while noise is being suppressed.         *)
(***************************************************************************)
EXTENDS RingBuffer

CONSTANTS FRAME_LEN, PART_LEN

ASSUME FramesAssumption == /\ {FRAME_LEN, PART_LEN} \subseteq Nat \ {0}
                           /\ PART_LEN =< FRAME_LEN /\ FRAME_LEN =< 2 * PART_LEN

VARIABLES farBufWritePos, farBufReadPos,
          farFrameBuf, nearNoisyFrameBuf, nearCleanFrameBuf, outFrameBuf,
          stuffed       \* history: samples of the output that no block gave
fvars == <<farBufWritePos, farBufReadPos, farFrameBuf, nearNoisyFrameBuf,
           nearCleanFrameBuf, outFrameBuf, stuffed>>

FAR_BUF_LEN == 4 * PART_LEN
Size == FRAME_LEN + PART_LEN     \* of the four ring buffers
Waiting(b) == AvailableRead(Size, b)

\* WebRtcAecm_InitCore.
FramesInit == /\ farBufWritePos = 0
              /\ farBufReadPos = 0
              /\ farFrameBuf = InitBuffer
              /\ nearNoisyFrameBuf = InitBuffer
              /\ nearCleanFrameBuf = InitBuffer
              /\ outFrameBuf = InitBuffer
              /\ stuffed = 0

FramesReset == /\ farBufWritePos' = 0
               /\ farBufReadPos' = 0
               /\ farFrameBuf' = InitBuffer
               /\ nearNoisyFrameBuf' = InitBuffer
               /\ nearCleanFrameBuf' = InitBuffer
               /\ outFrameBuf' = InitBuffer
               /\ stuffed' = 0

\* WebRtcAecm_BufferFarFrame and WebRtcAecm_FetchFarFrame leave a position
\* beyond the frame: a frame is split at the end of the buffer.  Fetching
\* also takes a position at the end to the start.
BufferFarFrame(pos) == IF pos + FRAME_LEN > FAR_BUF_LEN THEN pos + FRAME_LEN - FAR_BUF_LEN
                                                     ELSE pos + FRAME_LEN
FetchFarFrame(pos) == BufferFarFrame(IF pos > FAR_BUF_LEN - 1 THEN pos - FAR_BUF_LEN ELSE pos)

\* The blocks that can be cut once the frame has been added.
BlocksLate(far) == (Waiting(far) - 1) \div PART_LEN
Blocks(far) == Waiting(far) \div PART_LEN

Take(b, blocks) == ReadBuffer(Size, b, blocks * PART_LEN)

\* Too little to output is made up for by moving the read pointer back.
MissingBlock(b) == IF Waiting(b) < FRAME_LEN THEN PART_LEN ELSE 0
Missing(b) == Larger(FRAME_LEN - Waiting(b), 0)
Stuff(b) == IF Missing(b) > 0 THEN MoveReadPtr(Size, b, -Missing(b)) ELSE b

\* WebRtcAecm_ProcessFrame; clean tells whether there is a clean near end.
ProcessFrame(clean) ==
    /\ farBufWritePos' = BufferFarFrame(farBufWritePos)
    /\ farBufReadPos' = FetchFarFrame(farBufReadPos)
    /\ \E far \in {WriteBuffer(Size, farFrameBuf, FRAME_LEN)},
          noisy \in {WriteBuffer(Size, nearNoisyFrameBuf, FRAME_LEN)},
          near \in {IF clean THEN WriteBuffer(Size, nearCleanFrameBuf, FRAME_LEN)
                             ELSE nearCleanFrameBuf} :
       \E blocks \in {Blocks(far)} :
          /\ farFrameBuf' = Take(far, blocks)
          /\ nearNoisyFrameBuf' = Take(noisy, blocks)
          /\ nearCleanFrameBuf' = IF clean THEN Take(near, blocks) ELSE near
          /\ \E out \in {WriteBuffer(Size, outFrameBuf, blocks * PART_LEN)} :
                /\ stuffed' = stuffed + Missing(out)
                /\ \E full \in {Stuff(out)} : outFrameBuf' = ReadBuffer(Size, full, FRAME_LEN)

FramesNext == FramesReset \/ \E clean \in BOOLEAN : ProcessFrame(clean)
FramesSpec == FramesInit /\ [][FramesNext]_fvars

-----------------------------------------------------------------------------
(* Every position is within its buffer and agrees with its wrap.           *)
FramesTypeOK ==
    /\ {farBufWritePos, farBufReadPos} \subseteq 0..FAR_BUF_LEN
    /\ \A b \in {farFrameBuf, nearNoisyFrameBuf, nearCleanFrameBuf, outFrameBuf} :
          Consistent(Size, b)
    /\ stuffed \in Nat

(* However often the canceller is reset, the far-end frame fetched is the  *)
(* one just buffered and the near end is cut where the far end is.  Every  *)
(* call delivers a whole frame and none of the samples that came in is     *)
(* lost: those not in the far buffer any more are in the output, behind    *)
(* what was stuffed, which is less than a block.                           *)
FarFetchedFresh == farBufReadPos % FAR_BUF_LEN = farBufWritePos % FAR_BUF_LEN
NearFollowsFar == nearNoisyFrameBuf = farFrameBuf
OutputKeepsUp == /\ Waiting(farFrameBuf) + Waiting(outFrameBuf) = stuffed
                 /\ Waiting(farFrameBuf) < PART_LEN
                 /\ stuffed < PART_LEN

FramesKeepStep == FarFetchedFresh /\ NearFollowsFar /\ OutputKeepsUp
=============================================================================
