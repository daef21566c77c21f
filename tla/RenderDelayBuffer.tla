------------------------- MODULE RenderDelayBuffer -------------------------
(***************************************************************************)
(* The render delay buffer of echo canceller 3                             *)
(* (aec3/render_delay_buffer.cc): the last render blocks, kept four times  *)
(* in circular buffers that run in two directions, and the delay at which  *)
(* the capture side reads them.  The buffer is one record; an operation is *)
(* an operator from the buffer before the call to the one after it.        *)
(*                                                                         *)
(*   blocks   the samples; both indices move forward                       *)
(*   spectra  their power spectra; both indices move backward              *)
(*   ffts     their transforms; as spectra                                 *)
(*   low      the samples decimated to SubBlock per block; backward        *)
(*                                                                         *)
(* The samples themselves are left out: which slot is read is what an      *)
(* operation decides.  So are the call counters and the jitter figures,    *)
(* which are only logged while the delay estimator is in use, and the      *)
(* detection of render activity.                                           *)
(***************************************************************************)
EXTENDS Integers

CONSTANTS LowRateBlocks,    \* blocks the decimated buffer holds
          FilterBlocks,     \* config.filter.refined.length_blocks
          SubBlock,         \* decimated samples per block
          DefaultDelay,     \* config.delay.default_delay
          ExcessInterval,   \* excess_render_detection_interval_blocks
          MaxExcess         \* max_allowed_excess_render_blocks

ASSUME BufferAssumption ==
    /\ LowRateBlocks \in Nat /\ LowRateBlocks > 1
    /\ FilterBlocks \in Nat
    /\ SubBlock \in Nat \ {0}
    /\ DefaultDelay \in 1 .. LowRateBlocks
    /\ ExcessInterval \in Nat \ {0}
    /\ MaxExcess \in Nat \ {0}

NoDelay == -1     \* absl::nullopt

Size == LowRateBlocks + FilterBlocks + 1
LowSize == SubBlock * LowRateBlocks
MaxDelay == Size - 1 - FilterBlocks

-----------------------------------------------------------------------------
(* Indices.                                                                *)

IncIndex(size, i) == IF i < size - 1 THEN i + 1 ELSE 0
DecIndex(size, i) == IF i > 0 THEN i - 1 ELSE size - 1
OffsetIndex(size, i, offset) == (size + i + offset) % size

BufferLatency(b) == ((LowSize + b.low.read - b.low.write) % LowSize) \div SubBlock

\* How many blocks behind the newest one the capture side reads.
TotalDelay(b) ==
    IF b.spectra.read >= b.spectra.write THEN b.spectra.read - b.spectra.write
    ELSE Size + b.spectra.read - b.spectra.write

ComputeDelay(b) == TotalDelay(b) - BufferLatency(b)

ApplyTotalDelay(b, delay) ==
    [b EXCEPT !.blocks.read = OffsetIndex(Size, b.blocks.write, -delay),
              !.spectra.read = OffsetIndex(Size, b.spectra.write, delay),
              !.ffts.read = OffsetIndex(Size, b.ffts.write, delay)]

IncrementWriteIndices(b) ==
    [b EXCEPT !.low.write = OffsetIndex(LowSize, @, -SubBlock),
              !.blocks.write = IncIndex(Size, @),
              !.spectra.write = DecIndex(Size, @),
              !.ffts.write = DecIndex(Size, @)]

IncrementLowRateReadIndices(b) ==
    [b EXCEPT !.low.read = OffsetIndex(LowSize, @, -SubBlock)]

\* Fault: the transforms are left behind.
IncrementReadIndicesOfTwo(b) ==
    IF b.blocks.read = b.blocks.write THEN b
    ELSE [b EXCEPT !.blocks.read = IncIndex(Size, @),
                   !.spectra.read = DecIndex(Size, @)]

IncrementReadIndices(b) ==
    IF b.blocks.read = b.blocks.write THEN b
    ELSE [b EXCEPT !.blocks.read = IncIndex(Size, @),
                   !.spectra.read = DecIndex(Size, @),
                   !.ffts.read = DecIndex(Size, @)]

RenderUnderrun(b) == b.low.read = b.low.write
\* Fault: the decimated signal may be overwritten unread.
RenderOverrunOfBlocks(b) == b.blocks.read = b.blocks.write
RenderOverrun(b) == RenderUnderrun(b) \/ b.blocks.read = b.blocks.write

-----------------------------------------------------------------------------
(* Operations.                                                             *)

Least(i, j) == IF i <= j THEN i ELSE j

\* The delay to start from when the sound card has told its own.
ExternalStart(b) == IF b.external <= 2 THEN 1 ELSE Least(b.external - 2, MaxDelay)

Reset(b) ==
    LET fresh == [b EXCEPT !.low.read = OffsetIndex(LowSize, b.low.write, SubBlock),
                           !.minLatency = 0,
                           !.excessCount = 0]
        external == ApplyTotalDelay(fresh, ExternalStart(b))
    IN  IF b.external # NoDelay
        THEN [external EXCEPT !.delay = ComputeDelay(external)]
        ELSE [ApplyTotalDelay(fresh, DefaultDelay) EXCEPT !.delay = NoDelay]

\* The first state: every index at 0, then Reset by the constructor.
Constructed ==
    LET start == [write |-> 0, read |-> 0]
    IN  Reset([blocks |-> start, spectra |-> start, ffts |-> start, low |-> start,
               delay |-> DefaultDelay, external |-> NoDelay,
               minLatency |-> 0, excessCount |-> 0])

\* Insert: a new render block; the buffer and whether it overran.
InsertOverruns(b) == RenderOverrun(IncrementWriteIndices(b))
Insert(b) == IF InsertOverruns(b) THEN Reset(IncrementWriteIndices(b))
                                  ELSE IncrementWriteIndices(b)

\* DetectExcessRenderBlocks: the least latency over an interval of capture
\* blocks tells how many render blocks were too many.
IntervalEnds(b) == b.excessCount + 1 >= ExcessInterval
SeenLatency(b) == Least(b.minLatency, BufferLatency(b))
ExcessDetected(b) == IntervalEnds(b) /\ SeenLatency(b) > MaxExcess
\* Fault: a new interval starts with the least latency of the old ones.
CountLatencyForever(b) ==
    [b EXCEPT !.minLatency = SeenLatency(b),
              !.excessCount = IF IntervalEnds(b) THEN 0 ELSE @ + 1]

CountLatency(b) ==
    IF IntervalEnds(b)
    THEN [b EXCEPT !.minLatency = BufferLatency(b), !.excessCount = 0]
    ELSE [b EXCEPT !.minLatency = SeenLatency(b), !.excessCount = @ + 1]

\* PrepareCaptureProcessing: a capture block is about to be processed.
Underruns(b) == ~ExcessDetected(b) /\ RenderUnderrun(b)
\* Only the decimated signal waits: the blocks are read one closer.
\* Fault: the delay in use is not adapted.
UnderrunDelayKept(delay) == delay
UnderrunDelay(delay) == IF delay > 0 THEN delay - 1 ELSE delay

PrepareCaptureProcessing(b) ==
    LET counted == CountLatency(b)
        moved == IncrementReadIndices(counted)
    IN  IF ExcessDetected(b) THEN Reset(counted)
        ELSE IF Underruns(b)
        THEN [moved EXCEPT !.delay = UnderrunDelay(@)]
        ELSE IncrementLowRateReadIndices(moved)

\* AlignFromDelay: the delay estimated, limited to what the buffer can hold.
\* Fault: no delay before is taken for no change.
DelayChangesFromDelay(b, delay) == b.delay # NoDelay /\ b.delay # delay
DelayChanges(b, delay) == b.delay # delay
DelayLimited(b, delay) == BufferLatency(b) + delay > MaxDelay
AlignFromDelay(b, delay) ==
    IF DelayChanges(b, delay)
    THEN ApplyTotalDelay([b EXCEPT !.delay = delay],
                         Least(MaxDelay, BufferLatency(b) + delay))
    ELSE b

SetAudioBufferDelay(b, ms) == [b EXCEPT !.external = ms \div 4]

-----------------------------------------------------------------------------
(* What every buffer that the operations produce satisfies.                *)

Ring(size) == [write : 0 .. size - 1, read : 0 .. size - 1]

BufferType ==
    [blocks : Ring(Size), spectra : Ring(Size), ffts : Ring(Size),
     low : [write : {SubBlock * i : i \in 0 .. LowRateBlocks - 1},
            read : {SubBlock * i : i \in 0 .. LowRateBlocks - 1}],
     delay : Nat \cup {NoDelay}, external : Nat \cup {NoDelay},
     minLatency : 0 .. LowRateBlocks - 1, excessCount : 0 .. ExcessInterval - 1]

\* The samples run forward and their transforms backward, but all are written
\* and read at the same block.
InStep(b) ==
    /\ b.ffts = b.spectra
    /\ (b.blocks.write + b.spectra.write) % Size = 0
    /\ (b.blocks.read + b.spectra.read) % Size = 0

\* The capture side never reads ahead of the decimated signal it is aligned
\* by: Delay(), whose type is unsigned, is never negative.
NeverAhead(b) == ComputeDelay(b) >= 0
=============================================================================
