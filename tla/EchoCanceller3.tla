--------------------------- MODULE EchoCanceller3 ---------------------------
(***************************************************************************)
(* Echo canceller 3 between its caller's frames and its own blocks         *)
(* (aec3/echo_canceller3.cc, frame_blocker.cc, block_framer.cc).  The      *)
(* render thread puts frames into a bounded transfer queue, and drops them *)
(* without a word when it is full; a capture call first takes every frame  *)
(* out of the queue, then cuts its own frame into blocks.  A frame is two  *)
(* sub-frames of SubFrame units; blocks hold Block units, so that now and  *)
(* then a frame yields a third block.                                      *)
(*                                                                         *)
(* Samples are counted here in units of the remainder a sub-frame leaves   *)
(* (16 samples); their values are left out.                                *)
(***************************************************************************)
EXTENDS BlockProcessor

CONSTANTS QueueSize,    \* kRenderTransferQueueSizeFrames
          SubFrame,     \* kSubFrameLength
          Block         \* kBlockSize

ASSUME FramingAssumption ==
    /\ QueueSize \in Nat \ {0}
    /\ SubFrame \in Nat /\ Block \in Nat \ {0} /\ Block < SubFrame
    /\ Block % (2 * (SubFrame - Block)) = 0

VARIABLES queue,          \* frames in render_transfer_queue_
          render_blocker, \* samples waiting for the next render block
          capture_blocker,
          output_framer,  \* processed samples waiting for the next sub-frame
          pc,             \* where the capture call is
          dropped         \* a frame was refused since the queue was last empty

evars == <<queue, render_blocker, capture_blocker, output_framer, pc, dropped>>
vars == <<bvars, evars>>

Remainder == SubFrame - Block

Init == /\ BInit
        /\ queue = 0
        /\ render_blocker = 0
        /\ capture_blocker = 0
        /\ output_framer = Block
        /\ pc = "idle"
        /\ dropped = FALSE

-----------------------------------------------------------------------------
(* The render thread: RenderWriter::Insert ignores a full queue.           *)

Accepted == IF queue < QueueSize THEN 1 ELSE 0

AnalyzeRender ==
    /\ queue' = queue + Accepted
    /\ dropped' = (dropped \/ Accepted = 0)
    /\ UNCHANGED <<bvars, render_blocker, capture_blocker, output_framer, pc>>

-----------------------------------------------------------------------------
(* The capture thread.                                                     *)

Goto(from, to) == pc = from /\ pc' = to

SetAudioBufferDelay3(ms) ==
    /\ pc = "idle"
    /\ ReportDelay(ms)
    /\ UNCHANGED evars

CaptureCall == Goto("idle", "empty")
               /\ UNCHANGED <<bvars, queue, render_blocker, capture_blocker,
                              output_framer, dropped>>

\* EmptyRenderQueue: the next frame, or none.
RemoveFrame ==
    /\ queue > 0
    /\ Goto("empty", "render_1")
    /\ queue' = queue - 1
    /\ UNCHANGED <<bvars, render_blocker, capture_blocker, output_framer, dropped>>

QueueEmpty ==
    /\ queue = 0
    /\ Goto("empty", "capture_1")
    /\ dropped' = FALSE
    /\ UNCHANGED <<bvars, queue, render_blocker, capture_blocker, output_framer>>

\* BufferRenderFrameContent, once per sub-frame.
BufferSubFrame ==
    /\ Goto("render_1", "render_2") \/ Goto("render_2", "render_rest")
    /\ render_blocker' = render_blocker + Remainder
    /\ BufferRender
    /\ UNCHANGED <<queue, capture_blocker, output_framer, dropped>>

\* BufferRemainingRenderFrameContent.
\* Fault: the block that is just complete is missed.
IsBlockAvailableLate(fill) == fill > Block
IsBlockAvailable(fill) == fill = Block

BufferRemaining ==
    /\ Goto("render_rest", "empty")
    /\ IF IsBlockAvailable(render_blocker)
       THEN render_blocker' = 0 /\ BufferRender
       ELSE UNCHANGED <<render_blocker, bvars>>
    /\ UNCHANGED <<queue, capture_blocker, output_framer, dropped>>

\* ProcessCaptureFrameContent, once per sub-frame.
ProcessSubFrame ==
    /\ Goto("capture_1", "capture_2") \/ Goto("capture_2", "capture_rest")
    /\ capture_blocker' = capture_blocker + Remainder
    /\ output_framer' = output_framer - Remainder
    /\ CaptureBlock
    /\ UNCHANGED <<queue, render_blocker, dropped>>

\* ProcessRemainingCaptureFrameContent; the call returns.
ProcessRemaining ==
    /\ Goto("capture_rest", "idle")
    /\ IF IsBlockAvailable(capture_blocker)
       THEN /\ capture_blocker' = 0
            /\ output_framer' = output_framer + Block
            /\ CaptureBlock
       ELSE UNCHANGED <<capture_blocker, output_framer, bvars>>
    /\ UNCHANGED <<queue, render_blocker, dropped>>

Capture == \/ CaptureCall \/ RemoveFrame \/ QueueEmpty
           \/ BufferSubFrame \/ BufferRemaining
           \/ ProcessSubFrame \/ ProcessRemaining

Next == AnalyzeRender \/ Capture \/ \E ms \in StreamDelays : SetAudioBufferDelay3(ms)

Spec == Init /\ [][Next]_vars

\* The sound card keeps asking for capture frames, and calls return.
FairSpec == Spec /\ WF_vars(Capture)
-----------------------------------------------------------------------------
Places == {"idle", "empty", "render_1", "render_2", "render_rest",
           "capture_1", "capture_2", "capture_rest"}

TypeOK == /\ buffer \in BufferType
          /\ renderEvent \in BOOLEAN
          /\ render_properly_started \in BOOLEAN
          /\ capture_properly_started \in BOOLEAN
          /\ controller \in Delays \cup {NoDelay}
          /\ limited \in BOOLEAN
          /\ queue \in 0 .. QueueSize
          /\ render_blocker \in 0 .. Block
          /\ capture_blocker \in 0 .. Block
          /\ output_framer \in 0 .. Block
          /\ pc \in Places
          /\ dropped \in BOOLEAN

\* Four circular buffers of two directions stay at the same block.
IndicesInStep == InStep(buffer)

\* Delay() is the size of a distance: bursts of either side never make it negative.
DelayNotNegative == NeverAhead(buffer)

\* The delay the buffer says it is aligned to is the one it is aligned to,
\* unless it was too large for the buffer when it was applied.
DelayIsApplied ==
    buffer.delay # NoDelay /\ ~limited => ComputeDelay(buffer) = buffer.delay

\* While there is an estimate, the echo remover is told whenever the render
\* blocks it is given do not follow each other, whatever happened to the buffer
\* since the last capture block: an overrun whose event the next render block
\* overwrote, an excess of render blocks, a new delay.  Not told is an underrun,
\* and not always told when the sound card reports its delay.
JumpsAreTold ==
    /\ remover.estimate # NoDelay
    /\ remover.jumped
    /\ ~remover.underrun
    /\ buffer.external = NoDelay
    => remover.told \in {"newDelay", "flush"}

\* The framer holds exactly what the next step takes or leaves room for, so
\* that what goes in comes out one block later, frame after frame.
FramingKeepsStep ==
    /\ capture_blocker + output_framer = Block
    /\ pc \in {"capture_1", "capture_2"} =>
           /\ output_framer >= Remainder
           /\ capture_blocker <= Block - Remainder
    /\ pc \in {"render_1", "render_2"} => render_blocker <= Block - Remainder
    /\ pc \in {"idle", "empty"} => render_blocker < Block /\ capture_blocker < Block

\* Frames the full queue refused are not missed in silence: the frames it held
\* make the render delay buffer overrun and start anew.
DropsAreNoticed == [][ QueueEmpty /\ dropped => jumped ]_vars

\* However many render blocks were in excess, the latency is within what is
\* allowed again and again.
LatencyRecovers == []<>(BufferLatency(buffer) <= MaxExcess)
=============================================================================
