-------------------------- MODULE EchoControlMobile --------------------------
(***************************************************************************)
(* The mobile echo canceller's wrapper (aecm/echo_control_mobile.cc): far- *)
(* end frames wait in a ring buffer for the capture call that will play    *)
(* the echo of them.  At start up the canceller is off until the reported  *)
(* sound card delay is stable and the buffer holds three quarters of it;   *)
(* later the read pointer is moved, and knownDelay adapted, as the delay   *)
(* drifts from what the buffer holds.                                      *)
(*                                                                         *)
(* A render call brings one frame of 80 samples (8 kHz, Mult = 1) or two   *)
(* (16 kHz, Mult = 2) and a capture call takes as many.  Lengths are       *)
(* counted in a unit of samples that the instance chooses; a delay is      *)
(* counted in the time one such unit lasts at 8 kHz.                       *)
(***************************************************************************)
EXTENDS RingBuffer, Sequences, Functions, SequencesExt

CONSTANTS Mult,           \* aecmCore->mult, 1 or 2
          FrameLen,       \* FRAME_LEN
          BufFrames,      \* BUF_SIZE_FRAMES
          FarBufLen,      \* FAR_BUF_LEN
          MaxStuffFrames, \* maxStuffSamp / FRAME_LEN
          Slack,          \* kSampMsNb, as a delay
          StartFrames,    \* stable reports asked for: 6
          CheckFrames,    \* reports after which any delay will do: 50
          HighDiff, LowDiff, TargetDiff,  \* 224, 96 and 160 samples
          HoldFrames,     \* 25
          FilterWeight,   \* one new delay in so many: 5
          SoundCardDelays \* the delays a capture call can report, 0..500 ms

ASSUME MobileAssumption ==
    /\ Mult \in {1, 2}
    /\ {FrameLen, BufFrames, FarBufLen, MaxStuffFrames, StartFrames,
        CheckFrames, FilterWeight} \subseteq Nat \ {0}
    /\ {Slack, HighDiff, LowDiff, TargetDiff, HoldFrames} \subseteq Nat
    /\ LowDiff < HighDiff
    /\ SoundCardDelays \subseteq Nat

VARIABLES farendBuf,          \* the positions of the far-end ring buffer
          msInSndCardBuf,     \* the last reported delay, plus 10 ms
          ECstartup, checkBuffSize,
          checkBufSizeCtr, counter, firstVal, sum, bufSizeStart,
          filtDelay, knownDelay, lastDelayDiff, timeForDelayChange,
          reports,            \* history: the delays while checkBuffSize held
          side, held          \* history: where the last estimates were, and
                              \* how many in a row
startup == <<ECstartup, checkBuffSize, checkBufSizeCtr, counter, firstVal, sum,
             bufSizeStart, reports>>
estimate == <<filtDelay, knownDelay, lastDelayDiff, timeForDelayChange, side, held>>
mvars == <<farendBuf, msInSndCardBuf, startup, estimate>>

BufSize == BufFrames * FrameLen
Buffered == AvailableRead(BufSize, farendBuf)
FilledFrames == Buffered \div FrameLen
Abs(x) == IF x < 0 THEN -x ELSE x

\* WebRtcAecm_Init.  msInSndCardBuf has no value before the first capture
\* call, and no use: render calls look at it after start up.
MobileInit == /\ farendBuf = InitBuffer
              /\ msInSndCardBuf = 0
              /\ ECstartup = TRUE
              /\ checkBuffSize = TRUE
              /\ checkBufSizeCtr = 0
              /\ counter = 0
              /\ firstVal = 0
              /\ sum = 0
              /\ bufSizeStart = 0
              /\ filtDelay = 0
              /\ knownDelay = 0
              /\ lastDelayDiff = 0
              /\ timeForDelayChange = 0
              /\ reports = << >>
              /\ side = "inside"
              /\ held = 0

TenMs == FrameLen

MobileReset ==
    /\ farendBuf' = InitBuffer
    /\ ECstartup' = TRUE
    /\ checkBuffSize' = TRUE
    /\ checkBufSizeCtr' = 0
    /\ counter' = 0
    /\ firstVal' = 0
    /\ sum' = 0
    /\ bufSizeStart' = 0
    /\ filtDelay' = 0
    /\ knownDelay' = 0
    /\ lastDelayDiff' = 0
    /\ timeForDelayChange' = 0
    /\ reports' = << >>
    /\ side' = "inside"
    /\ held' = 0
    /\ UNCHANGED msInSndCardBuf

-----------------------------------------------------------------------------
(* Render.                                                                 *)

\* WebRtcAecm_DelayComp: when the sound card holds much more than the buffer,
\* frames already read are put back.
Stuffing == Smaller(Larger((msInSndCardBuf * Mult) \div 2 - Buffered, FrameLen),
                    MaxStuffFrames * FrameLen)

DelayComp == IF msInSndCardBuf * Mult - Buffered > FarBufLen - FrameLen * Mult
             THEN MoveReadPtr(BufSize, farendBuf, -Stuffing)
             ELSE farendBuf

BufferFarend ==
    /\ \E b \in {IF ECstartup THEN farendBuf ELSE DelayComp} :
          farendBuf' = WriteBuffer(BufSize, b, Mult * FrameLen)
    /\ UNCHANGED <<msInSndCardBuf, startup, estimate>>

-----------------------------------------------------------------------------
(* Capture during start up.                                                *)

\* 75 % of an average delay, in frames of 80 samples.
FramesOf(total, reported) ==
    Smaller((3 * total * Mult) \div (4 * FrameLen * reported), BufFrames)

NewFirst(ms) == IF counter = 0 THEN ms ELSE firstVal
IsStable(ms) == 5 * Abs(NewFirst(ms) - ms) < Larger(ms, 5 * Slack)

SumAfterKept(ms) == sum + ms
SumAfter(ms) == (IF counter = 0 THEN 0 ELSE sum) + ms

CheckDelay(ms) ==
    /\ checkBufSizeCtr' = checkBufSizeCtr + 1
    /\ firstVal' = NewFirst(ms)
    /\ IF IsStable(ms)
       THEN counter' = counter + 1 /\ sum' = SumAfter(ms)
       ELSE counter' = 0 /\ sum' = (IF counter = 0 THEN 0 ELSE sum)
    /\ checkBuffSize' = ~(counter' >= StartFrames \/ checkBufSizeCtr' > CheckFrames)
    /\ reports' = (IF checkBuffSize' THEN Append(reports, ms) ELSE << >>)
    /\ bufSizeStart' = CASE checkBufSizeCtr' > CheckFrames -> FramesOf(ms, 1)
                         [] counter' >= StartFrames
                            /\ checkBufSizeCtr' =< CheckFrames -> FramesOf(sum', counter')
                         [] OTHER -> bufSizeStart

KeepDelay == UNCHANGED <<checkBufSizeCtr, reports, firstVal, counter, sum,
                         checkBuffSize, bufSizeStart>>

\* Once the delay is known the canceller is enabled, with what the buffer
\* holds in excess of it thrown away.
IsFilledExactly == FilledFrames = bufSizeStart'
IsFilled == FilledFrames >= bufSizeStart'

Enable == /\ IsFilled
          /\ ECstartup' = FALSE
          /\ farendBuf' = IF FilledFrames > bufSizeStart'
                          THEN MoveReadPtr(BufSize, farendBuf,
                                           Buffered - bufSizeStart' * FrameLen)
                          ELSE farendBuf

StayOff == /\ checkBuffSize' \/ ~IsFilled
           /\ UNCHANGED <<ECstartup, farendBuf>>

ProcessStartup(ms) ==
    /\ ECstartup
    /\ msInSndCardBuf' = ms
    /\ IF checkBuffSize THEN CheckDelay(ms) ELSE KeepDelay
    /\ (~checkBuffSize' /\ Enable) \/ StayOff
    /\ UNCHANGED estimate

-----------------------------------------------------------------------------
(* Capture while enabled.                                                  *)

\* The next far-end frame is read if there is one; else the last is reused.
FrameTaken(b) == IF AvailableRead(BufSize, b) >= FrameLen
                 THEN ReadBuffer(BufSize, b, FrameLen)
                 ELSE b

FramesTaken == {IF Mult = 1 THEN b ELSE FrameTaken(b) : b \in {FrameTaken(farendBuf)}}

Filtered(new) == Larger(0, ((FilterWeight - 1) * filtDelay + new) \div FilterWeight)

SideOf(diff) == CASE diff > HighDiff -> "high"
                  [] diff < LowDiff /\ knownDelay > 0 -> "low"
                  [] OTHER -> "inside"

HeldCountAnySide(diff) == IF SideOf(diff) = "inside" THEN 0 ELSE timeForDelayChange + 1

\* A difference that came from the other side starts the count anew.
HeldCount(diff) ==
    CASE SideOf(diff) = "high" -> IF lastDelayDiff < LowDiff THEN 0
                                  ELSE timeForDelayChange + 1
      [] SideOf(diff) = "low"  -> IF lastDelayDiff > HighDiff THEN 0
                                  ELSE timeForDelayChange + 1
      [] OTHER -> 0

\* The read pointer moves on when the buffer b holds too much for the delay.
AfterSkip(b, surplus) == IF surplus < FrameLen THEN MoveReadPtr(BufSize, b, FrameLen) ELSE b
NewDelay(surplus) == IF surplus < FrameLen THEN surplus + FrameLen ELSE surplus

\* WebRtcAecm_EstBufDelay: surplus is what the sound card holds beyond the buffer.
EstBufDelay(surplus) ==
    /\ filtDelay' = Filtered(NewDelay(surplus))
    /\ lastDelayDiff' = filtDelay' - knownDelay
    /\ timeForDelayChange' = HeldCount(lastDelayDiff')
    /\ knownDelay' = IF timeForDelayChange' > HoldFrames
                     THEN Larger(filtDelay' - TargetDiff, 0)
                     ELSE knownDelay
    /\ side' = SideOf(lastDelayDiff')
    /\ held' = IF side' = "inside" THEN 0 ELSE IF side' = side THEN held + 1 ELSE 1

ProcessEnabled(ms) ==
    /\ ~ECstartup
    /\ msInSndCardBuf' = ms
    /\ \E b \in FramesTaken : \E surplus \in {ms * Mult - AvailableRead(BufSize, b)} :
          /\ EstBufDelay(surplus)
          /\ farendBuf' = AfterSkip(b, surplus)
    /\ UNCHANGED startup

\* WebRtcAecm_Process: delays out of range are clamped before this, and 10 ms
\* are added.
Process == \E d \in SoundCardDelays : \/ ProcessStartup(d + TenMs)
                                      \/ ProcessEnabled(d + TenMs)

MobileNext == MobileReset \/ BufferFarend \/ Process
MobileSpec == MobileInit /\ [][MobileNext]_mvars

-----------------------------------------------------------------------------
(* The state has its type; the buffer's positions agree with its wrap.     *)
MobileTypeOK ==
    /\ Consistent(BufSize, farendBuf)
    /\ {msInSndCardBuf, checkBufSizeCtr, counter, firstVal, sum, bufSizeStart,
        filtDelay, knownDelay, timeForDelayChange, held} \subseteq Nat
    /\ {ECstartup, checkBuffSize} \subseteq BOOLEAN
    /\ bufSizeStart =< BufFrames
    /\ lastDelayDiff \in Int
    /\ reports \in Seq(Nat)
    /\ side \in {"low", "inside", "high"}

(* The canceller starts with exactly the far-end frames it decided on.     *)
StartsWithDelay ==
    [][ECstartup /\ ~ECstartup' => AvailableRead(BufSize, farendBuf') = bufSizeStart' * FrameLen]_mvars

(* A start up that does not run out of time rests on StartFrames delays    *)
(* reported in a row, all near the first of them: the buffer is to hold    *)
(* three quarters of their average.                                        *)
Near(first, ms) == 5 * Abs(first - ms) < Larger(ms, 5 * Slack)

StartFollowsReports ==
    [][checkBuffSize /\ ~checkBuffSize' /\ checkBufSizeCtr' =< CheckFrames =>
         LET all == Append(reports, msInSndCardBuf')
             last == SubSeq(all, Len(all) - StartFrames + 1, Len(all))
         IN  /\ Len(all) >= StartFrames
             /\ \A i \in 1..StartFrames : Near(last[1], last[i])
             /\ bufSizeStart' = FramesOf(FoldFunction(+, 0, last), StartFrames)]_mvars

(* The known delay is only changed once more than HoldFrames successive    *)
(* estimates were off to the same side.                                    *)
DelayChangesAreHeld ==
    [][knownDelay' # knownDelay => MobileReset \/ (side' # "inside" /\ held' > HoldFrames)]_mvars

=============================================================================
