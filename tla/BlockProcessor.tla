--------------------------- MODULE BlockProcessor ---------------------------
(***************************************************************************)
(* The block processor of echo canceller 3 (aec3/block_processor.cc): it   *)
(* feeds render blocks to the render delay buffer, and for every capture   *)
(* block aligns the buffer with the delay controller's estimate and hands  *)
(* it to the echo remover, which must be told when the alignment jumps.    *)
(*                                                                         *)
(* The delay controller is abstract here (DelayEstimates, implemented by   *)
(* DelayControl): it has no delay after a reset, and once it has estimated *)
(* one keeps it or changes it.  The canceller uses its own delay estimator *)
(* (config.delay.use_external_delay_estimator is false, the default).      *)
(***************************************************************************)
EXTENDS RenderDelayBuffer

CONSTANTS Delays,         \* delays the controller estimates, in blocks
          StreamDelays    \* delays the sound card reports, in ms

ASSUME DelaysAssumption == Delays \subseteq Nat /\ StreamDelays \subseteq Nat

VARIABLES buffer,                    \* render_buffer_
          renderEvent,               \* render_event_ is kRenderOverrun
          render_properly_started,
          capture_properly_started,
          controller,                \* delay_ of the delay controller
          remover,                   \* what the echo remover was last given
          limited,                   \* the delay in use exceeds the buffer's room
          jumped                     \* the block to read next does not follow the last one

bvars == <<buffer, renderEvent, render_properly_started,
           capture_properly_started, controller, remover, limited, jumped>>

(***************************************************************************)
(* The last two are history.  remover is what the last call of             *)
(* echo_remover_->ProcessCapture was given: the estimated delay, the       *)
(* change of the echo path it was told, and, as history, whether the       *)
(* render block it was given follows the one of the call before, and       *)
(* whether there was an underrun.                                          *)
(***************************************************************************)
BInit ==
    /\ buffer = Constructed
    /\ renderEvent = FALSE
    /\ render_properly_started = FALSE
    /\ capture_properly_started = FALSE
    /\ controller = NoDelay
    /\ remover = [estimate |-> NoDelay, told |-> "none",
                  jumped |-> FALSE, underrun |-> FALSE]
    /\ limited = FALSE
    /\ jumped = FALSE

BufferRender ==
    /\ buffer' = Insert(buffer)
    /\ renderEvent' = InsertOverruns(buffer)
    /\ render_properly_started' = TRUE
    /\ limited' = (limited /\ ~InsertOverruns(buffer))
    /\ jumped' = (jumped \/ TotalDelay(buffer') # TotalDelay(buffer) + 1)
    /\ UNCHANGED <<capture_properly_started, controller, remover>>

\* Before any render block the capture block is left alone.
SkipCapture ==
    /\ ~render_properly_started
    /\ UNCHANGED bvars

\* The buffer as the delay controller finds it.
StartedBuffer == IF capture_properly_started THEN buffer ELSE Reset(buffer)
ControllerReset ==
    \/ ~capture_properly_started
    \/ renderEvent
    \/ Underruns(StartedBuffer)

Controller == INSTANCE DelayEstimates WITH fresh <- ControllerReset

\* GetDelay after the resets of this block: an estimate, or the one it had.
Estimates == Controller!Estimates(IF ControllerReset THEN NoDelay ELSE controller)

Told(b, estimate) ==
    IF estimate # NoDelay /\ DelayChanges(b, estimate) THEN "newDelay"
    ELSE IF renderEvent THEN "flush" ELSE "none"

ProcessCapture(estimate) ==
    LET prepared == PrepareCaptureProcessing(StartedBuffer)
        aligned == IF estimate # NoDelay THEN AlignFromDelay(prepared, estimate)
                                         ELSE prepared
        isReset == ~capture_properly_started \/ ExcessDetected(StartedBuffer)
    IN  /\ render_properly_started
        /\ estimate \in Estimates
        /\ capture_properly_started' = TRUE
        /\ renderEvent' = FALSE
        /\ controller' = estimate
        /\ buffer' = aligned
        /\ remover' = [estimate |-> estimate,
                       told |-> Told(prepared, estimate),
                       jumped |-> jumped \/ TotalDelay(aligned) # TotalDelay(buffer) - 1,
                       underrun |-> Underruns(StartedBuffer)]
        /\ jumped' = FALSE
        /\ limited' = IF estimate # NoDelay /\ DelayChanges(prepared, estimate)
                      THEN DelayLimited(prepared, estimate)
                      ELSE limited /\ ~isReset
        /\ UNCHANGED render_properly_started

ReportDelay(ms) ==
    /\ buffer' = SetAudioBufferDelay(buffer, ms)
    /\ UNCHANGED <<renderEvent, render_properly_started, capture_properly_started,
                   controller, remover, limited, jumped>>

CaptureBlock ==
    \/ SkipCapture
    \/ \E estimate \in Delays \cup {NoDelay} : ProcessCapture(estimate)

BNext == BufferRender \/ CaptureBlock \/ \E ms \in StreamDelays : ReportDelay(ms)

BSpec == BInit /\ [][BNext]_bvars
=============================================================================
