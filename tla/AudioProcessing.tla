-------------------------- MODULE AudioProcessing --------------------------
(***************************************************************************)
(* webrtc::AudioProcessingImpl: a capture thread in ProcessStream, a       *)
(* render thread in ProcessReverseStream and API threads in ApplyConfig    *)
(* and Initialize share submodules, formats and render queues under the    *)
(* mutexes mutex_render_ and mutex_capture_.                               *)
(*                                                                         *)
(* A stream format is its number of samples per 10 ms frame (rate / 100);  *)
(* 0 is a format InitializeLocked refuses.  One number stands for the      *)
(* input and output of a direction.  A step is a stretch of code between   *)
(* two points where another thread can be seen: the acquisition of a       *)
(* mutex, an operation on a render queue, a read of submodule_states_      *)
(* (which the capture thread writes without mutex_render_).                *)
(***************************************************************************)
EXTENDS Integers, FiniteSets

CONSTANTS
    Configs,        \* the settings ApplyConfig may be given
    CaptureFormats, \* what ProcessStream may be called with
    RenderFormats,  \* what ProcessReverseStream may be called with
    Api,            \* threads calling ApplyConfig and Initialize
    ApiCalls,       \* which of "ApplyConfig", "Initialize", "InitializeTo" they call
    QueueSize       \* kMaxNumFramesToBuffer

ASSUME QueueSizeAssumption == QueueSize \in Nat \ {0}
ASSUME FormatAssumption == CaptureFormats \subseteq Nat /\ RenderFormats \subseteq Nat
ASSUME ApiAssumption == Api \cap {"capture", "render", "nobody"} = {}
ASSUME ConfigAssumption ==
    Configs \subseteq [aec : {"off", "full", "mobile"},
                       agc : {"off", "digital", "analog"},
                       ns : BOOLEAN, maxRate : {320, 480}]

Threads == {"capture", "render"} \cup Api
Nobody == "nobody"
Queues == {"aecm", "agc", "red"}
Modules == {"echo_controller", "echo_control_mobile", "gain_control",
            "agc_manager", "noise_suppressor"}

VARIABLES
    renderLock, captureLock, \* owners of mutex_render_ and mutex_capture_
    pc,                      \* where each thread is
    config,                  \* config_
    submodules,              \* the non-null pointers of submodules_
    states,                  \* submodule_states_: the modules last seen active
    api,                     \* formats_.api_format
    captureRate,             \* capture_processing_format
    renderRate,              \* render_processing_format and render_audio
    controllerRate,          \* the rate echo_controller was created for
    len,                     \* number of frames in each render queue
    full,                    \* the queue whose Insert failed, retried next
    captureCall, renderCall, \* the format given by the call in progress
    copy                     \* MaybeInitializeCapture's processing_config

locks == <<renderLock, captureLock>>
setup == <<config, submodules, states, api, captureRate, renderRate,
           controllerRate>>
locals == <<full, captureCall, renderCall, copy>>
vars == <<locks, pc, setup, len, locals>>

(***************************************************************************)
(* Pure helpers                                                            *)
(***************************************************************************)

\* Modules of SubmoduleStates that make each side work in frequency bands.
\* noise_suppressor stands for every capture-only multi-band module.
MultiBandModules == {"echo_control_mobile", "gain_control", "echo_controller"}
RenderMultiBandActive(s) == s \cap MultiBandModules # {}
CaptureMultiBandActive(s) == s \cap (MultiBandModules \cup {"noise_suppressor"}) # {}

\* UpdateActiveSubmoduleStates looks at everything but the AGC manager.
Active(mods) == mods \ {"agc_manager"}

SuitableProcessRate(minimum, maxSplit, splitting) ==
    LET top == IF splitting THEN maxSplit ELSE 480
    IN  IF minimum <= 160 THEN 160
        ELSE IF minimum <= 320 /\ top > 320 THEN 320 ELSE top

EchoModules(c) == CASE c.aec = "full"   -> {"echo_controller"}
                    [] c.aec = "mobile" -> {"echo_control_mobile"}
                    [] OTHER            -> {}
GainModules(c) == CASE c.agc = "off"     -> {}
                    [] c.agc = "digital" -> {"gain_control"}
                    [] OTHER             -> {"gain_control", "agc_manager"}
NoiseModules(c) == IF c.ns THEN {"noise_suppressor"} ELSE {}
ModulesOf(c) == EchoModules(c) \cup GainModules(c) \cup NoiseModules(c)

\* An AudioBuffer of n samples has one band per 160 when n is 160, 320 or 480.
SamplesPerBand(n) == IF n \in {160, 320, 480} THEN 160 ELSE n

Max2(a, b) == IF a > b THEN a ELSE b

(***************************************************************************)
(* InitializeLocked                                                        *)
(***************************************************************************)

\* InitializeLocked(): submodules are rebuilt from the settings and every
\* render queue is emptied, at the rates already in the formats.
Reinitialize(mods) ==
    /\ states' = Active(mods)
    /\ submodules' = ModulesOf(config')
    /\ controllerRate' = captureRate'
    /\ len' = [q \in Queues |-> 0]

Refused(f) == f.capture = 0 \/ f.reverse = 0

\* InitializeLocked(config): computes the processing rates from the formats f
\* and the active modules first.  A refused format changes nothing but what
\* UpdateActiveSubmoduleStates recorded.
ReinitializeTo(f, mods) ==
    LET s == Active(mods)
        splitting == CaptureMultiBandActive(s) \/ RenderMultiBandActive(s)
        capture == SuitableProcessRate(f.capture, config'.maxRate, splitting)
        render == IF "echo_controller" \in s THEN capture
                  ELSE SuitableProcessRate(f.reverse, config'.maxRate, splitting)
    IN  IF Refused(f)
        THEN /\ states' = s
             /\ submodules' = mods
             /\ UNCHANGED <<api, captureRate, renderRate, controllerRate, len>>
        ELSE /\ api' = f
             /\ captureRate' = capture
             /\ renderRate' = IF RenderMultiBandActive(s)
                              THEN Max2(render, 160) ELSE f.reverse
             /\ Reinitialize(mods)

Init ==
    /\ renderLock = Nobody /\ captureLock = Nobody
    /\ pc = [t \in Threads |-> "idle"]
    /\ config \in {c \in Configs : c.aec = "off" /\ c.agc = "off" /\ ~ c.ns}
    /\ submodules = {} /\ states = {}
    /\ api = [capture |-> 160, reverse |-> 160]
    /\ captureRate = 160 /\ renderRate = 160 /\ controllerRate = 160
    /\ len = [q \in Queues |-> 0]
    /\ full = "red"
    /\ captureCall = 160 /\ renderCall = 160
    /\ copy = api

Goto(t, label) == pc' = [pc EXCEPT ![t] = label]

(***************************************************************************)
(* EmptyQueuedRenderAudioLocked, run by the capture thread and, when a     *)
(* queue is full, by the render thread: one Remove per step.               *)
(***************************************************************************)

\* Fault: the gain control queue is emptied only for the analog gain control.
DrainableForManager(q) ==
    CASE q = "aecm" -> "echo_control_mobile" \in submodules
      [] q = "agc"  -> "agc_manager" \in submodules
      [] OTHER      -> TRUE

\* The submodule that makes the drain of a queue happen.
Drainable(q) == CASE q = "aecm" -> "echo_control_mobile" \in submodules
                  [] q = "agc"  -> "gain_control" \in submodules
                  [] OTHER      -> TRUE

DrainStage(q) == CASE q = "aecm" -> "drain_aecm"
                   [] q = "agc"  -> "drain_agc"
                   [] OTHER      -> "drain_red"

DrainOne(t, q) ==
    /\ pc[t] = DrainStage(q)
    /\ Drainable(q) /\ len[q] > 0
    /\ len' = [len EXCEPT ![q] = @ - 1]
    /\ UNCHANGED <<locks, pc, setup, locals>>

DrainDone(t, q) ==
    /\ pc[t] = DrainStage(q)
    /\ ~ (Drainable(q) /\ len[q] > 0)
    /\ IF q = "red" /\ t = "render"
       THEN captureLock' = Nobody /\ Goto(t, "retry")
       ELSE /\ Goto(t, CASE q = "aecm" -> "drain_agc"
                         [] q = "agc"  -> "drain_red"
                         [] OTHER      -> "process")
            /\ UNCHANGED captureLock
    /\ UNCHANGED <<renderLock, setup, len, locals>>

Drain(t) == \E q \in Queues : DrainOne(t, q) \/ DrainDone(t, q)

(***************************************************************************)
(* ProcessStream                                                           *)
(***************************************************************************)

CaptureCall(f) ==
    /\ pc["capture"] = "idle"
    /\ captureCall' = f
    /\ Goto("capture", "check")
    /\ UNCHANGED <<locks, setup, len, full, renderCall, copy>>

\* Fault: a new input format alone does not reinitialize.
NeedsReinitForModules == states # Active(submodules)

\* Fault: a new set of active modules alone does not reinitialize.
NeedsReinitForFormat == api.capture # captureCall

NeedsReinit == states # Active(submodules) \/ api.capture # captureCall

\* Fault: keeps mutex_capture_ while it goes for mutex_render_.
CaptureCheckKeepsLock ==
    /\ pc["capture"] = "check"
    /\ captureLock = Nobody
    /\ copy' = [api EXCEPT !.capture = captureCall]
    /\ states' = Active(submodules)
    /\ IF NeedsReinit THEN captureLock' = "capture" /\ Goto("capture", "want_render")
                      ELSE UNCHANGED captureLock /\ Goto("capture", "want_capture")
    /\ UNCHANGED <<renderLock, config, submodules, api, captureRate, renderRate,
                   controllerRate, len, full, captureCall, renderCall>>

\* MaybeInitializeCapture: the formats are copied, and submodule_states_
\* updated, under mutex_capture_ alone.
CaptureCheck ==
    /\ pc["capture"] = "check"
    /\ captureLock = Nobody
    /\ copy' = [api EXCEPT !.capture = captureCall]
    /\ states' = Active(submodules)
    /\ Goto("capture", IF NeedsReinit THEN "want_render" ELSE "want_capture")
    /\ UNCHANGED <<locks, config, submodules, api, captureRate, renderRate,
                   controllerRate, len, full, captureCall, renderCall>>

CaptureTakesRender ==
    /\ pc["capture"] = "want_render"
    /\ renderLock = Nobody
    /\ renderLock' = "capture"
    /\ Goto("capture", "want_both")
    /\ UNCHANGED <<captureLock, setup, len, locals>>

CaptureReinitialize ==
    /\ pc["capture"] = "want_both"
    /\ captureLock = Nobody
    /\ config' = config
    /\ ReinitializeTo(copy, submodules)
    /\ renderLock' = Nobody
    /\ Goto("capture", IF Refused(copy) THEN "idle" ELSE "want_capture")
    /\ UNCHANGED <<captureLock, locals>>

\* The second acquisition of mutex_capture_, up to the drain of the queues.
CaptureTakesCapture ==
    /\ pc["capture"] = "want_capture"
    /\ captureLock = Nobody
    /\ captureLock' = "capture"
    /\ Goto("capture", "drain_aecm")
    /\ UNCHANGED <<renderLock, setup, len, locals>>

\* The rest of ProcessCaptureStreamLocked.
CaptureProcess ==
    /\ pc["capture"] = "process"
    /\ captureLock' = Nobody
    /\ Goto("capture", "idle")
    /\ UNCHANGED <<renderLock, setup, len, locals>>

Capture == \/ \E f \in CaptureFormats : CaptureCall(f)
           \/ CaptureCheck
           \/ CaptureTakesRender
           \/ CaptureReinitialize
           \/ CaptureTakesCapture
           \/ CaptureProcess
           \/ Drain("capture")

(***************************************************************************)
(* ProcessReverseStream and AnalyzeReverseStream: the whole call holds     *)
(* mutex_render_.                                                          *)
(***************************************************************************)

\* Fault: compares with the processing format instead of the API format.
RenderCallComparesRate(f) ==
    /\ pc["render"] = "idle"
    /\ renderLock = Nobody
    /\ renderLock' = "render"
    /\ renderCall' = f
    /\ Goto("render", IF renderRate = f THEN "queue_red" ELSE "want_capture")
    /\ UNCHANGED <<captureLock, setup, len, full, captureCall, copy>>

RenderCall(f) ==
    /\ pc["render"] = "idle"
    /\ renderLock = Nobody
    /\ renderLock' = "render"
    /\ renderCall' = f
    /\ Goto("render", IF api.reverse = f THEN "queue_red" ELSE "want_capture")
    /\ UNCHANGED <<captureLock, setup, len, full, captureCall, copy>>

\* MaybeInitializeRender with a format that differs.
RenderReinitialize ==
    /\ pc["render"] = "want_capture"
    /\ captureLock = Nobody
    /\ config' = config
    /\ LET f == [api EXCEPT !.reverse = renderCall]
       IN  /\ ReinitializeTo(f, submodules)
           /\ IF Refused(f)
              THEN renderLock' = Nobody /\ Goto("render", "idle")
              ELSE UNCHANGED renderLock /\ Goto("render", "queue_red")
    /\ UNCHANGED <<captureLock, locals>>

\* What follows the Insert into each queue.
After(q) == CASE q = "red"  -> "band"
              [] q = "aecm" -> "queue_agc"
              [] OTHER      -> "analyze"

\* Whether the render thread feeds a queue at all.
Fed(q) == CASE q = "aecm" -> "echo_control_mobile" \in submodules
            [] q = "agc"  -> "gain_control" \in submodules
                             /\ "agc_manager" \notin submodules
            [] OTHER      -> TRUE

QueueStage(q) == CASE q = "red"  -> "queue_red"
                   [] q = "aecm" -> "queue_aecm"
                   [] OTHER      -> "queue_agc"

\* Fault: waits for room in a full queue.
RenderInsertBlocks(q) ==
    /\ pc["render"] = QueueStage(q)
    /\ ~ (Fed(q) /\ len[q] = QueueSize)
    /\ len' = [len EXCEPT ![q] = IF Fed(q) THEN @ + 1 ELSE @]
    /\ Goto("render", After(q))
    /\ UNCHANGED <<locks, setup, locals>>

\* QueueNonbandedRenderAudio, QueueBandedRenderAudio: Insert.
RenderInsert(q) ==
    /\ pc["render"] = QueueStage(q)
    /\ IF Fed(q) /\ len[q] = QueueSize
       THEN full' = q /\ Goto("render", "empty") /\ UNCHANGED len
       ELSE /\ len' = [len EXCEPT ![q] = IF Fed(q) THEN @ + 1 ELSE @]
            /\ Goto("render", After(q))
            /\ UNCHANGED full
    /\ UNCHANGED <<locks, setup, captureCall, renderCall, copy>>

\* Fault: empties the queues without mutex_capture_.
RenderEmptyUnlocked ==
    /\ pc["render"] = "empty"
    /\ Goto("render", "drain_aecm")
    /\ UNCHANGED <<locks, setup, len, locals>>

\* "The data queue is full and needs to be emptied."
RenderEmpty ==
    /\ pc["render"] = "empty"
    /\ captureLock = Nobody
    /\ captureLock' = "render"
    /\ Goto("render", "drain_aecm")
    /\ UNCHANGED <<renderLock, setup, len, locals>>

\* "Retry the insert (should always work)." A full queue refuses again.
RenderRetry ==
    /\ pc["render"] = "retry"
    /\ len' = [len EXCEPT ![full] = IF @ < QueueSize THEN @ + 1 ELSE @]
    /\ Goto("render", After(full))
    /\ UNCHANGED <<locks, setup, locals>>

RenderBand ==
    /\ pc["render"] = "band"
    /\ Goto("render", IF RenderMultiBandActive(states) THEN "queue_aecm" ELSE "analyze")
    /\ UNCHANGED <<locks, setup, len, locals>>

\* echo_controller->AnalyzeRender, and the return.
RenderAnalyze ==
    /\ pc["render"] = "analyze"
    /\ renderLock' = Nobody
    /\ Goto("render", "idle")
    /\ UNCHANGED <<captureLock, setup, len, full, captureCall, renderCall, copy>>

Render == \/ \E f \in RenderFormats : RenderCall(f)
          \/ RenderReinitialize
          \/ \E q \in Queues : RenderInsert(q)
          \/ RenderEmpty
          \/ RenderRetry
          \/ RenderBand
          \/ RenderAnalyze
          \/ Drain("render")

(***************************************************************************)
(* ApplyConfig and Initialize, under both mutexes                          *)
(***************************************************************************)

Formats == [capture : CaptureFormats, reverse : RenderFormats]

\* The call's argument matters, and is chosen, when its body runs.
ApiCall(t) ==
    /\ pc[t] = "idle"
    /\ Goto(t, "want_render")
    /\ UNCHANGED <<locks, setup, len, locals>>

ApiTakesRender(t) ==
    /\ pc[t] = "want_render"
    /\ renderLock = Nobody
    /\ renderLock' = t
    /\ Goto(t, "want_both")
    /\ UNCHANGED <<captureLock, setup, len, locals>>

\* Fault: sees gain control switched on or off, but no change of its kind.
GainChangedOnOff(c) == (c.agc = "off") # (config.agc = "off")

GainChanged(c) == c.agc # config.agc

\* ApplyConfig: the submodules whose settings changed are rebuilt at once,
\* the formats only when a pipeline setting changed.
Apply(c) ==
    LET aecChanged == c.aec # config.aec
        mods == (IF aecChanged THEN EchoModules(c)
                 ELSE submodules \cap {"echo_controller", "echo_control_mobile"})
                \cup (IF GainChanged(c) THEN GainModules(c)
                      ELSE submodules \cap {"gain_control", "agc_manager"})
                \cup (IF c.ns # config.ns THEN NoiseModules(c)
                      ELSE submodules \cap {"noise_suppressor"})
    IN  /\ config' = c
        /\ IF c.maxRate # config.maxRate
           THEN ReinitializeTo(api, mods)
           ELSE /\ submodules' = mods
                /\ controllerRate' = IF aecChanged THEN captureRate
                                                   ELSE controllerRate
                /\ len' = [len EXCEPT !["aecm"] = IF aecChanged THEN 0 ELSE @]
                /\ UNCHANGED <<states, api, captureRate, renderRate>>

ApiBody(t) ==
    /\ pc[t] = "want_both"
    /\ captureLock = Nobody
    /\ \/ /\ "ApplyConfig" \in ApiCalls
          /\ \E c \in Configs : Apply(c)
       \/ /\ "Initialize" \in ApiCalls
          /\ config' = config
          /\ UNCHANGED <<api, captureRate, renderRate>>
          /\ Reinitialize(submodules)
       \/ /\ "InitializeTo" \in ApiCalls
          /\ config' = config
          /\ \E f \in Formats : ReinitializeTo(f, submodules)
    /\ renderLock' = Nobody
    /\ Goto(t, "idle")
    /\ UNCHANGED <<captureLock, locals>>

Other(t) == \/ ApiCall(t)
            \/ ApiTakesRender(t)
            \/ ApiBody(t)

Next == Capture \/ Render \/ \E t \in Api : Other(t)

Spec == Init /\ [][Next]_vars

\* Threads need not make calls, but those in a call go on; a mutex that is
\* free again and again is at last given to the render thread.
RenderGoesOn == \/ \E q \in Queues : RenderInsert(q)
                \/ RenderRetry \/ RenderBand \/ RenderAnalyze \/ Drain("render")
Fairness == /\ WF_vars(RenderGoesOn)
            /\ SF_vars(RenderReinitialize) /\ SF_vars(RenderEmpty)
            /\ WF_vars(Drain("capture")) /\ WF_vars(CaptureProcess)

FairSpec == Spec /\ Fairness

(***************************************************************************)
(* Properties                                                              *)
(***************************************************************************)

Idle(t) == pc[t] = "idle"

\* The stages in which a thread uses submodules, formats and queues.
Draining(t) == pc[t] \in {"drain_aecm", "drain_agc", "drain_red"}
Using(t) == \/ Draining(t)
            \/ pc[t] \in {"process", "queue_red", "empty", "retry", "band",
                           "queue_aecm", "queue_agc", "analyze"}

Stages == {"idle", "check", "want_render", "want_both", "want_capture",
           "drain_aecm", "drain_agc", "drain_red", "process", "queue_red",
           "empty", "retry", "band", "queue_aecm", "queue_agc",
           "analyze"}

TypeOK ==
    /\ renderLock \in Threads \cup {Nobody}
    /\ captureLock \in Threads \cup {Nobody}
    /\ pc \in [Threads -> Stages]
    /\ config \in Configs
    /\ submodules \subseteq Modules
    /\ states \subseteq Modules
    /\ api \in [capture : Nat, reverse : Nat]
    /\ captureRate \in Nat /\ renderRate \in Nat /\ controllerRate \in Nat
    /\ len \in [Queues -> 0 .. QueueSize]
    /\ full \in Queues
    /\ captureCall \in Nat /\ renderCall \in Nat
    /\ copy \in [capture : Nat, reverse : Nat]

WaitsForRender(t) == pc[t] = "want_render"
WaitsForCapture(t) == pc[t] \in {"check", "want_both", "want_capture", "empty"}
BlockedBy(t, u) == \/ WaitsForRender(t) /\ renderLock = u
                   \/ WaitsForCapture(t) /\ captureLock = u

\* No two threads wait for each other's mutex, and none waits for its own
\* (Mutex is not reentrant): mutex_render_ is always taken first, although
\* the capture thread starts every call with mutex_capture_ and the render
\* thread empties a full queue in the middle of its own call.
NoCircularWait == \A t, u \in Threads : ~ (BlockedBy(t, u) /\ BlockedBy(u, t))

\* The render queues have the single consumer SwapQueue requires, although
\* both the capture and the render thread empty them.
SingleConsumer == \A t, u \in Threads : Draining(t) /\ Draining(u) => t = u

\* "Retry the insert (should always work)" (audio_processing_impl.cc:915): the
\* drain that a full queue triggers leaves room in that very queue, whatever
\* submodules are enabled and whatever the other threads do meanwhile.
RetryAlwaysInserts == pc["render"] = "retry" => len[full] < QueueSize

\* ProcessStream releases mutex_capture_ between MaybeInitializeCapture and the
\* processing, and decides from a copy of the formats; the buffers it then
\* fills still have the format of this very call.
CaptureSeesItsFormat ==
    Draining("capture") \/ pc["capture"] = "process" => api.capture = captureCall

\* The render thread's buffer has the format of the call in progress (the
\* DCHECK_EQ at audio_processing_impl.cc:1382), although the capture thread
\* reinitializes with a stale copy of the render format.
RenderSeesItsFormat ==
    Using("render") => api.reverse = renderCall

\* Formats and submodules are never rebuilt under a thread that uses them.
RebuiltOnlyWhenUnused ==
    [][\/ UNCHANGED <<api, submodules, captureRate, renderRate>>
       \/ \A t \in Threads : ~ Using(t)]_vars

\* ApplyConfig rebuilds a submodule only when it sees its setting change; what
\* exists is nevertheless exactly what the settings in force ask for, and
\* never both echo cancellers (audio_processing_impl.cc:1067).
SubmodulesFollowConfig == submodules = ModulesOf(config)

\* RTC_DCHECK_EQ(AudioBuffer::kSplitBandSize, input.num_frames_per_band()) and
\* RTC_DCHECK_EQ(num_bands_, input.num_bands()) of the echo controller's render
\* writer (echo_canceller3.cc:617).
EchoControllerInput ==
    pc["render"] = "analyze" /\ "echo_controller" \in submodules
        => SamplesPerBand(renderRate) = 160 /\ renderRate = controllerRate

\* Every render call returns, even if the capture thread never calls again: a
\* full queue is emptied by the render thread itself.
RenderReturns == pc["render"] # "idle" ~> pc["render"] = "idle"

\* RTC_DCHECK_GE(160, audio->num_frames_per_band()) of QueueBandedRenderAudio
\* (audio_processing_impl.cc:903) when no other call is in progress.
QuietBandedInput ==
    pc["render"] = "queue_aecm" /\ (\A t \in Threads \ {"render"} : Idle(t))
        => SamplesPerBand(renderRate) <= 160
=============================================================================
