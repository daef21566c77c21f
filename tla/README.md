# Verification of webrtc-audio-processing and its C wrapper

TLA+ models of the audio processing module (APM) built by this repository, TLC
runs that check them on small instances, and TLAPS proofs that hold for every
instance. File and line references are to the repository; `impl.cc` stands for
`src/webrtc/modules/audio_processing/audio_processing_impl.cc`, other names for
the files under `audio_processing/`.

Contents: [the system](#the-system), [modules](#modules-and-the-code),
[runs](#runs), [bounds](#bounds), [fairness](#fairness), [proofs](#proofs),
[what the code does differently](#where-the-code-differs-from-what-it-says),
[what is left out](#not-modelled), [plan](#plan).

## The system

The repository packages WebRTC's audio processing as a library, with a C
wrapper (`src/webrtc/wrapper/`) for use over an FFI. Audio flows through it in
frames of 10 ms. Threads of four kinds call it:

- the *capture* thread, `ProcessStream`, with the microphone signal;
- the *render* thread, `ProcessReverseStream`, with the loudspeaker signal;
- *API* threads, `ApplyConfig`, `Initialize`, `SetRuntimeSetting` and the
  `set_stream_*` functions;
- whoever asks for statistics, `GetStatistics`.

`AudioProcessingImpl` has two mutexes, `mutex_render_` and `mutex_capture_`,
taken in this order by everyone who needs both. Render audio reaches the
capture side only through `SwapQueue` objects, so that the two audio threads
rarely wait for each other.

### Components

| component | state | operations | talks to | what makes it correct | status |
|---|---|---|---|---|---|
| `SwapQueue` (`rtc_base/swap_queue.h`) | `num_elements_` (atomic), one index per side, the ring | `Insert`, `Remove`, `Clear` | producer and consumer threads | no two threads at one slot, nothing lost, duplicated or reordered, exact refusals | modelled |
| locks, formats, render queues (`impl.cc`) | `formats_`, `capture_nonlocked_`, `submodule_states_`, `submodules_`, three render queues | `ProcessStream`, `ProcessReverseStream`, `ApplyConfig`, `Initialize` | every submodule, both audio threads | no deadlock, one consumer per queue, buffers in the format of the call, submodules as configured | partly |
| runtime settings (`impl.cc:725`) | a `SwapQueue` of settings | `SetRuntimeSetting`, `HandleCaptureRuntimeSettings` | API threads to capture thread | every setting arrives in order or is logged as discarded | partly |
| statistics (`impl.cc:2057`) | a one-slot `SwapQueue`, `cached_stats_`, `mutex_stats_` | `UpdateStatistics`, `GetStatistics` | capture thread to pollers | a poll is not older than the one before | modelled |
| capture stream state (`impl.cc:1059`) | `capture_`, the analog level in one of three modules, flags that parameters were given | `set_stream_*`, the frame itself | echo cancellers, gain controls | a frame is processed with its own parameters; the echo controller is told of changes; nothing outlives its owner | partly |
| echo canceller 3: plumbing (`aec3/echo_canceller3.cc`, `block_processor.cc`, `render_delay_buffer.cc`) | transfer queue, blockers and framer, four circular buffers, pending events | `AnalyzeRender`, `ProcessCapture`, `SetAudioBufferDelay` | render and capture thread, delay control, echo remover | no sample lost in framing, buffers in step, jumps reported | partly |
| echo canceller 3: delay control (`aec3/matched_filter_lag_aggregator.cc`, ...) | histogram of lags, estimates, drift level | `GetDelay`, `Reset` | block processor | the estimate is what the lags say | modelled |
| echo canceller 3: echo remover (`aec3/echo_remover.cc`, `subtractor.cc`, `aec_state.cc`, ...) | initial state, filter sizes, counters of the gains, hangover | `ProcessCapture` per block | block processor | parts change their tuning together, filters learn only from good blocks | partly |
| mobile echo canceller (`aecm/`) | far-end ring buffer, delay estimate, framing buffers, channels | `BufferFarend`, `Process` | render queue, capture | buffers in step, delay follows reports, silence is not speech | partly |
| AGC manager (`agc/agc_manager_direct.cc`) | level, maximum level, compression gain, clipping countdown | `AnalyzePreProcess`, `Process`, `set_stream_analog_level`, `SetCaptureMuted` | application's mixer | user's changes respected, gains settle | partly |
| ring buffer (`common_audio/ring_buffer.c`) | memory, two positions and a wrap flag | read, write, move | AECM, VAD | FIFO with a movable read pointer | modelled |
| C wrapper (`wrapper/webrtc_apm_wrapper.cpp`) | an `AudioProcessing` and copies of settings | about 60 functions | FFI | settings of different threads are put into force consistently | partly |
| iSAC (`audio_coding/codecs/isac/`) | bit stream, state of the coder | encode, decode | only its pitch analysis is called by APM | what is coded is decoded | partly |
| gain controller 2 | settings, limiter | `ApplyConfig` | capture | reacts to new settings | partly |
| legacy AGC, noise and transient suppressors, VAD, delay estimator, echo detector | numeric | per frame | capture | signal quality | not modelled |
| event tracer, logging, metrics, resamplers, wav files, aec dump, third party | | | | support code | not modelled |

`PROJECT.json` names the files of each and says what is left out.

### What is hard about it

- *Lock-free hand-over.* Indices in `SwapQueue` are plain variables; only the
  order of three steps on each side keeps the threads apart.
- *Check, unlock, act.* `MaybeInitializeCapture` decides under
  `mutex_capture_`, must release it (lock order), waits for `mutex_render_`,
  and acts on what it copied. `ProcessStream` releases the mutex once more
  before the processing. The setters of the wrapper read, change and apply the
  settings in separate calls.
- *Deferred work.* `ApplyConfig` leaves the recomputation of the processing
  formats to the next capture call, which notices by comparing the active
  submodules with `submodule_states_`. Everyone else who updates
  `submodule_states_` on the way can make it miss the change.
- *Limits.* Render queues hold 100 frames; the render thread empties a full one
  itself, as a second consumer under `mutex_capture_`, and retries. The delay
  buffer resets itself when one side outruns the other.
- *Frames against blocks.* 160 samples a frame, 64 a block, in both echo
  cancellers: remainders, read pointers moved back, frames of two or three
  blocks.
- *State that outlives its reason.* Three modules keep the analog level, one at a
  time; flags, previous values, filter partitions and counters survive changes
  of settings, of the delay and of the level.
- *Slow feedback.* Delay, levels and gains follow noisy input through
  thresholds, hangovers and hysteresis, and should get somewhere in the end.

The hazards are listed line by line in `PROJECT.json` with the properties that
watch them.

## Modules and the code

### AudioProcessingImpl and its queues

**`SwapQueue`** — one step per atomic access, exchange and index update of
`Insert` (`InsertLoad`, `InsertSwap`, `InsertPublish`, `InsertAdvance`),
`Remove` and `Clear`. Objects are bottles with an identity and a content, so
that moving one can be told from copying it. Release/acquire ordering is taken
as program order seen from the other side; that the plain accesses it protects
do not race is the property `NoSlotRace`.
**`BoundedFifo`** is the abstract specification: atomic `Accept`, `Refuse`,
`Deliver`, `Starve` and `Drop`. `SwapQueue` implements it under the mapping
`queue <- Contents`, which counts an item out when the count is reduced and
reads the item of a half-done `Remove` from the consumer's hands.

**`AudioProcessing`** — two audio threads and any number of API threads. A step
ends where another thread can be seen: the acquisition of a mutex, one
operation on a render queue, a read of `submodule_states_`. The body of
`ApplyConfig` or `Initialize`, under both mutexes, is one step (`ApiBody`).
Formats are samples per 10 ms (rate / 100), with the real choice of processing
rates (`SuitableProcessRate`); 0 stands for one `InitializeLocked` refuses. One
number describes input and output of a direction, so the cases where these
differ are not covered. A render queue is its length. Noise suppression stands
for all capture-only multi-band modules. `MCAudioProcessing` defines the sets
of settings.

**`RuntimeSettings`** — the queue of runtime settings, at the grain of
`SwapQueue` but with any thread at either end, because `Enqueue` removes from
a full queue on its own thread. Settings are numbered by call; 0 is the
default-constructed one.

**`StatsReporter`** — the capture thread reporting through a queue of one, and
threads polling through `cached_stats_`. The queue is an instance of
`BoundedFifo`, which `SwapQueue` is proved to implement.

**`CaptureStream`** — the capture side as a sequence of calls, each under
`mutex_capture_` from beginning to end: the delay and the level an application
sets, `ApplyConfig`, `Initialize`, and `ProcessStream` with the runtime settings
it finds in the queue. Its state is which module keeps the level, which
parameters count as given, what the echo controller last processed, whether a
linear output exists, and what the limiter of gain controller 2 was last reset
for. What the gain controls recommend is any level. The history variables
`told`, `sinceConfig`, `used` and `heard` record what the application said and
what the modules got.

**`ApmWrapper`** — the C interface over `CaptureStream`: setters in two steps
(`GetConfig`, then change and `ApplyConfig`), presets and `apply_config`,
`set_multi_channel` with its own copy, by several threads between frames of the
capture thread, the delays and analog levels given for them included. The interface
does not reach `analog_gain_controller.enabled`, so gain control through it is off or
managed (`AllSettings`) and a level is taken but never required:
`AgcWorksWithLevelGiven` has nothing to say there, and is a property of direct callers. What
the wrapper promises of levels is `LostOnlyWithoutDelay`. `MCApmWrapper` gives the settings
that `apply_config` is called with.

### Echo canceller 3

**`EchoCanceller3`** — `AnalyzeRender` into the transfer queue, which drops what
it refuses; `ProcessCapture` empties the queue and cuts two sub-frames into two
or three blocks, one action per call of a sub-frame or of the rest; a program
counter says where in the frame it is. Blockers and framer are their fill
levels.
**`BlockProcessor`** — `BufferRender`, `ProcessCapture` of a block with its
start, resets by events of the render side and alignment, `SetAudioBufferDelay`.
It takes the delay controller from **`DelayEstimates`**, which promises only
that after a reset there is no delay and that once there is one it stays or
changes.
**`RenderDelayBuffer`** — the four circular buffers as read and write positions,
two counted up and two (or at another rate) counted down; over- and underruns,
the detection of excess render blocks, external delays. The buffer is one
record and an operation a function of it, so that the block processor's
handlers stay one action each.

**`DelayControl`** — `GetDelay` of a block, from any lag the matched filters can
report: `Aggregated` (the histogram over a window, its thresholds), `Estimate`
(consistency, clearing), `FollowEstimate` and `BufferDelay` (hysteresis), and
`DriftAfter` (clock drift over three lags). `Reset` is hard or soft. It
implements `DelayEstimates`.

**`AdaptiveFilters`** — the refined and the coarse filter of one channel: their
size on its way from one configuration to the next (`SizeAfter`), the partition
constrained next, the partitions that hold coefficients from before a change of
the delay (`stale`, history), and the counters by which a gain decides to let
its filter learn (`learnt`, history).
**`EchoRemover`** — a frame of two or three blocks that all carry its level
change and saturation; per block what `EchoRemoverImpl::ProcessCapture` does
about changes, in its order: hangover, subtractor, suppressor, `AecState` with
its `InitialState`, the transition of the block before, the filters. Whether the
block has active render audio, poor excitation, a misadjusted filter or a worse
coarse filter is any. `MCEchoRemover` gives the lengths; **`CaptureBlocks`**
explores delay control and echo remover in one run.

### Mobile echo canceller, gain, buffers

**`RingBuffer`** — positions and wrap flag as functions of a record;
**`RingBufferMemory`** adds the elements and the calls in any order, and
implements **`SampleTape`**, a tape of the last elements written with a movable
read head (`unread`, `tape`).
**`EchoControlMobile`** — `BufferFarend`, `Process` and `Init` of the wrapper:
start up (`SumAfter`, `IsFilled`), the delay compensation that moves the read
pointer, the filtered delay with its count of frames on one side.
**`AecmFrames`** — `WebRtcAecm_ProcessFrame`: five buffers, stuffing of the
output at the start, clean near end switched on and off.
**`AecmChannel`** — per block: `CalcEnergies` with the level for a voice decision,
`UpdateChannel` with storing and resetting, `CalcSuppressionGain`.
**`AgcManager`** — `AnalyzePreProcess` (clipping), `Process` (volume check,
loudness, compressor), `set_stream_analog_level`, `SetCaptureMuted`,
`Initialize`, for one channel; the application puts the slider where it was told
or anywhere else.
**`CaptureSubmodules`** drives these five, each in a behaviour of its own.

### iSAC

**`EntropyCoder`** — the arithmetic coder with carry and termination, both kinds
of probability tables, the decoders, and `EncodeLb`'s loop for a frame of 30 ms or
for each half of one of 60 ms (`half`): a header, the state kept, the spectrum, and
smaller spectra from the kept state while the stream is too long (`Retry`). A frame that
stays too long is dropped, but behind a first half that does the second one is coded, from
whatever state the coder was left in (`GiveUp`); where the call stopped at the end of the
buffer, that is the index and the interval from before it with a value shifted since
(`CutOff`). `MCEntropyCoder` gives tables for TLC, and holds the code's own logistic table,
in which TLC finds a flat cell before one that is coded (`CodedBehindFlat`): the small shape
that is run has one too.

**`IndependentParts`** explores the wrapper with the capture stream, the runtime
settings, the statistics and the coder in one run, each on its own.

`X...Proofs` holds the theorems about `X` (`MessagesProofs`: about the runtime
settings and the statistics, the two messages of `SwapQueue`;
`CaptureSubmodulesProofs`: about the parts of `CaptureSubmodules` and about all of
them; `CaptureStreamProofs`: about the wrapper too; `EchoCanceller3Proofs`: about
the block processor and the delay buffer too; `CaptureBlocksProofs`: about the
delay control, the echo remover with its filters, and the two together).
Definitions introduced by a comment `Fault:` are what a plausible mistake
would make of the definition after them; replacing the one by the other must
make a run fail, which shows that the property of that run depends on that line
of code.

## Runs

Runs that hold:

| run | question | states |
|---|---|---|
| `swap_queue` | Do all interleavings of `Insert` with `Remove` and `Clear` keep the threads at different slots (`NoSlotRace`) and act as a FIFO (`ImplementsFifo`)? | 3.1 M |
| `apm_core` | Two audio threads with changing formats, two API threads in `ApplyConfig` and `Initialize()`: no circular wait (`NoCircularWait`), one consumer (`SingleConsumer`), "should always work" works (`RetryAlwaysInserts`), both streams processed in the format of the call (`CaptureSeesItsFormat`, `RenderSeesItsFormat`), the right submodules (`SubmodulesFollowConfig`). | 0.6 M |
| `apm_fair` | Does every render call return (`RenderReturns`) with queues of one frame, which are full nearly always? And is a deferred reinitialization never lost when only `ApplyConfig` and `Initialize(config)` are called (`QuietBandedInput`)? | 149 k |
| `independent_parts` | Stream parameters, settings and frames in any order, directly and by two threads of the wrapper: the analog gain control works with the level given for the frame (`AgcWorksWithLevelGiven`), the echo controller is told of every change it is meant to be told of (`EchoPathChangeFlagged`), no linear output outlives its canceller (`LinearOutputIsLive`). Runtime settings beyond the queue's size: each is queued, received or logged (`SettingsAccountedFor`), the oldest go (`NewestLast`). Two pollers of the statistics: newer than the last poll whenever there is newer (`PollIsFresh`). Every message of up to four symbols through the coder, in one frame or two halves: what is decoded was coded, and the decoder fails only behind a flat cell (`RoundTrip`). | 1.2 M |
| `echo_canceller3` | Render frames in bursts, capture calls, estimates and reported delays in any order: the four buffers move together (`IndicesInStep`), the delay told is the one applied (`DelayIsApplied`), the echo remover hears of every jump of its render blocks (`JumpsAreTold`), framing never runs dry nor over (`FramingKeepsStep`), frames dropped by the full queue make the delay buffer overrun and start anew (`DropsAreNoticed`), and a latency grown too large comes back (`LatencyRecovers`). | 0.7 M |
| `capture_blocks` | Delay control, any lags: the histogram is exact (`HistogramMatchesData`), the buffer's delay follows the estimate (`DelayFollowsEstimate`), the promise to the block processor is kept (`ImplementsEstimates`), a lag that stays is found (`SteadyLagIsFound`). Echo remover, any changes of delay and level: no stale partition comes into use (`PartitionsInUseAreSound`), level changes are acted on once (`GainChangesAreActedOn`), nothing is learnt from bad blocks (`LearnsWhenSound`), filters and suppressor are initial together (`InitialStateIsShared`) and not for ever (`InitialStateEnds`). | 0.4 M |
| `capture_submodules` | Mobile canceller: framing buffers stay in step (`FramesKeepStep`), a silent far end is never speech (`SilenceIsNotSpeech`), the start follows the reported delays (`StartFollowsReports`) and happens (`StartupEnds`), the known delay moves only after a steady drift (`DelayChangesAreHeld`). Ring buffer: it is a tape (`ImplementsTape`). Gain manager: the slider is not moved from where the user put it and, but for clipping, not before the loudness was measured again (`UserVolumeIsKept`), the compression gain arrives at its target and stays (`CompressionSettles`). | 0.3 M |

The runs that end in a violation are discussed
[below](#where-the-code-differs-from-what-it-says). Type invariants are proved
instead of run.

## Bounds

- `swap_queue`: three slots let the write index lap the read index in every
  relative position, including a `Clear` of zero to three items; two contents
  tell items apart. The proofs cover every size.
- `apm_core`: a queue of one frame is full after one render call, so the drain
  and the retry happen all the time; formats 160 and 480 (capture) and 0, 160
  and 441 (render) cover a refused format, banded and full-band processing; two
  API threads contend with each other as well as with the audio threads. The
  settings contain both echo cancellers, both kinds of gain control and
  both maximum rates, so every pair of them is a transition of `ApplyConfig`.
- `apm_fair`: one API thread, because two API calls in a row are enough to lose
  a change, and TLC's liveness check pays for every state.
- `independent_parts`: two levels, two gains and two volumes, because the
  properties compare values for equality only; two threads of the wrapper with
  three calls between them (`MaxCalls`), so that one may overtake both halves of
  another. Runtime settings: two slots and six settings wrap the ring three
  times; `Attempts` is three instead of ten, which the code only compares with
  zero. Statistics: six frames fill, empty and refill the queue between the
  polls of two threads. Coder: a byte of two bits (`Base` 4) lets four symbols
  (`MaxSymbols`) produce every carry, also through several bytes that are all
  ones; seven bytes (`MaxStream`) leave messages that do not fit. The limits make
  frames too long short of that: less the three bytes for the end, four bytes for a frame of
  30 ms (`Limit30` 7), six for one of 60 ms (`Limit60` 9, where the code has 397 of 400)
  and four for its first half (where it has 200). One attempt more (`MaxRetries`). The
  shape has eight cells: two flat ones at an end and one short of a cell that is coded.
  The two threads of the wrapper are interchangeable, and TLC is told so
  (`Interchangeable`).
- `echo_canceller3`: the unit is the 16 samples that remain of a sub-frame, so
  80 samples are 5 and a block of 64 is 4: the true proportion and the true
  period of four sub-frames. Buffers of 6 and 5 blocks are the least in which
  both kinds of overrun and an underrun happen; the queue of 3 frames is full
  in a burst.
- `capture_blocks`: two filters of length 5 that overlap make lags 2 to 5, each
  a delay of the buffer of its own; a window of 3 with thresholds 0 and 1 reaches both
  qualities and ties. The filters grow from one partition to two, over two blocks,
  so that a change of size can be overtaken by the next; two poor blocks for
  five; two blocks end the initial state. The proofs hold for all lengths.
- `capture_submodules`: 5 and 4 units again for frames and blocks of the mobile
  canceller, a far-end buffer of 5 frames; delays of 0 and 5 units lie on both
  sides of what the buffer holds; energies on both sides of every threshold; six
  slider positions, so that one step up, a clip and the maximum are all inside;
  a compressor of two steps per dB instead of twenty.

`MaxSettings`, `MaxFrames`, `MaxCalls`, `MaxSymbols`, `MaxRetries` and `MaxCount`
bound what the code leaves unbounded or large; counters that matter only up to
a threshold stop there (`InitialBlocks`, `Enough`, `HoldFrames`). All other
state spaces are finite as the code leaves them.

## Fairness

- `apm_fair` asks that a thread inside a call goes on (weak fairness of the
  render thread's steps and of the drain and the processing of the capture
  thread: the code between two mutex operations contains no waiting), and that
  the render thread is at last given `mutex_capture_` when it is free again and
  again (strong fairness of `RenderReinitialize` and `RenderEmpty`). Weak
  fairness would not do there, since the capture thread takes and releases the
  mutex for every frame; it is a property of the platform's mutex, on which the
  code relies. No thread is asked to make a call: with a capture thread that
  has stopped, the render thread empties the queues itself.
- `echo_canceller3`, `capture_blocks`, `capture_submodules` ask that capture
  blocks or frames (and, for the mobile canceller, render frames) keep coming,
  as they do from a running sound card: weak fairness of the call, with any
  contents. What they must contain for something to happen is a premise of the
  property: `SteadyLagIsFound` of a lag that stays, `CompressionSettles` of an
  error that stays, `InitialStateEnds` of blocks that go on, active
  render audio again and again, and a delay that stays.

## Proofs

All theorems are about the specification for every value of the constants that
satisfies the named assumptions of the module: positive sizes, formats that are
numbers, thresholds in the order the code has them, and the like.

**`SwapQueueProofs`** — the count alone does not say where the indices are, so
the inductive invariant `IndInv` adds `Aligned`: the write index, corrected for
a producer that has published but not advanced, is the read index, corrected in
the same way for a `Remove` or `Clear`, plus the count, modulo the size.
`NoSlotRace` then is arithmetic: at equal indices the queue is empty or full,
and `CountWithinSize` excludes both. `BottlesSafe` (no object lost or doubled)
rests on a lemma that an exchange preserves a partition. `QueueRefinesFifo`
needs one lemma per step; only the change of the count is a step of the FIFO,
all others stutter (`SameContents`).

**`AudioProcessingProofs`** — `LockInv` ties the owner of each mutex to the
program counters; `DeadlockFree`, `OneConsumer` and `RebuildSafe` (nothing is
rebuilt under a thread that uses it) follow from it. `SetupOK` and `LocalsOK`
are the rest of the type invariant. `RenderFormat` and `RetryWorks` need what
the render thread has seen so far: the format it was called with stays the API
format although the capture thread reinitializes, because it needs
`mutex_render_` for that; and in the middle of a drain the queues already
visited still have room (`DrainInv`). `CaptureFormat` has the hypothesis that
no thread calls `Initialize(config)`: between the two sections of
`ProcessStream` such a call may change the format. `SubmodulesCorrect` shows
that comparing old with new settings, part by part, builds what building
everything would.

`BandedInputFits` (`QuietBandedInput`, a deferred reinitialization is
never lost) rests on `BandInv`: the active submodules and the rate of the render buffer fit
each other except while the capture thread is on its way to reinitialize. It has two hypotheses: no format is
refused, and no thread calls `Initialize()`. TLC finds the property violated
without either. Under the same hypotheses `EchoInputFits` gives the extent of what
`apply_config_window` finds: once a capture call has seen the new echo controller
(`EchoSettled`), and until settings remove it, the render thread gives it the bands it
was made for.

`QueueContract` connects the module to `SwapQueue`: a render queue grows by one item at
a time, under `mutex_render_`, shrinks by one at a time, under `mutex_capture_`, and is
cleared only while no thread is in the processing of a stream. So there is one producer and one
consumer at a time, which is what the proofs about `SwapQueue` assume.

`CallsGoOn` strengthens `DeadlockFree` to cycles of any length: a waiting thread waits for the
owner of `mutex_capture_`, which waits for nothing, or for the owner of `mutex_render_`,
which waits at most for the former. `RenderCallEnds` counts the steps left to a render
call (`RenderWork`): each of its own steps takes from them, and no other thread
adds any, because a failed `Insert` is tried again only once, after a drain that
nothing refills.

**`MessagesProofs`** — the runtime settings when the calls of `SetRuntimeSetting`
and of the capture thread do not overlap (`Serialized`; `runtime_settings_race` is
what happens otherwise). `SettingsInv` says, for every place an operation can stand at, that what was
received or discarded are the first settings sent, each once, that those due next
lie in the slots from the read index on, in order, and that only the last may
still be in the hands of its caller. From it
`NoSettingIsLost`, `OldestAreDiscarded` and `NothingUnspecified`, which is the
property that `runtime_settings_race` violates. And `PollsAreFresh`, from
`FirstSince`: the item in the queue of the statistics is the first report since
the queue was last looked at.

**`CaptureStreamProofs`** — types, `LevelGiven` from `FlagMeansGiven` (the flag
vouches for a level only while the module that has the flag also keeps the
level), `EchoPathFlagged` from `PrevIsHeard` (the previous values are those of
the last frame the echo controller processed), and `LinearOutputLive`. And
`LimiterNeverReset`, the extent of what `limiter_reset` finds: the limiter starts at the gain
its gain controller is created with and is not reset again while that exists. The wrapper
does not implement `CaptureStream`'s `Spec`, because a setter that changes the
number of channels applies a configuration and reinitializes in one call; but every step
of it is a step of `CaptureStream`, or such a call, or leaves its state alone
(`WrapperSteps`), so that `WrapperEchoPathFlagged` and
`WrapperLinearOutputLive` hold of any interleaving of the wrapper's callers.
`WrapperLosesOnlyWithoutDelay` is about `webrtc_apm_process_stream`, which drops the
library's answer: the only frame refused, and so lost without a word, is one for the mobile
canceller without a delay. That none is lost for a missing level needs the type
invariant of the wrapper, whose settings never leave the analog gain control without its
manager (`WrapperOK`).

**`EchoCanceller3Proofs`** — `IInv` has two parts that share nothing but the
calls. `BlockInv` says how far the read positions of the delay buffer are from
the write positions, modulo each buffer's size, and that a jump the echo remover
has not seen leaves the buffer unaligned (`JumpUnaligned`), so that the next
estimate is a change it is told of; from it `InStepAlways`, `NeverNegative`,
`DelayApplied` and `JumpsTold`. `FramingInv` says what blockers
and framer hold at each place of the program counter, in whole remainders, from
which `FramingStep` for every sub-frame and block length such that twice the
difference divides the block. The two meet in `DropsNoticed`: once a frame was
dropped, the latency of the delay buffer and the blocks still to come from the
queue, which was full, are together more than the buffer can hold
(`DropsPending`), so that it overruns and starts anew before the queue is empty. That
needs a queue that outlasts the buffer (`QueueOutlastsBuffer`), as
the code has it: 100 frames of two blocks at least, a buffer of 153 blocks
(`aec3/aec3_common.h:41`, `:51`, `:69`), and a reported delay of at most 125
(500 ms, `impl.cc:1465`). TLC finds the property violated with a smaller queue or
a larger reported delay. `ExcessEnds`: while the latency exceeds what is allowed, each capture
block leaves one less to wait for (`ExcessLeft`, at most two intervals: the least latency
seen so far may be from before the excess) and nothing in between takes that back.

**`CaptureBlocksProofs`** — the delay control: `DelayInv` adds to the types that the
histogram counts the window (lag 0 less the lags nobody reported), that the estimate
in force is supported by it, and where the parts of the estimator agree
(`Refinement`). `HistogramExact`, `EstimateSupported` (an estimate was the most
frequent lag, above the threshold), `DelayFollows`, `RefinedStays`, `DriftSeenOnly`,
and `Implements`, the refinement of `DelayEstimates`. `SteadyLagWins` is about the
filters that go on reporting one lag: `RowGrows` follows the slots of the ring from the
one written last, and a row of more than half the window leaves no other lag as many
(`RowOccurs`, `WindowShared`), so whatever `MostFrequent` chooses is that lag.
The echo remover: `RemoverInv` needs, for the filters, that the size is the
target once the change of size is over (`Sound`), so that what grows is cleared;
a size on its way stays between the old and the new target, which is the lemma
`SizeAfterInRange` on the rounding of the interpolation. For the level, that the
hangover left is at least the blocks left of a frame acted on, and what is left of
it after each block of a frame that was not (`LevelInv`). For learning, that a gain
counted no more calls than blocks since the delay changed (`CallsInv`). Then
`FiltersAreSound`, `GainChangesActedOn`, `LearnsSound` and `InitialStateShared`.
`InitialStateComesToItsEnd` counts the good blocks left of the initial state and then
the blocks left of the growth of each filter. `ResetUndone` gives the extent of what
`transition_after_reset` finds: a change of the delay misses the initial state if and only if
it comes in the block after a transition, and then the suppressor and every filter gain miss it.
`BlocksComposed` takes `CaptureBlocks` apart, so `BlocksSafe` gives the safety
properties of both for the composition that the run checks.

**`CaptureSubmodulesProofs`** — the ring buffer: positions, and `RingImplementsTape`,
where the tape is read off the memory from the write position backwards. The
framing: `FramesInv`, with `FramesInStep` for every frame of one to two
blocks. The wrapper: `MobileStartsWithDelay` and `DelayHeld`
(a count of frames on one side never exceeds how long the estimate was there).
`StartFollows`: the buffer is started at a size worked out from a running sum and a
count of reports; the property speaks of the sum of the reports since the first
that counts, so its invariant says that the running sum is that sum. What a fold over
a sequence adds up to is proved once (`SumsUp`, `PartSums`), by induction in its
set form (`LeastNatural`: a set of numbers that is not empty has a least one).
`StartupComesToItsEnd`: while the decision is open each capture call leaves fewer for it,
at most `CheckFrames + 1`; once it is made the buffer only fills until there is enough.
The channel: `SilenceNeverSpeech`, because neither level can fall back to
`EnergyMin` once it has risen above it. The gain manager: `AgcTypeCorrect`, and
`UserVolumeKept` from `AgcInv`: the accumulated compression stays within one decibel of
the compression in force, and no loudness that counts was measured before a position
was taken over. `CompressionReachesTarget`: each frame takes the accumulator one step
nearer to the target, and where it arrives the compression is the target's (`Arrived`).
`PartsComposed` takes `CaptureSubmodules` apart: it implements the specification
of each of the five parts, so `SubmodulesSafe` gives their safety properties
for the composition that the run checks.

**`EntropyCoderProofs`** — `RoundTripHolds`, for bytes, tables, messages and buffers
of any size. A stream is read as a number in base `Base` (`Number`, a function on
the bytes and whatever lies behind them); a state of the encoder is an interval
of such numbers. The steps of the argument:

1. A carry adds one to the number of the bytes written (`CarryAdds`), and never runs
   out of them, because the interval ends before the bytes do (`Fits`); a shift by
   k bytes multiplies the interval by `Base^k` (`ManyShifts`). So coding a symbol
   goes to the part of the interval that belongs to it (`CodingCodes`).
2. The one or two bytes of the termination put the number of the finished stream
   inside the last interval, whatever byte lies behind it (`EndsInside`). From there
   backwards, it lies in the part of each symbol (`InsideAlways`).
3. At every state of the encoder the decoder holds the distance of that number from
   the low end (`DecoderAt`). So the value is above exactly the boundaries up to the
   symbol's (`SymbolShows`), each of the three searches ends at the symbol
   (`OneStepFinds`, `BisectFinds` for tables of up to 255 entries, `OneCell`), and
   narrowing leads to the distance at the next state (`NarrowedFollows`).

The inductive invariant, `CoderInv`, says that there is a sequence of states that
leads through the message to the present one and has the kept state in it, which
makes a `Retry` from the bytes that were kept a step back in that sequence; the second
half of a frame goes on where the first one stopped, given up or not. The theorem
has no hypothesis on the shape; what it excepts, `RoundTrip` itself names: the decoder fails
where its search meets a flat cell before the cell that was coded (`BehindFlat`), which the
code's own table has for some envelopes, and a frame is out of account that was coded from
bytes that were not restored or behind a first half cut off in the middle of a symbol. TLC
finds the property violated without any of the three (see "Seen while modelling").
`coder_retry` is what makes the property speak of attempts from the kept bytes only.

Proved, and no longer run because the runs have larger questions:
`CountWithinSize`, `BottlesConserved`, `RebuiltOnlyWhenUnused`,
`DelayNotNegative`, `EstimateIsSupported`, `StaysRefined`, `DriftFromEstimates`,
`StartsWithDelay`, and the type invariants.

Only model-checked: that the six liveness properties hold under fairness. What the
steps have to do with it is proved, for all values of the constants: a measure that is
bounded and that the steps take nearer to its end, and that nothing takes back.

| property | its step half |
| --- | --- |
| `RenderReturns` | `RenderCallEnds`, with `CallsGoOn` |
| `LatencyRecovers` | `ExcessEnds` |
| `SteadyLagIsFound` | `SteadyLagWins` |
| `InitialStateEnds` | `InitialStateComesToItsEnd` |
| `StartupEnds` | `StartupComesToItsEnd` |
| `CompressionSettles` | `CompressionReachesTarget` |

What is missing is that fairness makes those steps happen, which needs `ENABLED`, and the
induction over the measure, which needs an induction theorem with an operator as its parameter;
the installed provers support neither.

## Where the code differs from what it says

Each of these runs checks one statement of the code or its documentation and
finds it violated; `PROJECT.json` quotes the statements.

- `apply_config_window` (`impl.cc:639`): a render call between `ApplyConfig` and
  the next capture call reaches the new echo controller in the old format,
  against the assertions of `aec3/echo_canceller3.cc:617`.
- `runtime_settings_race` (`impl.cc:738`): `SetRuntimeSetting` on a full queue
  races with the capture thread, which receives a default-constructed setting.
- `limiter_reset` (`gain_controller2.cc:71`): the new settings are compared with
  themselves, so the limiter is never reset.
- `transition_after_reset` (`aec3/aec_state.cc:328`): a change of the delay right
  after the end of the initial state begins it again in `AecState` only;
  filters, gains and suppressor are taken out of it in the same block.
- `coder_retry` (`isac/main/source/encode.c:474`): a frame coded again starts from
  a stream in which a carry of the first attempt has changed earlier bytes.

Seen while modelling, without a run of their own:

*Audio processing.*
- `Initialize()` after `ApplyConfig` records the new set of submodules without
  recomputing the formats (`impl.cc:363`), and render audio of 44.1 kHz is
  queued at 441 samples per band; a `ProcessStream` refused for its format does
  the same (`impl.cc:755`). `QuietBandedInput` is checked without either.
- The message that a setting could not be enqueued is logged when it could on the
  last attempt, and not logged when it could not (`impl.cc:742`).
- `GetStatistics` returns the oldest report since the previous poll rather than
  the newest; the echo statistics of a removed echo controller stay
  (`impl.cc:1305`).
- An analog level given before a change of settings can be used after it although
  another was given since; `AgcWorksWithLevelGiven` speaks of levels given
  after the last `ApplyConfig`. A pre-amplifier switched on or off changes the
  gain without being flagged; `EchoPathChangeFlagged` speaks of frames that both
  have one.
- Render frames queued for a gain control that is switched off wait until it is
  on again (`impl.cc:1012`). The flag that a delay was given outlives a frame
  that fails (`impl.cc:1321`).
- The linear output asked for while an echo controller is on is not created
  (`impl.cc:543`); so the voice assistant preset of the wrapper
  (`webrtc_apm_wrapper.cpp:665`) has none, though `src/WEBRTC_APM_WRAPPER_SUMMARY.md:76`
  promises it.

*Echo canceller 3.*
- An overrun followed by another render block before the next capture block is
  forgotten (`aec3/block_processor.cc:215`). The jump is then made up for by
  the delay, which was reset; not so with a delay from the sound card, or when
  an excess of render blocks resets the delay to the controller's own estimate.
  `JumpsAreTold` speaks of the internal delay only.
- The clock drift detector is never reset; lag 0 is undercounted by the window,
  which starts as if full of zeros.
- `AecState::HandleEchoPathChange` clears the saturation found for the same block,
  which then counts as good. A filter may learn from it only if the level changed
  too, since the refined gain then does not restart its counter
  (`LearnsWhenSound` states this).
- A change of the delay clears only the partitions not in use; those in use keep
  their coefficients. The misadjustment estimator is not reset, the first pass of
  the filter analyser after a reset begins at sample 1, and
  `LegacyTransparentMode::Reset` leaves `transparency_activated_`.
- Of level changes in consecutive frames one may be missed, never two in a row.

*Mobile echo canceller.*
- Clean near-end blocks may be short after noise suppression is switched on
  (`aecm/aecm_core.cc:528`). "Scale down by a factor 8" is undone at the next
  block because `channelAdapt32` is not scaled. "This should only happen for the
  first frame." (`aecm_core.cc:568`) is true of the first three. `knownDelay` of
  the wrapper is never passed to the core. Calls of 80 samples at 16 kHz make
  `nBlocks10ms` 0.

*Gain control.*
- A slider raised while muted or before the first frame leaves `max_level_` below
  `level_`, so that a later clip or quiet signal lowers it, although "Always
  allow the user to increase the volume." (`agc/agc_manager_direct.cc:229`).
  `new_compression_to_set_` outlives `Initialize` and muting.

*Wrapper.*
- Two setters in two threads may lose one of the changes; the interface has no
  lock and promises none. `apply_config` and the presets switch off
  `pipeline.multi_channel` while `multi_channel_config` stays enabled, and
  `level_estimation` while `quality_monitoring_enabled` stays; no other preset
  clears `voice_assistant_mode`. A changed fixed gain alone is not applied,
  because `ApplyConfig` compares only `gain_controller2.enabled`. The mode of
  gain controller 1 is ignored while `analog_gain_controller.enabled` has its
  default. A runtime setting queued before a setter but taken up after it wins.

*iSAC.*
- The decoder refuses a stream that ends within three bytes of its buffer,
  although the encoder may produce it; `RoundTrip` allows a refusal only there.
  `GiveUp` returns the status of success for a frame that ran into the end of its buffer,
  so it is dropped silently.
- The decoder of the logistic histogram walks cell by cell and takes two equal
  bounds for a damaged stream (`isac/main/source/arith_routines_logist.c:239`, `:264`),
  but the table has such a flat cell short of ones that are coded: with an envelope of
  7 to 10 in Q8 (for instance 10, a dither of 8 and 113 cells from the middle,
  `CodedBehindFlat`) what the encoder wrote is refused. `RoundTrip` names this as the one
  case in which the decoder fails, and the instance that TLC checks has it.
- "Although the payload is larger than it should be but we let the second 30ms be
  encoded. Maybe together we won't exceed the limit." (`isac/main/source/encode.c:421`) is
  right of a first half that is merely long. Where it ran into the end of the buffer the
  coder returned early (`arith_routines_logist.c:156`), without storing its
  index and interval: the second half is coded on from those before the spectrum, with
  a value that no longer belongs to them, and the decoder is lost. `RoundTrip` excepts
  such frames (`cut`).

## Not modelled

- The samples. Filters, transforms, estimators and gains are floating point or
  fixed point computations whose quality is measured; a model would say nothing
  about them. Where control depends on them (a recommended level, a reliable lag,
  which filter did better) the model allows any result. That is why the noise
  suppressor, legacy gain control, transient suppressor, voice detection, echo
  detector, delay estimator and most of `common_audio` have no module: between
  their inputs and outputs there is little but arithmetic.
- Of the echo remover: ERLE, reverberation and residual echo estimates, the
  transparent mode, suppression gains, comfort noise, more than one channel. Field
  trials are taken to be off.
- Of the mobile canceller: transforms, the Wiener filter, comfort noise, the binary
  delay estimator, an echo path given by the caller, the MIPS and NEON variants,
  which compute the same.
- Of the gain manager: several channels and the choice among them; the loudness
  histogram.
- Of iSAC: transforms, quantisation, prediction, rate control, tables, the upper
  band's own limit (`LimitPayloadUb`, which restores in the same way). Most of
  the lines of the repository are here, in vendored files and in the other numeric
  parts.
- `MutateConfig`, which nothing calls and which would lock a mutex it holds; the
  aec dump, whose only implementation here creates nothing; muting and the key
  flag, which are single assignments; errors of the signal processing inside a
  frame.
- Support code: event tracer, logging, metrics, resamplers, files, third party.

## Plan

Done, in this order because each rests on the ones before: `SwapQueue` and
`BoundedFifo`; `AudioProcessing`; `RuntimeSettings` and `StatsReporter`, the two
other users of the queue; `CaptureStream`; `EchoCanceller3` with `BlockProcessor`
and `RenderDelayBuffer`; `DelayControl`; the ring buffer and the mobile
canceller; `AgcManager`; `ApmWrapper`; `EntropyCoder`; `EchoRemover`.

Worth doing next:

1. `AgcManager` for several channels, with the choice of the one that controls
   the digital gain, and composed with `CaptureStream` in place of "any level".
2. The start and stop of the event tracer (`rtc_base/event_tracer.cc`): a thread,
   an event and a flag.
3. The binary delay estimator's histogram, as far as its control goes.
