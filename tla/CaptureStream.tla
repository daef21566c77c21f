--------------------------- MODULE CaptureStream ---------------------------
(***************************************************************************)
(* AudioProcessingImpl's capture side as the application sees it: the      *)
(* set_stream_ calls that must precede each ProcessStream, the settings    *)
(* that arrive in between, and what the echo controller and the gain       *)
(* controls are told about them.                                           *)
(*                                                                         *)
(* Every call holds mutex_capture_ throughout, so every call is one step;  *)
(* AudioProcessing models the interleaving of calls.  Levels are those     *)
(* within the limits of the settings; a gain is a member of Gains, 1 being *)
(* unity, and 0 stands for a disabled gain.                                *)
(***************************************************************************)
EXTENDS Integers

CONSTANTS Configs,  \* the settings ApplyConfig may be given
          MaxLevel, \* the highest analog level
          Gains,    \* factors of the pre-amplifier and of the fixed post gain
          Volumes   \* playout volumes

ASSUME LevelAssumption == MaxLevel \in Nat /\ Volumes \subseteq Nat
ASSUME GainAssumption == Gains \subseteq Nat \ {0}

Settings == [aec : {"off", "full", "mobile"}, export : BOOLEAN,
             agc : {"off", "digital", "analog", "managed"},
             preamp : Gains \cup {0}, agc2 : Gains \cup {0}]
ASSUME ConfigAssumption == Configs \subseteq Settings

Levels == 0 .. MaxLevel
Holders == {"cached", "control", "manager"}

VARIABLES
    config,               \* config_
    was_stream_delay_set, \* capture_.was_stream_delay_set
    level,                \* cached_stream_analog_level_, analog_capture_level_
                          \* of the gain control, stream_analog_level_ of the
                          \* AGC manager
    was_analog_level_set, \* of the gain control
    linear_aec_output,    \* whether capture_.linear_aec_output exists
    playout_volume,
    prev,                 \* prev_analog_mic_level, prev_pre_amp_gain and
                          \* prev_playout_volume
    echo_path_gain_change,
    postGain,             \* the gain of gain_controller2, 0 without one
    limiterGain,          \* the gain in force when its limiter was last reset
    result,               \* of the last ProcessStream since ApplyConfig
    told,                 \* the last level passed, -1 if none
    sinceConfig,          \* and whether no ApplyConfig followed
    used,                 \* the level the analog gain control worked with in
                          \* the last call, -1 if that was not a frame of its
    heard                 \* what the echo controller last processed

flags == <<was_stream_delay_set, was_analog_level_set, result>>
echo == <<prev, echo_path_gain_change, heard>>
app == <<told, sinceConfig>>
post == <<postGain, limiterGain>>
vars == <<config, flags, level, linear_aec_output, playout_volume, echo, post,
          app, used>>

Init ==
    /\ config \in {c \in Configs : c.aec = "off" /\ c.agc = "off"
                                   /\ c.preamp = 0 /\ c.agc2 = 0}
    /\ was_stream_delay_set = FALSE /\ was_analog_level_set = FALSE
    /\ level = [h \in Holders |-> 0]
    /\ linear_aec_output = FALSE
    /\ playout_volume = -1
    /\ prev = [level |-> -1, gain |-> -1, volume |-> -1]
    /\ echo_path_gain_change = FALSE
    /\ postGain = 0 /\ limiterGain = 0
    /\ result = "none"
    /\ told = -1 /\ sinceConfig = FALSE
    /\ used = -1
    /\ heard = [level |-> -1, gain |-> -1, volume |-> -1]

(***************************************************************************)
(* The stream parameters                                                   *)
(***************************************************************************)

\* A delay outside 0 .. 500 ms is clamped, and counts as set.
SetStreamDelay ==
    /\ was_stream_delay_set' = TRUE
    /\ used' = -1
    /\ UNCHANGED <<config, was_analog_level_set, result, level,
                   linear_aec_output, playout_volume, echo, post, app>>

\* Which module keeps the analog level under the settings c.
Holder(c) == CASE c.agc = "managed" -> "manager"
               [] c.agc = "off"     -> "cached"
               [] OTHER             -> "control"

SetStreamAnalogLevel(l) ==
    /\ level' = [level EXCEPT ![Holder(config)] = l]
    /\ was_analog_level_set' = (was_analog_level_set \/ Holder(config) = "control")
    /\ told' = l /\ sinceConfig' = TRUE /\ used' = -1
    /\ UNCHANGED <<config, was_stream_delay_set, result, linear_aec_output,
                   playout_volume, echo, post>>

(***************************************************************************)
(* ApplyConfig and Initialize                                              *)
(***************************************************************************)

\* Fault: the storage for the linear output follows the setting alone.
LinearOutputAsked(c) == c.export

LinearOutput(c) == c.aec = "full" /\ c.export

\* GainController2::ApplyConfig assigns the new settings before it compares
\* them with the old ones, and so never resets the limiter.
Gain2ApplyConfig(gain) ==
    LET config_ == gain
    IN  /\ postGain' = config_
        /\ limiterGain' = IF gain # config_ THEN gain ELSE limiterGain

\* A new gain controller 2 has a limiter that has seen no signal.
InitializeGainController2(c) ==
    IF c.agc2 # 0 /\ postGain = 0
    THEN postGain' = c.agc2 /\ limiterGain' = c.agc2
    ELSE IF c.agc2 # 0 THEN Gain2ApplyConfig(c.agc2)
    ELSE postGain' = 0 /\ UNCHANGED limiterGain

\* The gain control lasts while gain control is on, the manager while it is
\* managed; each starts at level 0.
LevelsAfter(c) ==
    [level EXCEPT !["control"] = IF c.agc = "off" THEN 0 ELSE @,
                  !["manager"] = IF c.agc = "managed" THEN @ ELSE 0]

ApplyConfig(c) ==
    /\ config' = c
    /\ level' = LevelsAfter(c)
    /\ was_analog_level_set' = (was_analog_level_set /\ c.agc # "off")
    /\ linear_aec_output' = IF c.aec # config.aec THEN LinearOutput(c)
                                                  ELSE linear_aec_output
    /\ IF (c.agc2 = 0) # (config.agc2 = 0) THEN InitializeGainController2(c)
                                           ELSE UNCHANGED post
    /\ sinceConfig' = FALSE /\ used' = -1
    /\ result' = "none"
    /\ UNCHANGED <<was_stream_delay_set, playout_volume, echo, told>>

\* InitializeLocked, from Initialize() or for a new format.  A manager of
\* another rate takes over the level of the old one.
Initialize ==
    /\ linear_aec_output' = LinearOutput(config)
    /\ InitializeGainController2(config)
    /\ used' = -1
    /\ UNCHANGED <<config, flags, level, playout_volume, echo, app>>

(***************************************************************************)
(* ProcessStream                                                           *)
(***************************************************************************)

\* HandleCaptureRuntimeSettings, with what the queue holds: a pre-gain or a
\* post gain (0 for none) and a playout volume (-1 for none).
RuntimeSettings(pre, gain, volume) ==
    /\ config' = [config EXCEPT !.preamp = IF pre # 0 /\ @ # 0 THEN pre ELSE @,
                                !.agc2 = IF gain # 0 /\ postGain # 0 THEN gain ELSE @]
    /\ IF gain # 0 /\ postGain # 0 THEN Gain2ApplyConfig(gain) ELSE UNCHANGED post
    /\ playout_volume' = IF volume # -1 THEN volume ELSE playout_volume

\* Fault: notes the level of a frame only when there is no change to flag.
DetectOnce ==
    LET now == level[Holder(config')]
        levelChange == prev.level # now /\ prev.level # -1
        gainChange == config'.preamp # 0 /\ prev.gain # config'.preamp /\ prev.gain >= 0
        volumeChange == prev.volume # playout_volume' /\ prev.volume >= 0
    IN  /\ echo_path_gain_change' = (levelChange \/ gainChange \/ volumeChange)
        /\ prev' = [level |-> IF volumeChange THEN prev.level ELSE now,
                    gain |-> IF config'.preamp # 0 THEN config'.preamp ELSE prev.gain,
                    volume |-> playout_volume']

\* What may have changed the path of the echo since the last frame.
DetectEchoPathChange ==
    LET now == level[Holder(config')]
        levelChange == prev.level # now /\ prev.level # -1
        gainChange == config'.preamp # 0 /\ prev.gain # config'.preamp /\ prev.gain >= 0
        volumeChange == prev.volume # playout_volume' /\ prev.volume >= 0
    IN  /\ echo_path_gain_change' = (levelChange \/ gainChange \/ volumeChange)
        /\ prev' = [level |-> now,
                    gain |-> IF config'.preamp # 0 THEN config'.preamp ELSE prev.gain,
                    volume |-> playout_volume']

EchoControl ==
    IF config.aec = "full"
    THEN /\ DetectEchoPathChange
         /\ heard' = [level |-> level[Holder(config)],
                      gain |-> config'.preamp,
                      volume |-> playout_volume']
    ELSE UNCHANGED echo

\* The manager may lower the level on clipping before an error is found, and
\* set it in the end; the analog gain control sets it in the end.
ManagerLevel(l) ==
    level' = IF config.agc = "managed" THEN [level EXCEPT !["manager"] = l] ELSE level

DelayMissing == config.aec = "mobile" /\ ~ was_stream_delay_set
LevelMissing == config.agc = "analog" /\ ~ was_analog_level_set

\* Either parameter missing ends the call after the analysis of the frame;
\* the echo controller has processed the frame when the level is missing.
StreamParameterNotSet(l) ==
    /\ DelayMissing \/ LevelMissing
    /\ ManagerLevel(l)
    /\ result' = "not_set" /\ used' = -1
    /\ UNCHANGED <<was_stream_delay_set, was_analog_level_set>>

\* Fault: the level of one frame serves for the next.
ProcessedKeepsLevelSet(l) ==
    /\ ~ DelayMissing /\ ~ LevelMissing
    /\ IF config.agc = "analog" THEN /\ used' = level["control"]
                                     /\ level' = [level EXCEPT !["control"] = l]
                                ELSE ManagerLevel(l) /\ used' = -1
    /\ was_stream_delay_set' = FALSE
    /\ result' = "ok"
    /\ UNCHANGED was_analog_level_set

Processed(l) ==
    /\ ~ DelayMissing /\ ~ LevelMissing
    /\ IF config.agc = "analog" THEN /\ used' = level["control"]
                                     /\ level' = [level EXCEPT !["control"] = l]
                                ELSE ManagerLevel(l) /\ used' = -1
    /\ was_analog_level_set' = FALSE
    /\ was_stream_delay_set' = FALSE
    /\ result' = "ok"

ProcessStream(pre, gain, volume, l) ==
    /\ RuntimeSettings(pre, gain, volume)
    /\ EchoControl
    /\ StreamParameterNotSet(l) \/ Processed(l)
    /\ UNCHANGED <<linear_aec_output, app>>

\* A gain for a module that is off has no effect.
GainsFor(current) == IF current = 0 THEN {0} ELSE Gains \cup {0}

Next == \/ SetStreamDelay
        \/ \E l \in Levels : SetStreamAnalogLevel(l)
        \/ \E c \in Configs : ApplyConfig(c)
        \/ Initialize
        \/ \E pre \in GainsFor(config.preamp), gain \in GainsFor(postGain),
              volume \in Volumes \cup {-1}, l \in Levels :
                  ProcessStream(pre, gain, volume, l)

Spec == Init /\ [][Next]_vars

(***************************************************************************)
(* Properties                                                              *)
(***************************************************************************)

TypeOK ==
    /\ config \in Settings
    /\ was_stream_delay_set \in BOOLEAN /\ was_analog_level_set \in BOOLEAN
    /\ level \in [Holders -> Levels]
    /\ linear_aec_output \in BOOLEAN
    /\ playout_volume \in Volumes \cup {-1}
    /\ prev \in [level : Levels \cup {-1}, gain : Gains \cup {-1},
                volume : Volumes \cup {-1}]
    /\ echo_path_gain_change \in BOOLEAN
    /\ postGain \in Gains \cup {0} /\ limiterGain \in Gains \cup {0}
    /\ result \in {"none", "ok", "not_set"}
    /\ told \in Levels \cup {-1} /\ sinceConfig \in BOOLEAN
    /\ used \in Levels \cup {-1}
    /\ heard \in [level : Levels \cup {-1}, gain : Gains \cup {-1, 0},
                 volume : Volumes \cup {-1}]

\* The echo controller is told whenever the analog level or the playout volume
\* is not what it was at the last frame it processed, however many frames it
\* was switched off for and whichever module keeps the level; and whenever the
\* pre-amplifier's gain is not, if there was a pre-amplifier then and is now.
EchoPathChangeFlagged ==
    [][\/ heard.level # -1 /\ heard'.level # heard.level
       \/ heard.volume # -1 /\ heard'.volume # heard.volume
       \/ heard.gain > 0 /\ heard'.gain > 0 /\ heard'.gain # heard.gain
       => echo_path_gain_change']_vars

\* The analog gain control works with the level passed for this very frame,
\* unless the settings changed after it was passed: never with the level it
\* recommended itself, never with that of a frame already processed.
AgcWorksWithLevelGiven == used # -1 /\ sinceConfig => used = told

\* The linear output is offered only while an echo controller writes it: however
\* settings replace others, GetLinearAecOutput never gives the last frame of a
\* controller that is gone.
LinearOutputIsLive == linear_aec_output => config.aec = "full"

\* "Reset the limiter to quickly react on abrupt level changes caused by large
\* changes of the fixed gain." (gain_controller2.cc:73)
LimiterFollowsGain == postGain # 0 => limiterGain = postGain
=============================================================================
