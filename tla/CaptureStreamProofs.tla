------------------------ MODULE CaptureStreamProofs ------------------------
(***************************************************************************)
(* The properties of CaptureStream for all levels, gains, volumes and      *)
(* settings, and that they hold as well for an application that uses the C *)
(* interface, from any number of threads.                                  *)
(***************************************************************************)
EXTENDS ApmWrapper, TLAPS

\* The type invariant: no call leaves a level, a gain or a flag outside its
\* range, whatever the settings and whatever the gain controls recommend.
LEMMA InitTypeOK == Init => TypeOK
<1> SUFFICES ASSUME Init PROVE TypeOK
  OBVIOUS
<1>1. 0 \in Levels
  BY LevelAssumption DEF Levels
<1>2. config \in Settings
  BY ConfigAssumption DEF Init
<1>3. level \in [Holders -> Levels]
  BY <1>1 DEF Init
<1> QED
  BY <1>1, <1>2, <1>3 DEF Init, TypeOK

LEMMA ApplySettingsOK ==
    ASSUME TypeOK, NEW c \in Settings, ApplyConfig(c) PROVE TypeOK'
<1>1. c \in Settings
  BY DEF Settings
<1>2. 0 \in Levels
  BY LevelAssumption DEF Levels
<1>3. level' \in [Holders -> Levels]
  BY <1>2 DEF TypeOK, ApplyConfig, LevelsAfter, Holders
<1>4. linear_aec_output' \in BOOLEAN
  BY <1>1 DEF TypeOK, ApplyConfig, LinearOutput, Settings
<1>5. postGain' \in Gains \cup {0} /\ limiterGain' \in Gains \cup {0}
  BY <1>1 DEF TypeOK, ApplyConfig, InitializeGainController2, Gain2ApplyConfig,
     post, Settings
<1>6. was_analog_level_set' \in BOOLEAN
  BY DEF TypeOK, ApplyConfig
<1>7. config' \in Settings /\ used' \in Levels \cup {-1} /\ told' = told
      /\ sinceConfig' \in BOOLEAN /\ result' \in {"none", "ok", "not_set"}
  BY DEF TypeOK, ApplyConfig
<1>8. UNCHANGED <<was_stream_delay_set, playout_volume, echo, told>>
  BY DEF ApplyConfig
<1>9. UNCHANGED <<was_stream_delay_set, playout_volume, prev, echo_path_gain_change, heard>>
  BY <1>8 DEF echo
<1> QED
  BY <1>3, <1>4, <1>5, <1>6, <1>7, <1>9 DEF TypeOK

LEMMA InitializeTypeOK == ASSUME TypeOK, Initialize PROVE TypeOK'
<1>1. linear_aec_output' \in BOOLEAN
  BY DEF TypeOK, Initialize, LinearOutput, Settings
<1>2. postGain' \in Gains \cup {0} /\ limiterGain' \in Gains \cup {0}
  BY DEF TypeOK, Initialize, InitializeGainController2, Gain2ApplyConfig,
     Settings
<1> QED
  BY <1>1, <1>2 DEF TypeOK, Initialize, flags, echo, app

LEMMA RuntimeSettingsType ==
    ASSUME TypeOK, NEW pre \in Gains \cup {0}, NEW gain \in Gains \cup {0},
           NEW volume \in Volumes \cup {-1},
           RuntimeSettings(pre, gain, volume)
    PROVE  /\ config' \in Settings
           /\ config'.aec = config.aec /\ config'.agc = config.agc
           /\ playout_volume' \in Volumes \cup {-1}
           /\ postGain' \in Gains \cup {0} /\ limiterGain' \in Gains \cup {0}
<1>1. config \in Settings
  BY DEF TypeOK, Settings
<1>2. config' = [config EXCEPT !.preamp = IF pre # 0 /\ @ # 0 THEN pre ELSE @,
                  !.agc2 = IF gain # 0 /\ postGain # 0 THEN gain ELSE @]
  BY DEF RuntimeSettings
<1>3. config' \in Settings /\ config'.aec = config.aec /\ config'.agc = config.agc
  BY <1>1, <1>2 DEF Settings
<1>4. playout_volume' \in Volumes \cup {-1}
  BY DEF RuntimeSettings, TypeOK
<1>5. postGain' \in Gains \cup {0} /\ limiterGain' \in Gains \cup {0}
  BY DEF RuntimeSettings, TypeOK, Gain2ApplyConfig, post
<1> QED
  BY <1>3, <1>4, <1>5

LEMMA ProcessStreamTypeOK ==
    ASSUME TypeOK, NEW pre \in Gains \cup {0}, NEW gain \in Gains \cup {0},
           NEW volume \in Volumes \cup {-1}, NEW l \in Levels,
           ProcessStream(pre, gain, volume, l)
    PROVE  TypeOK'
<1>1. RuntimeSettings(pre, gain, volume)
  BY DEF ProcessStream
<1>2. /\ config' \in Settings
      /\ playout_volume' \in Volumes \cup {-1}
      /\ postGain' \in Gains \cup {0} /\ limiterGain' \in Gains \cup {0}
  BY <1>1, RuntimeSettingsType
<1>3. Holder(config) \in Holders /\ Holder(config') \in Holders
  BY DEF Holder, Holders
<1>4. /\ prev' \in [level : Levels \cup {-1}, gain : Gains \cup {-1},
                    volume : Volumes \cup {-1}]
      /\ heard' \in [level : Levels \cup {-1}, gain : Gains \cup {-1, 0},
                     volume : Volumes \cup {-1}]
      /\ echo_path_gain_change' \in BOOLEAN
  <2>1. CASE config.aec = "full"
    <3>1. prev' = [level |-> level[Holder(config')],
                   gain |-> IF config'.preamp # 0 THEN config'.preamp ELSE prev.gain,
                   volume |-> playout_volume']
      BY <2>1 DEF ProcessStream, EchoControl, DetectEchoPathChange
    <3>2. heard' = [level |-> level[Holder(config)],
                    gain |-> config'.preamp,
                    volume |-> playout_volume']
      BY <2>1 DEF ProcessStream, EchoControl
    <3>3. echo_path_gain_change' \in BOOLEAN
      BY <2>1 DEF ProcessStream, EchoControl, DetectEchoPathChange
    <3>4. level[Holder(config)] \in Levels /\ level[Holder(config')] \in Levels
      BY <1>3 DEF TypeOK
    <3>5. config'.preamp \in Gains \cup {0} /\ prev.gain \in Gains \cup {-1}
      BY <1>2 DEF TypeOK, Settings
    <3> QED
      BY <1>2, <3>1, <3>2, <3>3, <3>4, <3>5
  <2>2. CASE config.aec # "full"
    BY <2>2 DEF ProcessStream, EchoControl, echo, TypeOK
  <2> QED
    BY <2>1, <2>2
<1>5. /\ level' \in [Holders -> Levels]
      /\ used' \in Levels \cup {-1}
      /\ result' \in {"none", "ok", "not_set"}
      /\ was_stream_delay_set' \in BOOLEAN /\ was_analog_level_set' \in BOOLEAN
  BY DEF ProcessStream, StreamParameterNotSet, Processed, ManagerLevel, TypeOK, Holders
<1> QED
  BY <1>2, <1>4, <1>5 DEF ProcessStream, TypeOK, Settings, app

LEMMA GainsForGains == ASSUME NEW g PROVE GainsFor(g) \subseteq Gains \cup {0}
  BY DEF GainsFor

LEMMA NextTypeOK == TypeOK /\ [Next]_vars => TypeOK'
<1> SUFFICES ASSUME TypeOK, [Next]_vars PROVE TypeOK'
  OBVIOUS
<1>1. CASE SetStreamDelay
  BY <1>1 DEF SetStreamDelay, TypeOK, echo, post, app
<1>2. ASSUME NEW l \in Levels, SetStreamAnalogLevel(l) PROVE TypeOK'
  BY <1>2 DEF SetStreamAnalogLevel, TypeOK, echo, post, Holders, Holder
<1>3. CASE UNCHANGED vars
  BY <1>3 DEF vars, TypeOK, flags, echo, post, app
<1> QED
  BY <1>1, <1>2, <1>3, ConfigAssumption, ApplySettingsOK, InitializeTypeOK,
     ProcessStreamTypeOK, GainsForGains DEF Next

\* Every level, gain and flag keeps its range.
THEOREM TypeCorrect == Spec => []TypeOK
BY InitTypeOK, NextTypeOK, PTL DEF Spec

(***************************************************************************)
(* The level of the analog gain control.  Its flag survives a change of    *)
(* settings, and a period in which the manager is given the levels, so     *)
(* what the flag means depends on who keeps the level now.                 *)
(***************************************************************************)
FlagMeansGiven ==
    was_analog_level_set /\ sinceConfig /\ Holder(config) = "control"
        => level["control"] = told

LevelInv == TypeOK /\ FlagMeansGiven /\ AgcWorksWithLevelGiven

LEMMA NextLevelInv == TypeOK' /\ LevelInv /\ [Next]_vars => LevelInv'
<1> SUFFICES ASSUME TypeOK', LevelInv, [Next]_vars PROVE LevelInv'
  OBVIOUS
<1> USE DEF LevelInv, FlagMeansGiven, AgcWorksWithLevelGiven
<1>1. CASE SetStreamDelay
  BY <1>1 DEF SetStreamDelay, app
<1>2. ASSUME NEW l \in Levels, SetStreamAnalogLevel(l) PROVE LevelInv'
  BY <1>2 DEF SetStreamAnalogLevel, TypeOK, Holders
<1>3. ASSUME NEW c \in Configs, ApplyConfig(c) PROVE LevelInv'
  BY <1>3 DEF ApplyConfig
<1>4. CASE Initialize
  BY <1>4 DEF Initialize, app, flags
<1>5. ASSUME NEW pre \in Gains \cup {0}, NEW gain \in Gains \cup {0},
             NEW volume \in Volumes \cup {-1}, NEW l \in Levels,
             ProcessStream(pre, gain, volume, l)
      PROVE  LevelInv'
  <2>1. config'.agc = config.agc
    BY <1>5, RuntimeSettingsType DEF ProcessStream
  <2>2. Holder(config') = Holder(config)
    BY <2>1 DEF Holder
  <2>3. UNCHANGED app
    BY <1>5 DEF ProcessStream
  <2>4. CASE StreamParameterNotSet(l)
    BY <2>2, <2>3, <2>4 DEF StreamParameterNotSet, ManagerLevel, app, TypeOK, Holders
  <2>5. CASE Processed(l)
    BY <2>2, <2>3, <2>5 DEF Processed, LevelMissing, Holder, app
  <2> QED
    BY <1>5, <2>4, <2>5 DEF ProcessStream
<1>6. CASE UNCHANGED vars
  BY <1>6 DEF vars, app, flags
<1> QED
  BY <1>1, <1>2, <1>3, <1>4, <1>5, <1>6, GainsForGains DEF Next

\* The analog gain control works with the level passed for this very frame
\* unless the settings changed after it was passed.
THEOREM LevelGiven == Spec => []AgcWorksWithLevelGiven
<1>1. Init => LevelInv
  BY InitTypeOK DEF Init, LevelInv, FlagMeansGiven, AgcWorksWithLevelGiven
<1>2. LevelInv => AgcWorksWithLevelGiven
  BY DEF LevelInv
<1> QED
  BY <1>1, <1>2, NextLevelInv, TypeCorrect, PTL DEF Spec

(***************************************************************************)
(* The echo path.  prev_analog_mic_level and prev_playout_volume are those *)
(* of the last frame the echo controller processed, because both are kept  *)
(* while it is switched off; prev_pre_amp_gain is that of the last such    *)
(* frame that had a pre-amplifier.                                         *)
(***************************************************************************)
PrevIsHeard ==
    /\ prev.level = heard.level /\ prev.volume = heard.volume
    /\ heard.gain > 0 => prev.gain = heard.gain

Flagged == \/ heard.level # -1 /\ heard'.level # heard.level
           \/ heard.volume # -1 /\ heard'.volume # heard.volume
           \/ heard.gain > 0 /\ heard'.gain > 0 /\ heard'.gain # heard.gain
           => echo_path_gain_change'

LEMMA GainPositive ==
    ASSUME NEW g \in Gains \cup {0}
    PROVE  g \in Nat
<1>1. Gains \subseteq Nat \ {0}
  BY GainAssumption
<1>2. CASE g = 0
  BY <1>2
<1>3. CASE g \in Gains
  BY <1>1, <1>3
<1> QED
  BY <1>2, <1>3

LEMMA NextPrevIsHeard ==
    ASSUME TypeOK, PrevIsHeard, [Next]_vars PROVE PrevIsHeard' /\ Flagged
<1> USE DEF PrevIsHeard, Flagged
<1>1. ASSUME UNCHANGED echo PROVE PrevIsHeard' /\ Flagged
  BY <1>1 DEF echo
<1>2. ASSUME NEW pre \in Gains \cup {0}, NEW gain \in Gains \cup {0},
             NEW volume \in Volumes \cup {-1}, NEW l \in Levels,
             ProcessStream(pre, gain, volume, l)
      PROVE  PrevIsHeard' /\ Flagged
  <2>1. Holder(config') = Holder(config)
    BY <1>2, RuntimeSettingsType DEF ProcessStream, Holder
  <2>2. CASE config.aec = "full"
    <3>0. /\ heard'.level = level[Holder(config)]
          /\ heard'.volume = playout_volume'
          /\ heard'.gain = config'.preamp
      BY <1>2, <2>2 DEF ProcessStream, EchoControl
    <3>1. prev'.level = heard'.level /\ prev'.volume = heard'.volume
      BY <1>2, <2>1, <2>2, <3>0 DEF ProcessStream, EchoControl, DetectEchoPathChange
    <3>2. heard'.level # heard.level /\ heard.level # -1 => echo_path_gain_change'
      BY <1>2, <2>1, <2>2, <3>0
         DEF ProcessStream, EchoControl, DetectEchoPathChange
    <3>3. heard.volume # -1 => heard.volume >= 0
      <4>1. heard.volume \in Volumes \cup {-1}
        BY DEF TypeOK
      <4>2. heard.volume # -1 => heard.volume \in Nat
        BY <4>1, LevelAssumption
      <4> QED
        BY <4>2
    <3>4. heard'.volume # heard.volume /\ heard.volume # -1 => echo_path_gain_change'
      BY <1>2, <2>2, <3>0, <3>3
         DEF ProcessStream, EchoControl, DetectEchoPathChange
    <3>5. heard.gain \in Int /\ (config'.preamp # 0 => config'.preamp > 0)
      <4>1. config' \in Settings
        BY <1>2, RuntimeSettingsType DEF ProcessStream
      <4>2. config'.preamp \in Gains \cup {0}
        BY <4>1 DEF Settings
      <4>3. config'.preamp \in Nat
        BY <4>2, GainPositive
      <4>4. heard.gain = -1 \/ heard.gain \in Gains \cup {0}
        BY DEF TypeOK
      <4>5. heard.gain \in Int
        BY <4>4, GainPositive
      <4> QED
        BY <4>3, <4>5
    <3>6. heard'.gain > 0 => prev'.gain = heard'.gain
      BY <1>2, <2>2, <3>0 DEF ProcessStream, EchoControl, DetectEchoPathChange
    <3>7. heard.gain > 0 /\ heard'.gain > 0 /\ heard'.gain # heard.gain
            => echo_path_gain_change'
      <4> SUFFICES ASSUME heard.gain > 0, heard'.gain > 0, heard'.gain # heard.gain
                   PROVE  echo_path_gain_change'
        OBVIOUS
      <4>1. prev.gain = heard.gain /\ prev.gain >= 0
        BY <3>5
      <4>2. config'.preamp # 0 /\ prev.gain # config'.preamp
        BY <3>0, <4>1
      <4> QED
        BY <1>2, <2>2, <4>1, <4>2
           DEF ProcessStream, EchoControl, DetectEchoPathChange
    <3> QED
      BY <3>1, <3>2, <3>4, <3>6, <3>7
  <2>3. CASE config.aec # "full"
    BY <1>1, <1>2, <2>3 DEF ProcessStream, EchoControl
  <2> QED
    BY <2>2, <2>3
<1> QED
  BY <1>1, <1>2, GainsForGains
     DEF Next, SetStreamDelay, SetStreamAnalogLevel, ApplyConfig, Initialize, vars

\* Every change of the analog level, the playout volume or the gain of a
\* pre-amplifier between two frames of the echo controller is flagged to it.
THEOREM EchoPathFlagged == Spec => EchoPathChangeFlagged
<1>1. Init => PrevIsHeard
  BY DEF Init, PrevIsHeard
<1>2. TypeOK /\ PrevIsHeard /\ [Next]_vars => PrevIsHeard' /\ [Flagged]_vars
  BY NextPrevIsHeard
<1> QED
  BY <1>1, <1>2, TypeCorrect, PTL DEF Spec, EchoPathChangeFlagged, Flagged

(***************************************************************************)
(* The linear output.  Its storage follows the echo canceller only when    *)
(* that changes, so it may lag behind the setting, but not behind the      *)
(* controller.                                                             *)
(***************************************************************************)
LEMMA NextLinear ==
    TypeOK /\ LinearOutputIsLive /\ [Next]_vars => LinearOutputIsLive'
<1> SUFFICES ASSUME TypeOK, LinearOutputIsLive, [Next]_vars PROVE LinearOutputIsLive'
  OBVIOUS
<1> USE DEF LinearOutputIsLive
<1>1. ASSUME NEW c \in Configs, ApplyConfig(c) PROVE LinearOutputIsLive'
  BY <1>1 DEF ApplyConfig, LinearOutput
<1>2. CASE Initialize
  BY <1>2 DEF Initialize, LinearOutput
<1>3. ASSUME NEW pre \in Gains \cup {0}, NEW gain \in Gains \cup {0},
             NEW volume \in Volumes \cup {-1}, NEW l \in Levels,
             ProcessStream(pre, gain, volume, l)
      PROVE  LinearOutputIsLive'
  <2>1. config'.aec = config.aec
    BY <1>3 DEF ProcessStream, RuntimeSettings, TypeOK, Settings
  <2> QED
    BY <1>3, <2>1 DEF ProcessStream
<1> QED
  BY <1>1, <1>2, <1>3, GainsForGains
     DEF Next, SetStreamDelay, SetStreamAnalogLevel, vars

\* GetLinearAecOutput never gives the last frame of an echo controller that the
\* settings have removed since.
THEOREM LinearOutputLive == Spec => []LinearOutputIsLive
<1>1. Init => LinearOutputIsLive
  BY DEF Init, LinearOutputIsLive
<1> QED
  BY <1>1, NextLinear, TypeCorrect, PTL DEF Spec

(***************************************************************************)
(* How far the limiter of gain controller 2 misses the gain in force.      *)
(***************************************************************************)

\* As long as there is a gain controller 2, neither other settings, nor Initialize,
\* nor a runtime setting for its gain resets the limiter, however large the change;
\* that of a new gain controller starts at its gain.
LimiterOnlyFollowsCreation ==
    [][/\ postGain # 0 => UNCHANGED limiterGain
       /\ postGain = 0 /\ postGain' # 0 => limiterGain' = postGain']_vars

\* For all gains and settings the reset in GainController2::ApplyConfig is never
\* reached: the limiter keeps the gain its gain controller was created with.
THEOREM LimiterNeverReset == Spec => LimiterOnlyFollowsCreation
<1> DEFINE Follows == /\ postGain # 0 => UNCHANGED limiterGain
                      /\ postGain = 0 /\ postGain' # 0 => limiterGain' = postGain'
<1>1. ASSUME NEW c, InitializeGainController2(c) PROVE Follows
  BY <1>1 DEF InitializeGainController2, Gain2ApplyConfig
<1>2. ASSUME NEW pre, NEW gain, NEW volume, RuntimeSettings(pre, gain, volume) PROVE Follows
  BY <1>2 DEF RuntimeSettings, Gain2ApplyConfig, post
<1>3. ASSUME UNCHANGED post PROVE Follows
  BY <1>3 DEF post
<1>4. Next => Follows
  <2>1. CASE SetStreamDelay
    BY <1>3, <2>1 DEF SetStreamDelay
  <2>2. ASSUME NEW l \in Levels, SetStreamAnalogLevel(l) PROVE Follows
    BY <1>3, <2>2 DEF SetStreamAnalogLevel
  <2>3. ASSUME NEW c \in Configs, ApplyConfig(c) PROVE Follows
    BY <1>1, <1>3, <2>3 DEF ApplyConfig
  <2>4. CASE Initialize
    BY <1>1, <2>4 DEF Initialize
  <2>5. ASSUME NEW pre, NEW gain, NEW volume, NEW l, ProcessStream(pre, gain, volume, l)
        PROVE  Follows
    BY <1>2, <2>5 DEF ProcessStream
  <2> QED
    BY <2>1, <2>2, <2>3, <2>4, <2>5 DEF Next
<1> HIDE DEF Follows
<1>5. [Next]_vars => [Follows]_vars
  BY <1>4
<1> QED
  BY <1>5, PTL DEF Spec, LimiterOnlyFollowsCreation, Follows

(***************************************************************************)
(* The C interface.  A frame is one of CaptureStream; what the interface   *)
(* adds is settings that are not in Configs, read and written back by      *)
(* threads that overtake each other, and the reinitialization when the     *)
(* number of channels changes.  Its gain control is managed or off.        *)
(***************************************************************************)
WrapperOK ==
    /\ TypeOK
    /\ config.agc \in {"off", "managed"}
    /\ hidden \in [mobile : BOOLEAN, multi : BOOLEAN]
    /\ call \in [Apps -> SUBSET AllSettings]

\* What a setter writes, and a preset, are settings.
LEMMA SettersGiveSettings ==
    ASSUME NEW s \in AllSettings PROVE Changed(s) \subseteq AllSettings
<1> USE DEF AllSettings, Settings
<1>1. EnableAec(s) \subseteq AllSettings
  BY DEF EnableAec, Aec
<1>2. EnableAgc(s) \subseteq AllSettings
  BY DEF EnableAgc
<1>3. SetPreAmplifierGain(s) \subseteq AllSettings
  BY DEF SetPreAmplifierGain
<1>4. OptimizeForFarField(s) \subseteq AllSettings
  BY WrapperAssumption DEF OptimizeForFarField
<1>5. SetMultiChannelConfig(s) \cup SetOther(s) \subseteq AllSettings
  BY DEF SetMultiChannelConfig, SetOther
<1> QED
  BY <1>1, <1>2, <1>3, <1>4, <1>5 DEF Changed

LEMMA PresetsAreSettings ==
    {Default, Speech, Music, LowLatency, VoiceAssistant} \subseteq AllSettings
<1>1. Default \in AllSettings
  BY DEF Default, AllSettings, Settings
<1>2. Speech \in AllSettings
  BY <1>1 DEF Speech, AllSettings, Settings
<1>3. Music \in AllSettings /\ LowLatency \in AllSettings
  BY <1>1, WrapperAssumption DEF Music, LowLatency, AllSettings, Settings
<1>4. VoiceAssistant \in AllSettings
  BY <1>2, WrapperAssumption DEF VoiceAssistant, AllSettings, Settings
<1> QED
  BY <1>1, <1>2, <1>3, <1>4

LEMMA ApplyAllOK ==
    ASSUME TypeOK, NEW s \in AllSettings, ApplyAll(s)
    PROVE  /\ TypeOK'
           /\ config'.agc \in {"off", "managed"}
           /\ hidden' \in [mobile : BOOLEAN, multi : BOOLEAN]
<1>0. config' = s.c /\ s.c.agc \in {"off", "managed"}
  BY DEF ApplyAll, ApplyConfig, AllSettings
<1>1. s.c \in Settings /\ s.mobile \in BOOLEAN /\ s.multi \in BOOLEAN
  BY DEF AllSettings
<1>2. CASE s.multi = hidden.multi
  BY <1>0, <1>1, <1>2, ApplySettingsOK DEF ApplyAll
<1>3. CASE s.multi # hidden.multi
  <2>1. level' \in [Holders -> Levels]
    BY <1>3, LevelAssumption DEF TypeOK, ApplyAll, LevelsAfter, Holders, Levels
  <2>2. postGain' \in Gains \cup {0} /\ limiterGain' \in Gains \cup {0}
    BY <1>1, <1>3 DEF TypeOK, ApplyAll, Settings
  <2>3. linear_aec_output' \in BOOLEAN /\ was_analog_level_set' \in BOOLEAN
    BY <1>1, <1>3 DEF TypeOK, ApplyAll, LinearOutput, Settings
  <2> QED
    BY <1>0, <1>1, <1>3, <2>1, <2>2, <2>3 DEF TypeOK, ApplyAll, echo
<1> QED
  BY <1>0, <1>1, <1>2, <1>3 DEF ApplyAll

\* A frame changes none of the switches.
LEMMA FrameKeepsSwitches ==
    ASSUME TypeOK, ProcessFrame
    PROVE  config'.aec = config.aec /\ config'.agc = config.agc
BY DEF ProcessFrame, ProcessStream, RuntimeSettings, TypeOK, Settings

\* A step of the interface applies settings, is a frame, or is unseen.
LEMMA WrapperSteps ==
    ASSUME WrapperOK, [WrapperNext]_wrappervars
    PROVE  [Next]_vars \/ \E s \in AllSettings : ApplyAll(s)
<1> USE DEF WrapperOK
<1>1. ASSUME NEW a \in Apps, WriteSettings(a)
      PROVE  \E s \in AllSettings : ApplyAll(s)
  BY <1>1 DEF WriteSettings
<1>2. ASSUME NEW a \in Apps, ApplyPreset(a)
      PROVE  \E s \in AllSettings : ApplyAll(s)
  BY <1>2, PresetsAreSettings DEF ApplyPreset
<1>3. ASSUME NEW a \in Apps, ApplyAppSettings(a)
      PROVE  \E s \in AllSettings : ApplyAll(s)
  BY <1>3, WrapperAssumption DEF ApplyAppSettings
<1>4. CASE ProcessFrame
  BY <1>4 DEF ProcessFrame, Next
<1>5. CASE SetStreamParameter
  BY <1>5 DEF SetStreamParameter, Next
<1> QED
  BY <1>1, <1>2, <1>3, <1>4, <1>5 DEF WrapperNext, ReadSettings, wrappervars

\* Whatever the threads of the application have read and not yet written back,
\* settings, levels, gains and flags keep their types.
THEOREM WrapperTypeCorrect == WrapperSpec => []WrapperOK
<1>1. WrapperInit => WrapperOK
  BY InitTypeOK DEF WrapperInit, Init, WrapperOK
<1>2. ASSUME WrapperOK, [WrapperNext]_wrappervars PROVE WrapperOK'
  <2>1. TypeOK'
    BY <1>2, WrapperSteps, NextTypeOK, ApplyAllOK DEF WrapperOK
  <2>2. GetConfig \in AllSettings
    BY <1>2 DEF WrapperOK, TypeOK, GetConfig, AllSettings
  <2>3. ASSUME NEW a \in Apps, ReadSettings(a) PROVE WrapperOK'
    BY <1>2, <2>1, <2>2, <2>3, SettersGiveSettings DEF ReadSettings, WrapperOK, vars
  <2>4. ASSUME NEW a \in Apps, WriteSettings(a) PROVE WrapperOK'
    BY <1>2, <2>1, <2>4, ApplyAllOK DEF WriteSettings, WrapperOK
  <2>5. ASSUME NEW a \in Apps, ApplyPreset(a) PROVE WrapperOK'
    BY <1>2, <2>1, <2>5, ApplyAllOK, PresetsAreSettings DEF ApplyPreset, WrapperOK
  <2>6. ASSUME NEW a \in Apps, ApplyAppSettings(a) PROVE WrapperOK'
    BY <1>2, <2>1, <2>6, ApplyAllOK, WrapperAssumption
       DEF ApplyAppSettings, WrapperOK
  <2>7. CASE ProcessFrame
    BY <1>2, <2>1, <2>7, FrameKeepsSwitches DEF ProcessFrame, WrapperOK
  <2>8. CASE SetStreamParameter \/ UNCHANGED wrappervars
    BY <1>2, <2>1, <2>8
    DEF SetStreamParameter, SetStreamDelay, SetStreamAnalogLevel, wrappervars, vars,
        WrapperOK
  <2> QED
    BY <1>2, <2>3, <2>4, <2>5, <2>6, <2>7, <2>8 DEF WrapperNext
<1> QED
  BY <1>1, <1>2, PTL DEF WrapperSpec

\* webrtc_apm_process_stream, which drops the library's answer, loses a frame
\* only to the mobile echo controller, for a delay that was not set.  Levels
\* are set, or not, in any order with everything else, and never matter: no
\* setter, no preset and nothing two threads write back makes the analog gain
\* control, which would need one, work without its manager.
THEOREM WrapperLosesOnlyWithoutDelay == WrapperSpec => []LostOnlyWithoutDelay
<1>1. WrapperInit => LostOnlyWithoutDelay
  BY DEF WrapperInit, Init, LostOnlyWithoutDelay
<1>2. WrapperOK /\ LostOnlyWithoutDelay /\ [WrapperNext]_wrappervars
        => LostOnlyWithoutDelay'
  <2> SUFFICES ASSUME WrapperOK, LostOnlyWithoutDelay, [WrapperNext]_wrappervars
               PROVE  LostOnlyWithoutDelay'
    OBVIOUS
  <2>1. ASSUME NEW s \in AllSettings, ApplyAll(s) PROVE LostOnlyWithoutDelay'
    BY <2>1 DEF ApplyAll, ApplyConfig, LostOnlyWithoutDelay
  <2>2. ASSUME NEW a \in Apps, ReadSettings(a) PROVE LostOnlyWithoutDelay'
    BY <2>2 DEF ReadSettings, vars, LostOnlyWithoutDelay, flags
  <2>3. ASSUME NEW a \in Apps, WriteSettings(a) PROVE LostOnlyWithoutDelay'
    BY <2>1, <2>3 DEF WriteSettings, WrapperOK
  <2>4. ASSUME NEW a \in Apps, ApplyPreset(a) PROVE LostOnlyWithoutDelay'
    BY <2>1, <2>4, PresetsAreSettings DEF ApplyPreset
  <2>5. ASSUME NEW a \in Apps, ApplyAppSettings(a) PROVE LostOnlyWithoutDelay'
    BY <2>1, <2>5, WrapperAssumption DEF ApplyAppSettings
  <2>6. CASE ProcessFrame
    <3>1. PICK l \in Levels : StreamParameterNotSet(l) \/ Processed(l)
      BY <2>6 DEF ProcessFrame, ProcessStream
    <3>2. ~ LevelMissing
      BY DEF WrapperOK, LevelMissing
    <3>3. CASE StreamParameterNotSet(l)
      BY <2>6, <3>2, <3>3, FrameKeepsSwitches
      DEF StreamParameterNotSet, DelayMissing, LostOnlyWithoutDelay, WrapperOK
    <3>4. CASE Processed(l)
      BY <3>4 DEF Processed, LostOnlyWithoutDelay
    <3> QED
      BY <3>1, <3>3, <3>4
  <2>7. CASE SetStreamParameter \/ UNCHANGED wrappervars
    BY <2>7 DEF SetStreamParameter, SetStreamDelay, SetStreamAnalogLevel, wrappervars,
                vars, app, post, flags, LostOnlyWithoutDelay
  <2> QED
    BY <2>2, <2>3, <2>4, <2>5, <2>6, <2>7 DEF WrapperNext
<1> QED
  BY <1>1, <1>2, WrapperTypeCorrect, PTL DEF WrapperSpec

\* Through the C interface, too, every change of the level or the gains is
\* flagged to the echo controller.
THEOREM WrapperEchoPathFlagged == WrapperSpec => EchoPathChangeFlagged
<1>1. WrapperInit => PrevIsHeard
  BY DEF WrapperInit, Init, PrevIsHeard
<1>2. WrapperOK /\ PrevIsHeard /\ [WrapperNext]_wrappervars
        => PrevIsHeard' /\ [Flagged]_vars
  <2> SUFFICES ASSUME WrapperOK, PrevIsHeard, [WrapperNext]_wrappervars
               PROVE  PrevIsHeard' /\ Flagged
    OBVIOUS
  <2>1. ASSUME NEW s \in AllSettings, ApplyAll(s) PROVE PrevIsHeard' /\ Flagged
    BY <2>1 DEF ApplyAll, ApplyConfig, PrevIsHeard, Flagged, echo
  <2> QED
    BY <2>1, WrapperSteps, NextPrevIsHeard DEF WrapperOK
<1> QED
  BY <1>1, <1>2, WrapperTypeCorrect, PTL
  DEF WrapperSpec, EchoPathChangeFlagged, Flagged

\* Nor does the linear output outlive its echo controller when two threads
\* write back what they read in turn.
THEOREM WrapperLinearOutputLive == WrapperSpec => []LinearOutputIsLive
<1>1. WrapperInit => LinearOutputIsLive
  BY DEF WrapperInit, Init, LinearOutputIsLive
<1>2. WrapperOK /\ LinearOutputIsLive /\ [WrapperNext]_wrappervars
        => LinearOutputIsLive'
  <2> SUFFICES ASSUME WrapperOK, LinearOutputIsLive, [WrapperNext]_wrappervars
               PROVE  LinearOutputIsLive'
    OBVIOUS
  <2>1. ASSUME NEW s \in AllSettings, ApplyAll(s) PROVE LinearOutputIsLive'
    BY <2>1 DEF ApplyAll, ApplyConfig, LinearOutput, LinearOutputIsLive
  <2> QED
    BY <2>1, WrapperSteps, NextLinear DEF WrapperOK
<1> QED
  BY <1>1, <1>2, WrapperTypeCorrect, PTL DEF WrapperSpec
=============================================================================
