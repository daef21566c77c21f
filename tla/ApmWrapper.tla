----------------------------- MODULE ApmWrapper -----------------------------
(***************************************************************************)
(* The C interface (wrapper/webrtc_apm_wrapper.cpp) over the capture side  *)
(* of AudioProcessing.  Most of its setters read the settings, change a    *)
(* field and apply them in two calls of the library, so those of two       *)
(* threads, and a runtime setting taken up by the capture thread, may come *)
(* in between; presets and webrtc_apm_apply_config apply settings of their *)
(* own.                                                                    *)
(*                                                                         *)
(* Settings without a state of their own in CaptureStream (levels, targets,*)
(* filters) are left out: a setter of one of them writes back what it      *)
(* read.  A gain given to a pre-amplifier that is off is left out too:     *)
(* whatever switches it on gives it another.                               *)
(***************************************************************************)
EXTENDS CaptureStream

CONSTANTS Apps,         \* the application's threads
          AppSettings,  \* what webrtc_apm_apply_config is called with
          FarGain,      \* of the pre-amplifier, for a far field
          AssistantGain,\* and for a voice assistant
          MaxCalls      \* bound on the calls that set something

\* config_, with the fields that CaptureStream has no use for.  The interface
\* cannot switch the analog gain controller off, which is on by default: gain
\* control that is on is managed, whatever its mode.
AllSettings == {s \in [c : Settings, mobile : BOOLEAN, multi : BOOLEAN] :
                  s.c.agc \in {"off", "managed"}}

ASSUME WrapperAssumption ==
    /\ AppSettings \subseteq AllSettings
    /\ {1, FarGain, AssistantGain} \subseteq Gains
    /\ MaxCalls \in Nat

VARIABLES hidden,   \* those fields
          call,     \* what each thread has read and changed, to be applied
          started   \* the number of calls so far

wrappervars == <<vars, hidden, call, started>>

WrapperInit == /\ Init
               /\ hidden = [mobile |-> FALSE, multi |-> FALSE]
               /\ call = [a \in Apps |-> {}]
               /\ started = 0

GetConfig == [c |-> config, mobile |-> hidden.mobile, multi |-> hidden.multi]

-----------------------------------------------------------------------------
(* What the setters change.                                                *)

Aec(s) == IF s.mobile THEN "mobile" ELSE "full"

EnableAec(s) == {[s EXCEPT !.c.aec = Aec(s)], [s EXCEPT !.c.aec = "off"]}

\* Gain control that is on is managed (AllSettings).
EnableAgc(s) == {[s EXCEPT !.c.agc = g] : g \in {"off", "managed"}}

SetPreAmplifierGain(s) == {[s EXCEPT !.c.preamp = IF @ = 0 THEN 0 ELSE g] : g \in Gains}

OptimizeForFarField(s) ==
    {[s EXCEPT !.c.preamp = FarGain], [s EXCEPT !.c.preamp = IF @ = 0 THEN 0 ELSE 1]}

SetMultiChannelConfig(s) == {[s EXCEPT !.multi = b] : b \in BOOLEAN}

\* The other setters, and webrtc_apm_reset_statistics.
SetOther(s) == {s}

Changed(s) == EnableAec(s) \cup EnableAgc(s) \cup SetPreAmplifierGain(s)
              \cup OptimizeForFarField(s) \cup SetMultiChannelConfig(s) \cup SetOther(s)

-----------------------------------------------------------------------------
(* The presets.                                                            *)

Default == [c |-> [aec |-> "off", export |-> FALSE, agc |-> "off", preamp |-> 0,
                   agc2 |-> 0],
            mobile |-> FALSE, multi |-> FALSE]

Speech == [Default EXCEPT !.c.aec = "full", !.c.agc = "managed"]
Music == [Default EXCEPT !.c.agc2 = 1]
LowLatency == [Default EXCEPT !.c.aec = "mobile", !.mobile = TRUE, !.c.agc2 = 1]
VoiceAssistant == [Speech EXCEPT !.c.export = TRUE, !.c.preamp = AssistantGain,
                                 !.c.agc2 = 1]

-----------------------------------------------------------------------------
\* AudioProcessing's ApplyConfig, with the reinitialization for another number
\* of channels at its end.
ApplyAll(s) ==
    /\ hidden' = [mobile |-> s.mobile, multi |-> s.multi]
    /\ IF s.multi = hidden.multi THEN ApplyConfig(s.c)
       ELSE /\ config' = s.c
            /\ level' = LevelsAfter(s.c)
            /\ was_analog_level_set' = (was_analog_level_set /\ s.c.agc # "off")
            /\ linear_aec_output' = LinearOutput(s.c)
            /\ postGain' = s.c.agc2
            /\ limiterGain' = IF postGain = 0 THEN s.c.agc2 ELSE limiterGain
            /\ sinceConfig' = FALSE /\ used' = -1 /\ result' = "none"
            /\ UNCHANGED <<was_stream_delay_set, playout_volume, echo, told>>

Start(a) == call[a] = {} /\ started < MaxCalls /\ started' = started + 1

ReadSettings(a) ==
    /\ Start(a)
    /\ \E s \in Changed(GetConfig) : call' = [call EXCEPT ![a] = {s}]
    /\ UNCHANGED <<vars, hidden>>

WriteSettings(a) ==
    /\ \E s \in call[a] : ApplyAll(s)
    /\ call' = [call EXCEPT ![a] = {}]
    /\ UNCHANGED started

ApplyPreset(a) ==
    /\ Start(a)
    /\ \E s \in {Default, Speech, Music, LowLatency, VoiceAssistant} : ApplyAll(s)
    /\ UNCHANGED call

ApplyAppSettings(a) ==
    /\ Start(a)
    /\ \E s \in AppSettings : ApplyAll(s)
    /\ UNCHANGED call

\* The delay or the analog level of the next frame.
SetStreamParameter ==
    /\ SetStreamDelay \/ \E l \in Levels : SetStreamAnalogLevel(l)
    /\ UNCHANGED <<hidden, call, started>>

\* A frame, with a gain a runtime setting has asked for.
ProcessFrame ==
    /\ \E pre \in GainsFor(config.preamp), gain \in GainsFor(postGain), l \in Levels :
          ProcessStream(pre, gain, -1, l)
    /\ UNCHANGED <<hidden, call, started>>

WrapperNext == \/ \E a \in Apps : \/ ReadSettings(a) \/ WriteSettings(a)
                                  \/ ApplyPreset(a) \/ ApplyAppSettings(a)
               \/ SetStreamParameter
               \/ ProcessFrame

WrapperSpec == WrapperInit /\ [][WrapperNext]_wrappervars

-----------------------------------------------------------------------------
\* webrtc_apm_process_stream drops the library's answer, so that a frame the
\* library refuses is lost without a word: that is only one for the mobile echo
\* controller whose delay was not set, and never one for want of an analog
\* level, whatever the order in which the application's threads set, read and
\* write back.
LostOnlyWithoutDelay == result = "not_set" => config.aec = "mobile"
=============================================================================
