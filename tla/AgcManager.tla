----------------------------- MODULE AgcManager -----------------------------
(***************************************************************************)
(* The analog gain controller (agc/agc_manager_direct.cc): it moves the    *)
(* microphone volume slider and the digital gain so that speech is loud    *)
(* enough, and shares the slider with the user.  The application passes    *)
(* the slider's position before a frame and puts it where the controller   *)
(* says after the frame; a position far from the controller's own is taken *)
(* for a move of the user.                                                 *)
(*                                                                         *)
(* One channel: with more of them each is handled alike, and the lowest    *)
(* of their positions is recommended.                                      *)
(***************************************************************************)
EXTENDS Integers, FiniteSetsExt

CONSTANTS MaxMicLevel, MinMicLevel, StartupMinLevel,
          ClippedLevelMin, ClippedLevelStep, ClippedWaitFrames,
          LevelQuantizationSlack,
          GainMap,             \* the gain in dB of each level
          MinCompression, DefaultCompression, MaxCompression,
          SurplusCompression, MaxResidualGainChange,
          StepsPerDb,          \* 1 / kCompressionGainStep: 20
          AnalysisFrames,      \* kNumAnalysisFrames of the loudness histogram
          Chunk,               \* 10 ms frames that the voice detector adds at
                               \* once to the histogram: 3
          RmsErrors,           \* the loudness errors it can report, in dB
          StreamLevels         \* the positions the application can pass

Levels == 0 .. MaxMicLevel

ASSUME AgcAssumption ==
    /\ {MaxMicLevel, ClippedLevelStep, StepsPerDb, Chunk} \subseteq Nat \ {0}
    /\ {MinMicLevel, StartupMinLevel, ClippedLevelMin} \subseteq Levels
    /\ MinMicLevel <= StartupMinLevel /\ ClippedLevelMin < MaxMicLevel
    /\ {ClippedWaitFrames, LevelQuantizationSlack, MinCompression,
        SurplusCompression, MaxResidualGainChange} \subseteq Nat
    /\ GainMap \in [Levels -> Int]
    /\ {DefaultCompression, MaxCompression} \subseteq Nat
    /\ MinCompression <= DefaultCompression /\ DefaultCompression <= MaxCompression
    /\ AnalysisFrames \in Nat /\ Chunk < AnalysisFrames
    /\ RmsErrors \subseteq Int /\ StreamLevels \subseteq Int

VARIABLES agc,                  \* the channel's MonoAgc, below
          frames_since_clipped,
          capture_muted
avars == <<agc, frames_since_clipped, capture_muted>>

Clamp(x, lo, hi) == IF x < lo THEN lo ELSE IF x > hi THEN hi ELSE x
Halved(x) == IF x < 0 THEN -((-x) \div 2) ELSE x \div 2
Larger2(x, y) == IF x < y THEN y ELSE x
Smaller2(x, y) == IF x < y THEN x ELSE y

(***************************************************************************)
(* The channel.  accumulator counts steps, StepsPerDb of them to a dB;     *)
(* updates is what the loudness histogram holds; fresh is a history: the   *)
(* updates since the channel last took a position over from outside.       *)
(***************************************************************************)
Initialized(a) == [a EXCEPT !.max_level = MaxMicLevel,
                            !.target = DefaultCompression,
                            !.compression = DefaultCompression,
                            !.accumulator = DefaultCompression * StepsPerDb,
                            !.check_volume = TRUE]

MonoAgc == [level |-> 0, stream |-> 0, max_level |-> MaxMicLevel,
            target |-> DefaultCompression, compression |-> DefaultCompression,
            accumulator |-> DefaultCompression * StepsPerDb,
            check_volume |-> TRUE, startup |-> TRUE, updates |-> 0, fresh |-> 0]

\* max_compression_gain_, which SetMaxLevel derives from the maximum level.
MaxGain(max_level) ==
    MaxCompression + (2 * (MaxMicLevel - max_level) * SurplusCompression
                        + MaxMicLevel - ClippedLevelMin)
                     \div (2 * (MaxMicLevel - ClippedLevelMin))

\* The manual branch of SetLevel: the user's position is taken over, and the
\* loudness is measured anew before the slider is moved.
TakenOver(a) == [a EXCEPT !.level = a.stream,
                          !.max_level = Larger2(a.max_level, a.stream),
                          !.updates = 0, !.fresh = 0]

MovedByUser(a) == \/ a.stream > a.level + LevelQuantizationSlack
                  \/ a.stream < a.level - LevelQuantizationSlack

SetLevel(a, new_level) ==
    LET new == Smaller2(new_level, a.max_level)
    IN IF a.stream = 0 \/ a.stream \notin Levels THEN a
       ELSE IF MovedByUser(a) THEN TakenOver(a)
       ELSE IF new = a.level THEN a
       ELSE [a EXCEPT !.stream = new, !.level = new]

HandleClipping(a) ==
    LET limited == [a EXCEPT !.max_level =
                        Larger2(ClippedLevelMin, a.max_level - ClippedLevelStep)]
    IN IF a.level > ClippedLevelMin
       THEN [SetLevel(limited, Larger2(ClippedLevelMin, a.level - ClippedLevelStep))
               EXCEPT !.updates = 0]
       ELSE limited

CheckVolumeKeepingLoudness(a) ==
    LET minLevel == IF a.startup THEN StartupMinLevel ELSE MinMicLevel
        raised == Larger2(a.stream, minLevel)
    IN IF (a.stream = 0 /\ ~a.startup) \/ a.stream \notin Levels THEN a
       ELSE [a EXCEPT !.stream = raised, !.level = raised, !.startup = FALSE,
                      !.fresh = 0]

CheckVolumeAndReset(a) ==
    LET minLevel == IF a.startup THEN StartupMinLevel ELSE MinMicLevel
        raised == Larger2(a.stream, minLevel)
    IN IF (a.stream = 0 /\ ~a.startup) \/ a.stream \notin Levels THEN a
       ELSE [a EXCEPT !.stream = raised, !.level = raised, !.startup = FALSE,
                      !.updates = 0, !.fresh = 0]

Checked(a) == IF a.check_volume
              THEN CheckVolumeAndReset([a EXCEPT !.check_volume = FALSE]) ELSE a

\* Agc::Process: the voice detector adds Chunk frames at once, or none.
Measured(a, n) == [a EXCEPT !.updates = Smaller2(AnalysisFrames, a.updates + n),
                            !.fresh = Smaller2(AnalysisFrames, a.fresh + n)]

\* The lowest level that adds error dB, the highest that takes them away.
LevelFromGainError(error, level) ==
    IF error = 0 THEN level
    ELSE IF error > 0
    THEN Min({n \in level .. MaxMicLevel : GainMap[n] - GainMap[level] >= error}
               \cup {MaxMicLevel})
    ELSE Max({n \in MinMicLevel .. level : GainMap[n] - GainMap[level] <= error}
               \cup {Smaller2(level, MinMicLevel)})

\* The target moves half way, but all the way to an end of the range.
NewTarget(raw, target, max) ==
    IF \/ raw = max /\ target = max - 1
       \/ raw = MinCompression /\ target = MinCompression + 1
    THEN raw
    ELSE Halved(raw - target) + target

\* UpdateGain, once GetRmsErrorDb has returned an error and cleared the histogram.
UpdateGain(a, rms_error) ==
    LET error == rms_error + MinCompression
        max == MaxGain(a.max_level)
        raw == Clamp(error, MinCompression, max)
        residual == Clamp(error - raw, -MaxResidualGainChange, MaxResidualGainChange)
        heard == [a EXCEPT !.updates = 0, !.target = NewTarget(raw, a.target, max)]
    IN IF residual = 0 THEN heard
       ELSE SetLevel(heard, LevelFromGainError(residual, a.level))

UpdateCompressorUnsettled(a) ==
    LET acc == a.accumulator + (IF a.target > a.compression THEN 1 ELSE -1)
    IN [a EXCEPT !.accumulator = acc,
                 !.compression = IF acc % StepsPerDb = 0 THEN acc \div StepsPerDb
                                 ELSE a.compression]

UpdateCompressor(a) ==
    LET acc == a.accumulator + (IF a.target > a.compression THEN 1 ELSE -1)
    IN IF a.compression = a.target THEN a
       ELSE [a EXCEPT !.accumulator = acc,
                      !.compression = IF acc % StepsPerDb = 0 THEN acc \div StepsPerDb
                                      ELSE a.compression]

\* GetRmsErrorDb has nothing to say before AnalysisFrames updates, nor then if
\* there was little speech among them.
Heard(a, error) == {a} \cup (IF a.updates >= AnalysisFrames
                             THEN {UpdateGain(a, error)} ELSE {})

(***************************************************************************)
(* The manager.                                                            *)
(***************************************************************************)
AgcInit == /\ agc = Initialized(MonoAgc)
           /\ frames_since_clipped = ClippedWaitFrames
           /\ capture_muted = FALSE

\* InitializeGainController1 with the manager that exists, or with a new one
\* because the rate or the number of channels changed.
InitializeManager == /\ agc' = Initialized(agc)
                     /\ UNCHANGED <<frames_since_clipped, capture_muted>>
CreateManager == /\ agc' = Initialized([MonoAgc EXCEPT !.stream = agc.stream])
                 /\ frames_since_clipped' = ClippedWaitFrames
                 /\ UNCHANGED capture_muted

SetStreamAnalogLevel == /\ \E l \in StreamLevels : agc' = [agc EXCEPT !.stream = l]
                        /\ UNCHANGED <<frames_since_clipped, capture_muted>>

SetCaptureMuted == /\ capture_muted' = ~capture_muted
                   /\ agc' = IF capture_muted THEN [agc EXCEPT !.check_volume = TRUE]
                             ELSE agc
                   /\ UNCHANGED frames_since_clipped

\* AnalyzePreProcess returns at once while muted; after clipping it does not
\* look for some frames.
Looks == frames_since_clipped >= ClippedWaitFrames
AnalyzePreProcess(clipped) == IF clipped THEN HandleClipping(agc) ELSE agc
AnalyzedFrame(clipped) ==
    /\ clipped => Looks
    /\ frames_since_clipped' = IF clipped THEN 0
                               ELSE IF Looks THEN frames_since_clipped
                               ELSE frames_since_clipped + 1

ProcessedFrame(clipped) ==
    \E n \in {0, Chunk}, e \in RmsErrors :
        \E heard \in Heard(Measured(Checked(AnalyzePreProcess(clipped)), n), e) :
            agc' = UpdateCompressor(heard)

\* A capture call analyses the frame and, unless the call fails in between,
\* processes it.
CaptureFrame == /\ ~capture_muted
                /\ \E clipped \in BOOLEAN : AnalyzedFrame(clipped) /\ ProcessedFrame(clipped)
                /\ UNCHANGED capture_muted
FailedFrame == /\ ~capture_muted
               /\ \E clipped \in BOOLEAN : /\ AnalyzedFrame(clipped)
                                           /\ agc' = AnalyzePreProcess(clipped)
               /\ UNCHANGED capture_muted

AgcNext == InitializeManager \/ CreateManager \/ SetStreamAnalogLevel
             \/ SetCaptureMuted \/ CaptureFrame \/ FailedFrame
AgcSpec == AgcInit /\ [][AgcNext]_avars

(***************************************************************************)
(* What holds.                                                             *)
(***************************************************************************)
(* The controller's own level is a position of the slider, its maximum is  *)
(* never below what clipping may lower it to (which SetMaxLevel asserts),  *)
(* and the digital gain stays in its range.                                *)
AgcTypeOK ==
    /\ agc.level \in Levels
    /\ agc.stream \in StreamLevels \cup Levels
    /\ agc.max_level \in ClippedLevelMin .. MaxMicLevel
    /\ agc.target \in MinCompression .. MaxCompression + SurplusCompression
    /\ agc.compression \in MinCompression .. MaxCompression + SurplusCompression
    /\ {agc.check_volume, agc.startup, capture_muted} \subseteq BOOLEAN
    /\ agc.updates \in 0 .. AnalysisFrames
    /\ frames_since_clipped \in 0 .. ClippedWaitFrames

(* A frame moves the slider only from where the controller left it, give   *)
(* or take the rounding of the system, never from where the user put it;   *)
(* and unless the frame clips, only after the loudness has been measured   *)
(* long enough since the controller took a position over from the user.    *)
(* The volume check after start up and muting is the exception.            *)
UserVolumeIsKept ==
    [][(agc.stream # agc'.stream /\ ~agc.check_volume /\ CaptureFrame)
         => /\ ~MovedByUser(agc)
            /\ frames_since_clipped' = 0 \/ agc'.fresh >= AnalysisFrames]_avars
=============================================================================
