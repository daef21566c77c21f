----------------------------- MODULE AecmChannel -----------------------------
(***************************************************************************)
(* The decisions the mobile echo canceller takes for every block           *)
(* (aecm/aecm_core.cc): how loud the far end must be to count as speech,   *)
(* whether the adaptive channel adapts, when it replaces the stored        *)
(* channel or is reset to it, and how far echo is suppressed.  The         *)
(* channels are represented by one frequency bin of a small gain, whose    *)
(* adaption error is any; energies are logarithms in a scale the instance  *)
(* chooses; the validation sums are drawn from a small set.                *)
(***************************************************************************)
EXTENDS Integers

CONSTANTS FarEnergies,    \* what the log energy of a far-end block can be
          EnergyMin,      \* FAR_ENERGY_MIN
          EnergyDiff,     \* FAR_ENERGY_DIFF
          VadRegion,      \* FAR_ENERGY_VAD_REGION
          VadReference,   \* 2560
          RegionScale,    \* 1 << 9
          MseMargin,      \* 1 << 8
          Unset,          \* no level yet: WEBRTC_SPL_WORD16_MAX and _MIN
          Slow, Fast,     \* the shifts of the level filters, as divisors
          VadUpdates,     \* 1024
          ConvLen,        \* CONV_LEN
          MseCount,       \* MIN_MSE_COUNT + 10
          Sums,           \* what a validation sum can be
          ScaleDown,      \* 8
          TopGain,        \* bound: the largest gain of a channel
          InitialGain,    \* of the channel kChannelStored8kHz or 16kHz
          SupGains,       \* what the suppression gain of a block can be
          DefaultSupGain, \* SUPGAIN_DEFAULT
          GainStep        \* 16

ASSUME ChannelAssumption ==
    /\ FarEnergies \subseteq Nat /\ Unset \notin Int
    /\ {EnergyMin, EnergyDiff, VadRegion, VadReference, MseMargin, TopGain} \subseteq Nat
    /\ {Slow, Fast, RegionScale, VadUpdates, ConvLen, MseCount, ScaleDown, GainStep} \subseteq Nat \ {0}
    /\ Fast =< Slow
    /\ Sums \subseteq Nat /\ SupGains \cup {DefaultSupGain} \subseteq Nat
    /\ InitialGain \in 0..TopGain

VARIABLES totCount, startupState,
          farLogEnergy, farEnergyMin, farEnergyMax, farEnergyVAD, farEnergyMSE,
          currentVADValue, vadUpdateCount, firstVAD,
          channelAdapt16, channelAdapt32, channelStored,
          mseChannelCount, mseAdaptOld, mseStoredOld, mseThreshold,
          supGain, supGainOld
levels == <<farLogEnergy, farEnergyMin, farEnergyMax, farEnergyVAD, farEnergyMSE,
            currentVADValue, vadUpdateCount>>
mse == <<mseChannelCount, mseAdaptOld, mseStoredOld, mseThreshold>>
cvars == <<totCount, startupState, levels, firstVAD, channelAdapt16,
           channelAdapt32, channelStored, mse, supGain, supGainOld>>

\* WebRtcAecm_InitCore and WebRtcAecm_InitEchoPathCore.
ChannelInit == /\ totCount = 0
               /\ startupState = 0
               /\ farLogEnergy = 0
               /\ farEnergyMin = Unset
               /\ farEnergyMax = Unset
               /\ farEnergyVAD = EnergyMin
               /\ farEnergyMSE = 0
               /\ currentVADValue = FALSE
               /\ vadUpdateCount = 0
               /\ firstVAD = TRUE
               /\ channelStored = InitialGain
               /\ channelAdapt16 = channelStored
               /\ channelAdapt32 = channelStored
               /\ mseChannelCount = 0
               /\ mseAdaptOld = 1000
               /\ mseStoredOld = 1000
               /\ mseThreshold = Unset
               /\ supGain = DefaultSupGain
               /\ supGainOld = supGain

-----------------------------------------------------------------------------
(* WebRtcAecm_CalcEnergies.                                                *)

\* WebRtcAecm_AsymFilt: a level follows the energy e, more slowly one way.
AsymFilt(level, e, up, down) ==
    IF level = Unset THEN e
    ELSE IF level > e THEN level - (level - e) \div down
                      ELSE level + (e - level) \div up

\* The start up states change the filters' speeds, which the instance's Slow
\* and Fast stand for.
MinAfter(e) == AsymFilt(farEnergyMin, e, Slow, Fast)
MaxAfter(e) == AsymFilt(farEnergyMax, e, Fast, Slow)

Halted == startupState' = 0 \/ vadUpdateCount > VadUpdates

\* The lower the level of the far end, the larger the region above it that is
\* not yet speech.
Region(min) == VadRegion + IF min < VadReference
                           THEN ((VadReference - min) * VadRegion) \div RegionScale
                           ELSE 0

VadLevelAfterOvershooting(e) ==
    IF Halted THEN farEnergyMin' - Region(farEnergyMin')
    ELSE IF farEnergyVAD > e
    THEN farEnergyVAD + (e + Region(farEnergyMin') - farEnergyVAD) \div Slow
    ELSE farEnergyVAD

VadLevelAfter(e) ==
    IF Halted THEN farEnergyMin' + Region(farEnergyMin')
    ELSE IF farEnergyVAD > e
    THEN farEnergyVAD + (e + Region(farEnergyMin') - farEnergyVAD) \div Slow
    ELSE farEnergyVAD

UpdateLevels(e) ==
    /\ farEnergyMin' = MinAfter(e)
    /\ farEnergyMax' = MaxAfter(e)
    /\ farEnergyVAD' = VadLevelAfter(e)
    /\ vadUpdateCount' = IF Halted THEN vadUpdateCount
                         ELSE IF farEnergyVAD > e THEN 0 ELSE vadUpdateCount + 1
    /\ farEnergyMSE' = farEnergyVAD' + MseMargin

IsDynamic == \/ startupState' = 0
             \/ farEnergyMin' # Unset /\ farEnergyMax' - farEnergyMin' > EnergyDiff

\* Above the level the value is kept unless the far end is dynamic.
VadAfter(e) == e > farEnergyVAD' /\ (currentVADValue \/ IsDynamic)

CalcEnergies(e) ==
    /\ farLogEnergy' = e
    /\ IF e > EnergyMin
       THEN UpdateLevels(e)
       ELSE UNCHANGED <<farEnergyMin, farEnergyMax, farEnergyVAD, farEnergyMSE,
                        vadUpdateCount>>
    /\ currentVADValue' = VadAfter(e)

-----------------------------------------------------------------------------
(* The channels.                                                           *)

\* The first speech finds the initial channel too aggressive: only the 16-bit
\* channel is scaled down, and the next block is first speech again.
ScalesDown(aggressive) == currentVADValue' /\ firstVAD /\ aggressive

\* NLMS adaption of the bin by delta; a bin without error, or of too little
\* far-end energy, is left alone.
Adapted(delta) == IF channelAdapt32 + delta < 0 THEN 0
                  ELSE IF channelAdapt32 + delta > TopGain THEN TopGain
                  ELSE channelAdapt32 + delta

Updates(delta) == currentVADValue' /\ delta # 0

\* The two precisions of the adaptive channel before a store or a reset.
NewAdapt32(delta) == IF Updates(delta) THEN Adapted(delta) ELSE channelAdapt32
NewAdapt16(delta, aggressive) ==
    IF Updates(delta) THEN Adapted(delta)
    ELSE IF ScalesDown(aggressive) THEN channelAdapt16 \div ScaleDown ELSE channelAdapt16

BelowThreshold(m) == mseThreshold = Unset \/ m < mseThreshold

\* 29 / 32 of one sum is still above the other.
MuchBetter(m, than) == 32 * m < 29 * than

ResetsChannel(stored, adapt) ==
    MuchBetter(stored, adapt) /\ MuchBetter(mseStoredOld, mseAdaptOld)
StoresChannel(stored, adapt) ==
    /\ ~ResetsChannel(stored, adapt)
    /\ MuchBetter(adapt, stored)
    /\ BelowThreshold(adapt) /\ BelowThreshold(mseAdaptOld)

ThresholdAfter(adapt) ==
    IF mseThreshold = Unset THEN adapt + mseAdaptOld
    ELSE mseThreshold + ((adapt - (5 * mseThreshold) \div 8) * 205) \div 256

SetChannels(adapt32, adapt16, stored) ==
    /\ channelAdapt32' = adapt32
    /\ channelAdapt16' = adapt16
    /\ channelStored' = stored

\* During start up the channel is stored with every block of speech.
StoreAtStartup(delta, aggressive) ==
    /\ startupState' = 0 /\ currentVADValue'
    /\ \E a \in {NewAdapt16(delta, aggressive)} : SetChannels(NewAdapt32(delta), a, a)
    /\ UNCHANGED mse

CountAfter == IF farLogEnergy' < farEnergyMSE' THEN 0 ELSE mseChannelCount + 1

\* Otherwise the channels are compared after enough loud blocks in a row.
Wait(delta, aggressive) ==
    /\ ~(startupState' = 0 /\ currentVADValue')
    /\ CountAfter < MseCount
    /\ mseChannelCount' = CountAfter
    /\ SetChannels(NewAdapt32(delta), NewAdapt16(delta, aggressive), channelStored)
    /\ UNCHANGED <<mseAdaptOld, mseStoredOld, mseThreshold>>

Compare(delta, aggressive, stored, adapt) ==
    /\ ~(startupState' = 0 /\ currentVADValue')
    /\ CountAfter >= MseCount
    /\ \E a \in {NewAdapt16(delta, aggressive)} :
          CASE ResetsChannel(stored, adapt) ->
                 SetChannels(channelStored, channelStored, channelStored)
            [] StoresChannel(stored, adapt) -> SetChannels(NewAdapt32(delta), a, a)
            [] OTHER -> SetChannels(NewAdapt32(delta), a, channelStored)
    /\ mseThreshold' = IF StoresChannel(stored, adapt) THEN ThresholdAfter(adapt)
                       ELSE mseThreshold
    /\ mseChannelCount' = 0
    /\ mseStoredOld' = stored
    /\ mseAdaptOld' = adapt

UpdateChannel(delta, aggressive) ==
    \/ StoreAtStartup(delta, aggressive)
    \/ Wait(delta, aggressive)
    \/ \E stored, adapt \in Sums : Compare(delta, aggressive, stored, adapt)

-----------------------------------------------------------------------------
(* WebRtcAecm_CalcSuppressionGain: the gain follows the larger of the last *)
(* two targets; the target is 0 without far-end speech.                    *)

Followed(target) == supGain + (target - supGain) \div GainStep

CalcSuppressionGain(gain) ==
    /\ supGain' = Followed(IF gain > supGainOld THEN gain ELSE supGainOld)
    /\ supGainOld' = gain

\* WebRtcAecm_ProcessBlock.
ProcessBlock ==
    /\ startupState' = CASE startupState = 2 \/ totCount >= 2 * ConvLen -> 2
                         [] totCount >= ConvLen -> 1
                         [] OTHER -> 0
    /\ totCount' = IF totCount < 2 * ConvLen THEN totCount + 1 ELSE totCount
    /\ \E e \in FarEnergies : CalcEnergies(e)
    /\ \E aggressive \in BOOLEAN, delta \in -1..1 :
          /\ firstVAD' = (firstVAD /\ (currentVADValue' => aggressive))
          /\ UpdateChannel(delta, aggressive)
    /\ \E gain \in IF currentVADValue' THEN SupGains ELSE {0} : CalcSuppressionGain(gain)

ChannelSpec == ChannelInit /\ [][ProcessBlock]_cvars

-----------------------------------------------------------------------------
(* The state has its type, and the slowly rising and the slowly falling    *)
(* level never cross, so that the step size never divides by nothing.      *)
LevelsOrdered == farEnergyMin = Unset \/ farEnergyMin =< farEnergyMax

ChannelTypeOK ==
    /\ LevelsOrdered
    /\ {totCount, farLogEnergy, farEnergyMSE, vadUpdateCount, mseChannelCount,
        mseAdaptOld, mseStoredOld, supGain, supGainOld} \subseteq Nat
    /\ startupState \in 0..2
    /\ {farEnergyMin, farEnergyMax, mseThreshold} \subseteq Nat \cup {Unset}
    /\ farEnergyVAD \in Nat
    /\ {currentVADValue, firstVAD} \subseteq BOOLEAN
    /\ {channelAdapt16, channelAdapt32, channelStored} \subseteq 0..TopGain

(* A far end too weak to move the levels is never taken for speech: with   *)
(* it the channels do not adapt.                                           *)
SilenceIsNotSpeech == farLogEnergy =< EnergyMin => ~currentVADValue
=============================================================================
