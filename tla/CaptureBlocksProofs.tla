------------------------ MODULE CaptureBlocksProofs ------------------------
(***************************************************************************)
(* What holds of the work on a block of the capture signal: of the delay   *)
(* control for filter banks, windows, thresholds and block sizes of any    *)
(* size, of the echo remover for adaptive filters, initial states and      *)
(* changes of configuration of any length, and of the two together.        *)
(***************************************************************************)
EXTENDS CaptureBlocks, FiniteSetTheorems, TLAPS

-----------------------------------------------------------------------------
(* Lags and blocks.                                                        *)

\* The lags found reliable are within the histogram, and none of them is so
\* small that the empty history could be taken for one.
LEMMA LagsInRange == Lags \subseteq LagRange /\ (\A l \in Lags : l > 1) /\ 0 \in LagRange
<1> USE DelayControlAssumption
<1>1. ASSUME NEW q \in 0 .. FilterLength - 1, q > Head, q < FilterLength - Tail,
             NEW n \in 0 .. NumFilters - 1
      PROVE  q + n * Shift \in LagRange /\ q + n * Shift > 1
  <2> DEFINE r == NumFilters - 1 - n
  <2>1. r \in Nat /\ n \in Nat /\ NumFilters = n + 1 + r
    BY SMT
  <2> HIDE DEF r
  <2>2. n * Shift \in Nat /\ r * Shift \in Nat
    BY <2>1, SMT
  <2>3. NumFilters * Shift = n * Shift + Shift + r * Shift
    BY <2>1, SMT
  <2> QED
    BY <1>1, <2>2, <2>3, SMT DEF LagRange, MaxLag
<1>2. 0 \in LagRange
  <2>1. NumFilters * Shift \in Nat
    BY SMT
  <2> QED
    BY <2>1, SMT DEF LagRange, MaxLag
<1>3. ASSUME NEW l \in Lags PROVE l \in LagRange /\ l > 1
  <2>1. PICK p \in {q \in 0 .. FilterLength - 1 : q > Head /\ q < FilterLength - Tail},
             n \in 0 .. NumFilters - 1 : l = p + n * Shift
    BY <1>3 DEF Lags
  <2> QED
    BY <1>1, <2>1
<1> QED
  BY <1>2, <1>3

LEMMA BlocksType == ASSUME NEW l \in LagRange PROVE Blocks(l) \in Nat
<1> USE DelayControlAssumption
<1>1. l \in Nat
  BY SMT DEF LagRange
<1>2. l * DownSampling \in Nat
  BY <1>1, SMT
<1> DEFINE x == l * DownSampling - Headroom
<1>3. CASE l * DownSampling < Headroom
  BY <1>3 DEF Blocks
<1>4. CASE ~(l * DownSampling < Headroom)
  <2>1. x \in Nat
    BY <1>2, <1>4, SMT
  <2> HIDE DEF x
  <2>2. x \div BlockSize \in Nat
    BY <2>1, SMT
  <2> QED
    BY <1>4, <2>2 DEF Blocks, x
<1> QED
  BY <1>3, <1>4

-----------------------------------------------------------------------------
(* The histogram.                                                          *)

OccurrencesIn(data, l) == Cardinality({i \in Slots : data[i] = l})

LEMMA OccurrencesType ==
    ASSUME NEW data, NEW l
    PROVE  /\ OccurrencesIn(data, l) \in 0 .. Window
           /\ OccurrencesIn(data, l) > 0 => \E i \in Slots : data[i] = l
<1> DEFINE T == {i \in Slots : data[i] = l}
<1>1. IsFiniteSet(Slots) /\ Cardinality(Slots) = Window
  BY DelayControlAssumption, FS_Interval, SMT DEF Slots
<1>2. /\ IsFiniteSet(T) /\ Cardinality(T) <= Cardinality(Slots)
      /\ Cardinality(T) \in Nat
  <2>1. T \subseteq Slots
    OBVIOUS
  <2> HIDE DEF T
  <2> QED
    BY <1>1, <2>1, FS_Subset, FS_CardinalityType
<1>3. Cardinality(T) > 0 => T # {}
  BY <1>2, FS_EmptySet, SMT
<1>4. Cardinality(T) \in 0 .. Window
  BY <1>1, <1>2, DelayControlAssumption, SMT
<1> QED
  BY <1>3, <1>4 DEF OccurrencesIn

\* Replacing the lag of one slot takes one occurrence from the lag that leaves
\* and gives one to the lag that enters.
LEMMA Replaced ==
    ASSUME NEW data \in [Slots -> LagRange], NEW k \in Slots, NEW in \in LagRange,
           NEW l, NEW new,
           \A i \in Slots : new[i] = IF i = k THEN in ELSE data[i]
    PROVE  OccurrencesIn(new, l)
             = OccurrencesIn(data, l) - (IF data[k] = l THEN 1 ELSE 0)
                                      + (IF in = l THEN 1 ELSE 0)
<1> DEFINE A == {i \in Slots : i # k /\ data[i] = l}
           before == {i \in Slots : data[i] = l}
           after == {i \in Slots : new[i] = l}
<1>1. IsFiniteSet(A) /\ Cardinality(A) \in Nat /\ k \notin A
  <2>1. IsFiniteSet(Slots)
    BY DelayControlAssumption, FS_Interval, SMT DEF Slots
  <2>2. A \subseteq Slots /\ k \notin A
    OBVIOUS
  <2> HIDE DEF A
  <2> QED
    BY <2>1, <2>2, FS_Subset, FS_CardinalityType
<1>2. before = IF data[k] = l THEN A \cup {k} ELSE A
  OBVIOUS
<1>3. after = IF in = l THEN A \cup {k} ELSE A
  OBVIOUS
<1>4. Cardinality(A \cup {k}) = Cardinality(A) + 1
  <2> HIDE DEF A
  <2> QED
    BY <1>1, FS_AddElement
<1>5. Cardinality(before) = Cardinality(A) + (IF data[k] = l THEN 1 ELSE 0)
  <2> HIDE DEF A, before
  <2> QED
    BY <1>1, <1>2, <1>4, SMT
<1>6. Cardinality(after) = Cardinality(A) + (IF in = l THEN 1 ELSE 0)
  <2> HIDE DEF A, after
  <2> QED
    BY <1>1, <1>3, <1>4, SMT
<1>7. OccurrencesIn(data, l) = Cardinality(before)
      /\ OccurrencesIn(new, l) = Cardinality(after)
  BY DEF OccurrencesIn
<1> HIDE DEF A, before, after
<1>8. Cardinality(A) \in Int
  BY <1>1
<1> QED
  BY <1>5, <1>6, <1>7, <1>8, SMT

LEMMA Emptied ==
    ASSUME NEW l
    PROVE  OccurrencesIn(EmptyData, l) = IF l = 0 THEN Window ELSE 0
<1>1. Cardinality(Slots) = Window
  BY DelayControlAssumption, FS_Interval, SMT DEF Slots
<1>2. {i \in Slots : EmptyData[i] = l} = IF l = 0 THEN Slots ELSE {}
  BY DEF EmptyData
<1> QED
  BY <1>1, <1>2, FS_EmptySet DEF OccurrencesIn

LEMMA OccurrencesAre == \A l : Occurrences(l) = OccurrencesIn(histogram_data, l)
BY DEF Occurrences, OccurrencesIn

-----------------------------------------------------------------------------
(* The inductive invariant.                                                *)

SeenLags == Lags \cup {0}

LagType == /\ histogram \in [LagRange -> Int]
           /\ histogram_data \in [Slots -> SeenLags]
           /\ histogram_data_index \in Slots
           /\ significant \in BOOLEAN
           /\ old_lag \in Lags \cup {None}
           /\ consistent \in 0 .. ConsistentBlocks
           /\ delay_samples \in [lag : Lags \cup {None}, quality : Qualities]
           /\ delay \in Nat \cup {None}
           /\ last_quality \in Qualities
           /\ drift \in [history : SeenLags \X SeenLags \X SeenLags,
                         stable : 0 .. StableBlocks + 1, level : Levels]
           /\ reported \in Lags \cup {None, AfterReset}

\* A refined estimate comes from a significant candidate, and while there is an
\* estimate the delay is one that some lag stands for.
Refinement == /\ delay_samples.quality = "refined" => significant
              /\ last_quality = "refined" => significant
              /\ delay_samples.lag # None => last_quality = delay_samples.quality
              /\ delay # None => delay \in {Blocks(l) : l \in Lags}
              /\ reported = AfterReset => delay = None

DelayInv == LagType /\ HistogramMatchesData /\ EstimateIsSupported
        /\ DelayFollowsEstimate /\ Refinement

LEMMA DelayInitInv == Init => DelayInv
<1> SUFFICES ASSUME Init PROVE DelayInv
  OBVIOUS
<1> USE DelayControlAssumption
<1>1. 0 \in LagRange
  BY LagsInRange
<1>2. LagType
  <2>1. 0 \in Slots /\ 0 \in 0 .. ConsistentBlocks /\ 0 \in 0 .. StableBlocks + 1
    BY SMT DEF Slots
  <2>2. /\ histogram \in [LagRange -> Int] /\ histogram_data \in [Slots -> SeenLags]
        /\ histogram_data_index \in Slots
    BY <2>1 DEF Init, EmptyHistogram, EmptyData, SeenLags
  <2>3. drift \in [history : SeenLags \X SeenLags \X SeenLags,
                   stable : 0 .. StableBlocks + 1, level : Levels]
    <3>1. 0 \in SeenLags /\ "none" \in Levels
      BY DEF SeenLags, Levels
    <3> QED
      BY <2>1, <3>1 DEF Init
  <2>4. delay_samples \in [lag : Lags \cup {None}, quality : Qualities]
    BY DEF Init, NoEstimate, Qualities
  <2> QED
    BY <2>1, <2>2, <2>3, <2>4 DEF Init, LagType, Qualities
<1>3. HistogramMatchesData
  <2>1. \A l : Occurrences(l) = IF l = 0 THEN Window ELSE 0
    BY Emptied, OccurrencesAre DEF Init
  <2>2. \A l \in LagRange : histogram[l] = 0
    BY DEF Init, EmptyHistogram
  <2> QED
    BY <2>1, <2>2, SMT DEF HistogramMatchesData
<1>4. EstimateIsSupported /\ DelayFollowsEstimate /\ Refinement
  BY DEF Init, EstimateIsSupported, DelayFollowsEstimate, Refinement, NoEstimate
<1> QED
  BY <1>2, <1>3, <1>4 DEF DelayInv

LEMMA ResetInv == ASSUME DelayInv, NEW hard \in BOOLEAN, Reset(hard) PROVE DelayInv'
<1> USE DelayControlAssumption
<1>1. LagType /\ Refinement
  BY DEF DelayInv
<1>2. LagType'
  <2>1. 0 \in LagRange /\ 0 \in Slots /\ 0 \in 0 .. ConsistentBlocks
    BY LagsInRange, SMT DEF Slots
  <2>2. (significant /\ ~hard) \in BOOLEAN
    OBVIOUS
  <2>3. last_quality' \in Qualities
    BY <1>1 DEF Reset, LagType, Qualities
  <2>4. significant' \in BOOLEAN
    BY <2>2 DEF Reset
  <2> QED
    BY <1>1, <2>1, <2>3, <2>4
    DEF Reset, LagType, EmptyHistogram, EmptyData, SeenLags, NoEstimate, Qualities
<1>3. HistogramMatchesData'
  <2>1. \A l : Occurrences(l)' = IF l = 0 THEN Window ELSE 0
    BY Emptied DEF Occurrences, OccurrencesIn, Reset
  <2>2. \A l \in LagRange : histogram'[l] = 0
    BY DEF Reset, EmptyHistogram
  <2> QED
    BY <2>1, <2>2, SMT DEF HistogramMatchesData
<1>4. (EstimateIsSupported /\ DelayFollowsEstimate /\ Refinement)'
  BY <1>1 DEF Reset, EstimateIsSupported, DelayFollowsEstimate, Refinement, NoEstimate
<1> QED
  BY <1>2, <1>3, <1>4 DEF DelayInv

\* What an estimate, or none, does to the controller.
LEMMA EstimateInv ==
    ASSUME DelayInv,
           NEW e \in [lag : Lags \cup {None}, quality : Qualities],
           Estimate(e),
           significant => significant',
           significant' \in BOOLEAN,
           reported' # AfterReset,
           e.lag # None => (e.quality = "refined" <=> significant')
    PROVE  /\ old_lag' \in {e.lag, None}
           /\ consistent' \in 0 .. ConsistentBlocks
           /\ delay_samples' \in [lag : Lags \cup {None}, quality : Qualities]
           /\ delay' \in Nat \cup {None}
           /\ last_quality' \in Qualities
           /\ drift' \in [history : SeenLags \X SeenLags \X SeenLags,
                          stable : 0 .. StableBlocks + 1, level : Levels]
           /\ DelayFollowsEstimate' /\ Refinement'
           /\ last_quality = "refined" => last_quality' = "refined"
           /\ delay' \in {Blocks(l) : l \in Lags} \cup {delay}
<1> USE DelayControlAssumption
<1>1. LagType /\ DelayFollowsEstimate /\ Refinement
  BY DEF DelayInv
<1>2. old_lag' \in {e.lag, None} /\ consistent' \in 0 .. ConsistentBlocks
  <2> DEFINE count == IF old_lag # None /\ e.lag = old_lag THEN consistent + 1 ELSE 0
  <2>1. count \in Nat
    BY <1>1, SMT DEF LagType
  <2>2. IF count > ConsistentBlocks THEN old_lag' = None /\ consistent' = 0
        ELSE old_lag' = e.lag /\ consistent' = count
    BY DEF Estimate, Consistency
  <2> HIDE DEF count
  <2> QED
    BY <2>1, <2>2, SMT
<1>3. drift' \in [history : SeenLags \X SeenLags \X SeenLags,
                  stable : 0 .. StableBlocks + 1, level : Levels]
  <2>1. CASE drift' = drift
    BY <1>1, <2>1 DEF LagType
  <2>2. CASE drift' = DriftAfter(drift, e.lag) /\ e.lag # None
    <3>1. /\ drift.history \in SeenLags \X SeenLags \X SeenLags
          /\ drift.history[1] \in SeenLags /\ drift.history[2] \in SeenLags
          /\ drift.stable \in 0 .. StableBlocks + 1 /\ drift.level \in Levels
          /\ e.lag \in SeenLags
      BY <1>1, <2>2 DEF LagType, SeenLags
    <3>2. CASE e.lag = drift.history[1]
      <4>1. (IF drift.stable <= StableBlocks THEN drift.stable + 1 ELSE drift.stable)
               \in 0 .. StableBlocks + 1
        BY <3>1, SMT
      <4>2. (IF drift.stable + 1 > StableBlocks THEN "none" ELSE drift.level) \in Levels
        BY <3>1 DEF Levels
      <4> QED
        BY <1>1, <2>2, <3>2, <4>1, <4>2 DEF DriftAfter, LagType
    <3>3. CASE e.lag # drift.history[1]
      <4>1. LevelAfter(drift.history, e.lag, drift.level) \in Levels
        BY <3>1 DEF LevelAfter, Levels
      <4>2. 0 \in 0 .. StableBlocks + 1
        BY SMT
      <4> QED
        BY <2>2, <3>1, <3>3, <4>1, <4>2 DEF DriftAfter
    <3> QED
      BY <3>2, <3>3
  <2> QED
    BY <2>1, <2>2 DEF Estimate
<1> DEFINE current == IF e.lag # None THEN e ELSE delay_samples
           limit == IF UsesHysteresis(current.quality) THEN Hysteresis ELSE 0
<1>4. /\ delay_samples' = current
      /\ current.lag = None => UNCHANGED <<delay, last_quality>>
      /\ current.lag # None => /\ delay' = BufferDelay(delay, limit, current.lag)
                               /\ last_quality' = current.quality
  BY DEF Estimate, FollowEstimate
<1>5. current \in [lag : Lags \cup {None}, quality : Qualities]
  BY <1>1 DEF LagType
<1>6. current.lag # None =>
         /\ current.quality = "refined" => significant'
         /\ last_quality = "refined" => current.quality = "refined"
  <2>1. CASE e.lag # None
    BY <1>1, <2>1 DEF Refinement
  <2>2. CASE e.lag = None
    BY <1>1, <2>2 DEF Refinement
  <2> QED
    BY <2>1, <2>2
<1>7. limit \in Nat /\ limit <= Hysteresis /\ (current.quality = "coarse" => limit = 0)
  BY SMT DEF UsesHysteresis
<1> HIDE DEF current, limit
<1>8. CASE current.lag = None
  <2>1. e.lag = None /\ current = delay_samples
    BY <1>8 DEF current
  <2>2. delay_samples' = delay_samples /\ delay' = delay /\ last_quality' = last_quality
        /\ delay = None
    BY <1>1, <1>4, <1>8, <2>1 DEF DelayFollowsEstimate
  <2>3. DelayFollowsEstimate' /\ Refinement'
    BY <1>1, <1>8, <2>1, <2>2 DEF DelayFollowsEstimate, Refinement
  <2> QED
    BY <1>1, <1>2, <1>3, <2>2, <2>3 DEF LagType
<1>9. CASE current.lag # None
  <2>1. current.lag \in Lags /\ current.lag \in LagRange /\ Blocks(current.lag) \in Nat
    BY <1>5, <1>9, LagsInRange, BlocksType
  <2> DEFINE n == Blocks(current.lag)
  <2>2. delay' = IF delay # None /\ n > delay /\ n <= delay + limit THEN delay ELSE n
    BY <1>4, <1>9 DEF BufferDelay
  <2>3. delay \in Nat \cup {None} /\ n \in Nat /\ n \in {Blocks(l) : l \in Lags}
    BY <1>1, <2>1 DEF LagType
  <2>4. delay # None => delay \in {Blocks(l) : l \in Lags}
    BY <1>1 DEF Refinement
  <2> HIDE DEF n
  <2>5. /\ delay' \in Nat /\ delay' # None /\ delay' <= n /\ n <= delay' + Hysteresis
        /\ limit = 0 => delay' = n
    BY <1>7, <2>2, <2>3, SMT DEF None
  <2>6. delay' \in {Blocks(l) : l \in Lags}
    BY <2>2, <2>3, <2>4
  <2>7. DelayFollowsEstimate'
    BY <1>4, <1>7, <1>9, <2>5 DEF DelayFollowsEstimate, n
  <2>8. Refinement'
    BY <1>4, <1>6, <1>9, <2>6 DEF Refinement
  <2>9. last_quality' \in Qualities
    BY <1>4, <1>5, <1>9
  <2> QED
    BY <1>2, <1>3, <1>4, <1>5, <1>6, <1>9, <2>5, <2>6, <2>7, <2>8, <2>9
<1> QED
  BY <1>8, <1>9

\* The reported lag enters the histogram, and what becomes the estimate is the
\* most frequent lag of the window.
LEMMA CollectInv ==
    ASSUME DelayInv, NEW lag \in Lags,
           histogram' = Counted(histogram, histogram_data[histogram_data_index], lag),
           histogram_data' = [histogram_data EXCEPT ![histogram_data_index] = lag]
    PROVE  /\ histogram' \in [LagRange -> Int]
           /\ histogram_data' \in [Slots -> SeenLags]
           /\ HistogramMatchesData'
           /\ histogram'[lag] > 0
<1> DEFINE out == histogram_data[histogram_data_index]
<1>1. LagType /\ HistogramMatchesData
  BY DEF DelayInv
<1>2. /\ histogram \in [LagRange -> Int] /\ histogram_data \in [Slots -> SeenLags]
      /\ histogram_data_index \in Slots /\ SeenLags \subseteq LagRange
      /\ out \in LagRange /\ lag \in LagRange /\ lag \in SeenLags /\ lag # 0
  <2>1. SeenLags \subseteq LagRange /\ lag > 1
    BY LagsInRange DEF SeenLags
  <2>2. lag # 0
    BY <2>1, LagsInRange, SMT DEF LagRange
  <2> QED
    BY <1>1, <2>1, <2>2 DEF LagType, SeenLags
<1>3. histogram_data' \in [Slots -> SeenLags] /\ histogram_data \in [Slots -> LagRange]
  BY <1>2
<1>4. \A l \in LagRange :
          Occurrences(l)' = Occurrences(l) - (IF out = l THEN 1 ELSE 0)
                                           + (IF lag = l THEN 1 ELSE 0)
  <2> SUFFICES ASSUME NEW l \in LagRange
               PROVE  Occurrences(l)' = Occurrences(l) - (IF out = l THEN 1 ELSE 0)
                                                       + (IF lag = l THEN 1 ELSE 0)
    OBVIOUS
  <2>1. OccurrencesIn(histogram_data', l)
          = OccurrencesIn(histogram_data, l)
              - (IF histogram_data[histogram_data_index] = l THEN 1 ELSE 0)
              + (IF lag = l THEN 1 ELSE 0)
    <3>1. /\ histogram_data \in [Slots -> LagRange]
          /\ histogram_data_index \in Slots /\ lag \in LagRange
      BY <1>2, <1>3
    <3>2. \A i \in Slots : histogram_data'[i] = IF i = histogram_data_index THEN lag
                                                ELSE histogram_data[i]
      BY <3>1
    <3> HIDE DEF out
    <3> QED
      BY ONLY <3>1, <3>2, Replaced, SMT
  <2> QED
    BY <2>1 DEF Occurrences, OccurrencesIn
<1> HIDE DEF out
<1>5. /\ histogram' \in [LagRange -> Int]
      /\ \A l \in LagRange :
            histogram'[l] = histogram[l] - (IF out = l THEN 1 ELSE 0)
                                         + (IF lag = l THEN 1 ELSE 0)
  BY <1>2, SMT DEF Counted, out
<1>6. \A l \in LagRange : Occurrences(l) \in Int /\ Occurrences(l)' \in 0 .. Window
  <2>1. \A l : Occurrences(l) \in 0 .. Window
    BY OccurrencesType, OccurrencesAre
  <2>2. \A l : Occurrences(l)' \in 0 .. Window
    <3>1. \A l : Occurrences(l)' = OccurrencesIn(histogram_data', l)
      BY DEF Occurrences, OccurrencesIn
    <3> QED
      BY <3>1, OccurrencesType
  <2> QED
    BY <2>1, <2>2, DelayControlAssumption, SMT
<1>7. HistogramMatchesData'
  <2> SUFFICES ASSUME NEW l \in LagRange
               PROVE  histogram'[l] = Occurrences(l)' - (IF l = 0 THEN Window ELSE 0)
    BY DEF HistogramMatchesData
  <2>1. histogram[l] = Occurrences(l) - (IF l = 0 THEN Window ELSE 0)
    BY <1>1 DEF HistogramMatchesData
  <2>2. /\ Occurrences(l)' = Occurrences(l) - (IF out = l THEN 1 ELSE 0)
                                            + (IF lag = l THEN 1 ELSE 0)
        /\ histogram'[l] = histogram[l] - (IF out = l THEN 1 ELSE 0)
                                        + (IF lag = l THEN 1 ELSE 0)
        /\ Occurrences(l) \in Int /\ Window \in Nat
    BY <1>4, <1>5, <1>6, DelayControlAssumption
  <2> QED
    BY <2>1, <2>2, SMT
<1>8. histogram'[lag] > 0
  <2>1. histogram_data'[histogram_data_index] = lag
    BY <1>2
  <2>2. Occurrences(lag)' > 0
    <3> DEFINE T == {i \in Slots : histogram_data'[i] = lag}
    <3>1. histogram_data_index \in T /\ T \subseteq Slots
      BY <1>2, <2>1
    <3>2. IsFiniteSet(Slots)
      BY DelayControlAssumption, FS_Interval, SMT DEF Slots
    <3>3. Occurrences(lag)' = Cardinality(T)
      BY DEF Occurrences
    <3> HIDE DEF T
    <3>4. IsFiniteSet(T) /\ Cardinality(T) \in Nat
      BY <3>1, <3>2, FS_Subset, FS_CardinalityType
    <3>5. Cardinality(T) # 0
      BY <3>1, <3>4, FS_EmptySet
    <3> QED
      BY <3>3, <3>4, <3>5, SMT
  <2>3. histogram'[lag] = Occurrences(lag)'
    <3>1. histogram'[lag] = Occurrences(lag)' - 0
      BY <1>2, <1>7 DEF HistogramMatchesData
    <3> QED
      BY <1>2, <1>6, <3>1, SMT
  <2> QED
    BY <2>2, <2>3
<1> QED
  BY <1>3, <1>5, <1>7, <1>8

\* A most frequent lag was reported: it is not the 0 of the empty slots.
LEMMA CandidateInv ==
    ASSUME NEW lag \in Lags, NEW candidate \in LagRange,
           histogram' \in [LagRange -> Int],
           histogram_data' \in [Slots -> SeenLags],
           HistogramMatchesData',
           histogram'[lag] > 0,
           IsCandidate(histogram', candidate)
    PROVE  /\ candidate \in Lags
           /\ histogram'[candidate] \in Int
           /\ histogram'[candidate] = Occurrences(candidate)'
           /\ \A l \in Lags : Occurrences(l)' <= Occurrences(candidate)'
<1>1. /\ lag \in LagRange /\ Window \in Nat /\ 0 \in LagRange
      /\ \A l \in Lags : l \in LagRange /\ l # 0
  <2>1. \A l \in Lags : l \in LagRange /\ l > 1
    BY LagsInRange
  <2>2. \A l \in LagRange : l > 1 => l # 0
    BY SMT DEF LagRange
  <2> QED
    BY <2>1, <2>2, LagsInRange, DelayControlAssumption
<1>2. histogram'[lag] <= histogram'[candidate]
  BY <1>1 DEF IsCandidate
<1>3. /\ histogram'[candidate] \in Int /\ histogram'[lag] \in Int
      /\ histogram'[candidate] > 0
  <2>1. histogram'[candidate] \in Int /\ histogram'[lag] \in Int
    BY <1>1
  <2> QED
    BY <1>2, <2>1, SMT
<1>4. \A l \in LagRange : Occurrences(l)' \in 0 .. Window
  BY OccurrencesType DEF Occurrences, OccurrencesIn
<1>5. \A l \in LagRange : histogram'[l] = Occurrences(l)' - (IF l = 0 THEN Window ELSE 0)
  BY DEF HistogramMatchesData
<1>6. candidate # 0
  <2> SUFFICES ASSUME candidate = 0 PROVE FALSE
    OBVIOUS
  <2>1. histogram'[candidate] = Occurrences(candidate)' - Window
    BY <1>5
  <2>2. Occurrences(candidate)' \in 0 .. Window
    BY <1>4
  <2> QED
    BY <1>1, <1>3, <2>1, <2>2, SMT
<1>7. \A l \in LagRange : l # 0 => histogram'[l] = Occurrences(l)'
  <2> SUFFICES ASSUME NEW l \in LagRange, l # 0 PROVE histogram'[l] = Occurrences(l)'
    OBVIOUS
  <2>1. histogram'[l] = Occurrences(l)' - 0 /\ Occurrences(l)' \in 0 .. Window
    BY <1>4, <1>5
  <2> QED
    BY <1>1, <2>1, SMT
<1>8. candidate \in Lags
  <2>1. OccurrencesIn(histogram_data', candidate) > 0
    BY <1>3, <1>6, <1>7 DEF Occurrences, OccurrencesIn
  <2>2. PICK i \in Slots : histogram_data'[i] = candidate
    BY <2>1, OccurrencesType
  <2> QED
    BY <1>6, <2>2 DEF SeenLags
<1>9. \A l \in Lags : histogram'[l] <= histogram'[candidate]
  BY <1>1 DEF IsCandidate
<1> QED
  BY <1>1, <1>3, <1>6, <1>7, <1>8, <1>9

LEMMA GetDelayInv ==
    ASSUME DelayInv, NEW lag \in Lags, GetDelay(lag)
    PROVE  /\ DelayInv'
           /\ last_quality = "refined" => last_quality' = "refined"
           /\ delay' \in {Blocks(l) : l \in Lags} \cup {delay}
           /\ reported' # AfterReset
           /\ drift' # drift => \E l \in Lags : drift' = DriftAfter(drift, l)
<1> USE DelayControlAssumption
<1>1. LagType
  BY DEF DelayInv
<1>2. /\ histogram' = Counted(histogram, histogram_data[histogram_data_index], lag)
      /\ histogram_data' = [histogram_data EXCEPT ![histogram_data_index] = lag]
      /\ histogram_data_index' = NextIndex(histogram_data_index)
      /\ reported' = lag
  BY DEF GetDelay
<1>3. PICK candidate \in LagRange :
          /\ IsCandidate(histogram', candidate)
          /\ significant' = Significant(histogram'[candidate], significant)
          /\ Estimate(Aggregated(candidate, histogram'[candidate], significant'))
  BY DEF GetDelay
<1>4. /\ histogram' \in [LagRange -> Int]
      /\ histogram_data' \in [Slots -> SeenLags]
      /\ HistogramMatchesData'
      /\ histogram'[lag] > 0
  BY <1>2, CollectInv
<1>5. /\ candidate \in Lags /\ histogram'[candidate] \in Int
      /\ histogram'[candidate] = Occurrences(candidate)'
      /\ \A l \in Lags : Occurrences(l)' <= Occurrences(candidate)'
  BY <1>3, <1>4, CandidateInv
<1>6. histogram_data_index' \in Slots
  <2>1. histogram_data_index \in Slots
    BY <1>1 DEF LagType
  <2> QED
    BY <1>2, <2>1, SMT DEF NextIndex, Slots
<1>7. significant' \in BOOLEAN /\ (significant => significant')
  <2>1. significant \in BOOLEAN
    BY <1>1 DEF LagType
  <2>2. significant' = (significant \/ histogram'[candidate] > Converged)
    BY <1>3 DEF Significant
  <2> QED
    BY <2>1, <2>2, Zenon
<1> DEFINE e == Aggregated(candidate, histogram'[candidate], significant')
<1>8. /\ e \in [lag : Lags \cup {None}, quality : Qualities]
      /\ e.lag # None => /\ e.lag = candidate
                         /\ e.quality = "refined" <=> significant'
                         /\ \/ histogram'[candidate] > Converged
                            \/ histogram'[candidate] > Initial /\ ~significant'
  <2>1. CASE histogram'[candidate] > Converged
             \/ (histogram'[candidate] > Initial /\ ~significant')
    BY <1>5, <2>1 DEF Aggregated, Qualities
  <2>2. CASE ~(histogram'[candidate] > Converged
               \/ (histogram'[candidate] > Initial /\ ~significant'))
    BY <2>2 DEF Aggregated, NoEstimate, Qualities
  <2> QED
    BY <2>1, <2>2
<1>9. reported' # AfterReset
  <2>1. lag \in Nat
    BY LagsInRange, SMT DEF LagRange
  <2> QED
    BY <1>2, <2>1, SMT DEF AfterReset
<1>10. Estimate(e)
  BY <1>3
<1> HIDE DEF e
<1>11. /\ old_lag' \in {e.lag, None}
       /\ consistent' \in 0 .. ConsistentBlocks
       /\ delay_samples' \in [lag : Lags \cup {None}, quality : Qualities]
       /\ delay' \in Nat \cup {None}
       /\ last_quality' \in Qualities
       /\ drift' \in [history : SeenLags \X SeenLags \X SeenLags,
                      stable : 0 .. StableBlocks + 1, level : Levels]
       /\ DelayFollowsEstimate' /\ Refinement'
       /\ last_quality = "refined" => last_quality' = "refined"
       /\ delay' \in {Blocks(l) : l \in Lags} \cup {delay}
  BY <1>7, <1>8, <1>9, <1>10, EstimateInv
<1>12. EstimateIsSupported'
  <2> SUFFICES ASSUME old_lag' # None
               PROVE  /\ Occurrences(old_lag)' > IF significant' THEN Converged ELSE Initial
                      /\ \A l \in Lags : Occurrences(l)' <= Occurrences(old_lag)'
    BY DEF EstimateIsSupported
  <2>1. old_lag' = candidate /\ e.lag # None
    BY <1>8, <1>11
  <2>2. Occurrences(old_lag)' = Occurrences(candidate)'
    BY <2>1 DEF Occurrences
  <2>3. histogram'[candidate] > Converged
        \/ (histogram'[candidate] > Initial /\ ~significant')
    BY <1>8, <2>1
  <2>4. histogram'[candidate] > Converged => histogram'[candidate] > Initial
    BY <1>5, SMT
  <2> QED
    BY <1>5, <2>2, <2>3, <2>4
<1>13. LagType'
  <2>1. old_lag' \in Lags \cup {None}
    BY <1>5, <1>8, <1>11
  <2> QED
    BY <1>2, <1>4, <1>6, <1>7, <1>11, <2>1 DEF LagType
<1>14. drift' # drift => \E l \in Lags : drift' = DriftAfter(drift, l)
  BY <1>5, <1>8, <1>10 DEF Estimate
<1> QED
  BY <1>4, <1>9, <1>11, <1>12, <1>13, <1>14 DEF DelayInv

LEMMA NoLagInv ==
    ASSUME DelayInv, GetDelayNoLag
    PROVE  /\ DelayInv'
           /\ last_quality = "refined" => last_quality' = "refined"
           /\ delay' \in {Blocks(l) : l \in Lags} \cup {delay}
           /\ reported' # AfterReset
<1>1. LagType /\ HistogramMatchesData
  BY DEF DelayInv
<1>2. /\ UNCHANGED <<histogram, histogram_data, histogram_data_index, significant>>
      /\ reported' = None
      /\ Estimate(NoEstimate)
  BY DEF GetDelayNoLag, aggregator
<1>3. /\ NoEstimate \in [lag : Lags \cup {None}, quality : Qualities]
      /\ NoEstimate.lag = None
  BY DEF NoEstimate, Qualities
<1>4. reported' # AfterReset
  BY <1>2, SMT DEF None, AfterReset
<1>5. significant' \in BOOLEAN /\ (significant => significant')
  BY <1>1, <1>2 DEF LagType
<1>6. /\ old_lag' \in {None}
      /\ consistent' \in 0 .. ConsistentBlocks
      /\ delay_samples' \in [lag : Lags \cup {None}, quality : Qualities]
      /\ delay' \in Nat \cup {None}
      /\ last_quality' \in Qualities
      /\ drift' \in [history : SeenLags \X SeenLags \X SeenLags,
                     stable : 0 .. StableBlocks + 1, level : Levels]
      /\ DelayFollowsEstimate' /\ Refinement'
      /\ last_quality = "refined" => last_quality' = "refined"
      /\ delay' \in {Blocks(l) : l \in Lags} \cup {delay}
  BY <1>2, <1>3, <1>4, <1>5, EstimateInv
<1>7. HistogramMatchesData'
  BY <1>1, <1>2 DEF HistogramMatchesData, Occurrences
<1>8. EstimateIsSupported'
  BY <1>6 DEF EstimateIsSupported
<1>9. LagType'
  BY <1>1, <1>2, <1>6 DEF LagType
<1> QED
  BY <1>4, <1>6, <1>7, <1>8, <1>9 DEF DelayInv
-----------------------------------------------------------------------------
(* Theorems.                                                               *)

LEMMA DelayNextInv == DelayInv /\ [Next]_vars => DelayInv'
<1> SUFFICES ASSUME DelayInv, [Next]_vars PROVE DelayInv'
  OBVIOUS
<1>1. CASE UNCHANGED vars
  BY <1>1 DEF DelayInv, LagType, HistogramMatchesData, EstimateIsSupported, Occurrences,
              DelayFollowsEstimate, Refinement, vars, aggregator
<1>2. ASSUME NEW lag \in Lags, GetDelay(lag) PROVE DelayInv'
  BY <1>2, GetDelayInv
<1>3. CASE GetDelayNoLag
  BY <1>3, NoLagInv
<1>4. ASSUME NEW hard \in BOOLEAN, Reset(hard) PROVE DelayInv'
  BY <1>4, ResetInv
<1> QED
  BY <1>1, <1>2, <1>3, <1>4 DEF Next, CaptureBlock

THEOREM DelayInvariant == Spec => []DelayInv
BY DelayInitInv, DelayNextInv, PTL DEF Spec

\* Every part of the delay control keeps its range for any bank of filters; the
\* candidate never leaves the histogram.
THEOREM DelayTypeCorrect == Spec => []TypeOK
<1>1. DelayInv => TypeOK
  <2> SUFFICES ASSUME DelayInv PROVE TypeOK
    OBVIOUS
  <2>1. LagType /\ Lags \subseteq LagRange /\ SeenLags \subseteq LagRange
    BY LagsInRange DEF DelayInv, SeenLags
  <2>2. /\ drift.history \in LagRange \X LagRange \X LagRange
        /\ drift.stable \in 0 .. StableBlocks + 1 /\ drift.level \in Levels
    BY <2>1 DEF LagType
  <2>3. DOMAIN drift.history = 1 .. 3 /\ \A i \in 1 .. 3 : drift.history[i] \in LagRange
    BY <2>2, SMT
  <2> QED
    BY <2>1, <2>2, <2>3 DEF LagType, TypeOK
<1> QED
  BY <1>1, DelayInvariant, PTL

\* The histogram counts the window for every window and every range of lags.
THEOREM HistogramExact == Spec => []HistogramMatchesData
<1>1. DelayInv => HistogramMatchesData
  BY DEF DelayInv
<1> QED
  BY <1>1, DelayInvariant, PTL

\* No estimate without more lags than its threshold, and none that another lag
\* of the window outnumbers.
THEOREM EstimateSupported == Spec => []EstimateIsSupported
<1>1. DelayInv => EstimateIsSupported
  BY DEF DelayInv
<1> QED
  BY <1>1, DelayInvariant, PTL

\* The delay is the estimate's, or short of it by at most the hysteresis.
THEOREM DelayFollows == Spec => []DelayFollowsEstimate
<1>1. DelayInv => DelayFollowsEstimate
  BY DEF DelayInv
<1> QED
  BY <1>1, DelayInvariant, PTL

\* Only a hard reset takes the confidence in the estimates away.
THEOREM RefinedStays == Spec => StaysRefined
<1>1. DelayInv /\ [Next]_vars => [last_quality = "refined" /\ last_quality' = "coarse"
                              => ~significant' /\ delay' = None]_vars
  <2> SUFFICES ASSUME DelayInv, Next, last_quality = "refined", last_quality' = "coarse"
               PROVE  ~significant' /\ delay' = None
    OBVIOUS
  <2>1. ASSUME NEW lag \in Lags, GetDelay(lag) PROVE FALSE
    BY <2>1, GetDelayInv
  <2>2. CASE GetDelayNoLag
    BY <2>2, NoLagInv
  <2>3. ASSUME NEW hard \in BOOLEAN, Reset(hard) PROVE ~significant' /\ delay' = None
    BY <2>3 DEF Reset
  <2> QED
    BY <2>1, <2>2, <2>3 DEF Next, CaptureBlock
<1> QED
  BY <1>1, DelayInvariant, PTL DEF Spec, StaysRefined

\* Clock drift is deduced from lags the filters have reported, because no lag is
\* so small that the zeros of an empty history could be taken for its neighbours.
LEMMA DriftSeen ==
    ASSUME LagType, NEW e \in Lags, NEW d, d = DriftAfter(drift, e),
           d.level # drift.level, d.level # "none"
    PROVE  /\ \A i \in 1 .. 3 : d.history[i] \in Lags
           /\ d.level = "verified" => drift.history[3] \in Lags
<1> DEFINE h == drift.history
<1>1. /\ h \in SeenLags \X SeenLags \X SeenLags
      /\ h[1] \in SeenLags /\ h[2] \in SeenLags /\ h[3] \in SeenLags
      /\ drift \in [history : SeenLags \X SeenLags \X SeenLags,
                    stable : 0 .. StableBlocks + 1, level : Levels]
  BY DEF LagType
<1>2. /\ \A l \in Lags : l \in Nat /\ l > 1
  BY LagsInRange, SMT DEF LagRange
<1>3. e # h[1]
  <2> SUFFICES ASSUME e = h[1] PROVE FALSE
    OBVIOUS
  <2>1. d.level = "none" \/ d.level = drift.level
    BY <1>1 DEF DriftAfter
  <2> QED
    BY <2>1
<1>4. d.history = <<e, h[1], h[2]>> /\ d.level = LevelAfter(h, e, drift.level)
  BY <1>3 DEF DriftAfter
<1>5. /\ ProbableDrift(h, e, 1) \/ ProbableDrift(h, e, -1)
      /\ d.level = "verified" => Drift(h, e, 1) \/ Drift(h, e, -1)
  BY <1>4 DEF LevelAfter, Drift
<1> DEFINE a == h[1]
           b == h[2]
           c == h[3]
<1>6. /\ \/ (a - e = -1 /\ b - e = -2) \/ (a - e = -2 /\ b - e = -1)
         \/ (a - e = 1 /\ b - e = 2) \/ (a - e = 2 /\ b - e = 1)
      /\ d.level = "verified" => \/ c - e = 3
                                 \/ c - e = -3 /\ \/ a - e = -1 /\ b - e = -2
                                                  \/ a - e = -2 /\ b - e = -1
  BY <1>5, SMT DEF ProbableDrift, Drift
<1>7. a \in SeenLags /\ b \in SeenLags /\ c \in SeenLags /\ d.history = <<e, a, b>>
  BY <1>1, <1>4
<1> HIDE DEF a, b, c, h
<1>8. a \in Nat /\ b \in Nat /\ c \in Nat /\ e \in Nat /\ e > 1
      /\ (a \in Lags \/ a = 0) /\ (b \in Lags \/ b = 0) /\ (c \in Lags \/ c = 0)
  BY <1>2, <1>7 DEF SeenLags
<1>9. (a \in Lags => a > 1) /\ (b \in Lags => b > 1)
  BY <1>2
<1>10. a \in Lags /\ b \in Lags /\ (d.level = "verified" => c # 0)
  <2>1. \/ (a - e = -1 /\ b - e = -2) \/ (a - e = -2 /\ b - e = -1)
        \/ (a - e = 1 /\ b - e = 2) \/ (a - e = 2 /\ b - e = 1)
    BY <1>6
  <2>2. a # 0 /\ b # 0
    <3>1. (a > 1 \/ a = 0) /\ (b > 1 \/ b = 0)
      BY <1>8, <1>9
    <3> QED
      BY <1>8, <2>1, <3>1, SMT
  <2>3. a > 1 /\ b > 1
    BY <1>8, <1>9, <2>2
  <2>4. \/ c - e = 3
        \/ c - e = -3 /\ \/ a - e = -1 /\ b - e = -2
                         \/ a - e = -2 /\ b - e = -1
        => c # 0
    BY <1>8, <2>3, SMT
  <2> QED
    BY <1>6, <1>8, <2>2, <2>4
<1> QED
  BY <1>7, <1>8, <1>10 DEF c, h

THEOREM DriftSeenOnly == Spec => DriftFromEstimates
<1> DEFINE Seen == drift'.level # drift.level /\ drift'.level # "none"
                     => /\ \A i \in 1 .. 3 : drift'.history[i] \in Lags
                        /\ drift'.level = "verified" => drift.history[3] \in Lags
<1>1. DelayInv /\ [Next]_vars => [Seen]_vars
  <2> SUFFICES ASSUME DelayInv, Next PROVE Seen
    OBVIOUS
  <2>1. ASSUME NEW lag \in Lags, GetDelay(lag) PROVE Seen
    <3>1. CASE drift' = drift
      BY <3>1
    <3>2. CASE drift' # drift
      <4>1. PICK e \in Lags : drift' = DriftAfter(drift, e)
        BY <2>1, <3>2, GetDelayInv
      <4> QED
        BY <4>1, DriftSeen DEF DelayInv
    <3> QED
      BY <3>1, <3>2
  <2>2. CASE GetDelayNoLag
    <3>1. drift' = drift
      BY <2>2 DEF GetDelayNoLag, Estimate, NoEstimate
    <3> QED
      BY <3>1
  <2>3. ASSUME NEW hard \in BOOLEAN, Reset(hard) PROVE Seen
    BY <2>3 DEF Reset
  <2> QED
    BY <2>1, <2>2, <2>3 DEF Next, CaptureBlock
<1> QED
  BY <1>1, DelayInvariant, PTL DEF Spec, DriftFromEstimates

-----------------------------------------------------------------------------
(* What a lag that goes on being reported does: all of SteadyLagIsFound    *)
(* but that capture blocks keep coming.                                    *)

\* The slot of the lag reported k lags ago, and whether the last n were all l.
SlotBefore(k) == IF k <= histogram_data_index THEN histogram_data_index - k
                 ELSE histogram_data_index + Window - k
InARow(l, n) == \A k \in 1 .. n : histogram_data[SlotBefore(k)] = l
MostOf(n) == n > Converged /\ 2 * n > Window

\* Each report of the same lag makes the row of them longer, and from a row on
\* that is most of the window and longer than the threshold the lag is the
\* estimate, refined, whatever was estimated before; a drift is then recognized
\* as over after as many reports more as stability takes.
SteadyLagDecides ==
    [][\A l \in Lags : reported' = l =>
         /\ \A n \in 0 .. Window - 1 : InARow(l, n) => InARow(l, n + 1)'
         /\ \A n \in 0 .. Window : InARow(l, n)' /\ MostOf(n)
              => /\ delay_samples' = [lag |-> l, quality |-> "refined"]
                 /\ drift'.history[1] = l
                 /\ drift.history[1] = l =>
                      /\ drift'.stable > StableBlocks \/ drift'.stable = drift.stable + 1
                      /\ drift.stable >= StableBlocks => drift'.level = "none"]_vars

\* The row grows by the slot just written: the ones before it move one back.
LEMMA RowGrows ==
    ASSUME DelayInv, NEW l \in Lags, GetDelay(l), NEW n \in 0 .. Window - 1, InARow(l, n)
    PROVE  InARow(l, n + 1)'
<1> USE DelayControlAssumption
<1>1. /\ histogram_data \in [Slots -> SeenLags]
      /\ histogram_data_index \in 0 .. Window - 1
  BY DEF DelayInv, LagType, Slots
<1>2. histogram_data' = [histogram_data EXCEPT ![histogram_data_index] = l]
  BY DEF GetDelay
<1>3. histogram_data_index' = IF histogram_data_index = Window - 1 THEN 0
                              ELSE histogram_data_index + 1
  <2>1. histogram_data_index' = (histogram_data_index + 1) % Window
    BY DEF GetDelay, NextIndex
  <2> QED
    BY <1>1, <2>1, SMT
<1>4. ASSUME NEW k \in 1 .. n + 1 PROVE histogram_data'[SlotBefore(k)'] = l
  <2>1. CASE k = 1
    <3>1. SlotBefore(k)' = histogram_data_index
      BY <1>1, <1>3, <2>1, SMT DEF SlotBefore
    <3> QED
      BY <1>1, <1>2, <3>1 DEF Slots
  <2>2. CASE k # 1
    <3>1. k - 1 \in 1 .. n
      BY <2>2, SMT
    <3>2. /\ SlotBefore(k)' = SlotBefore(k - 1)
          /\ SlotBefore(k - 1) \in 0 .. Window - 1
          /\ SlotBefore(k - 1) # histogram_data_index
      BY <1>1, <1>3, <3>1, SMT DEF SlotBefore
    <3>3. histogram_data[SlotBefore(k - 1)] = l
      BY <3>1 DEF InARow
    <3> QED
      BY <1>1, <1>2, <3>2, <3>3 DEF Slots
  <2> QED
    BY <2>1, <2>2
<1> QED
  BY <1>4 DEF InARow

\* A row of n lags takes n slots of the window.
LEMMA RowOccurs ==
    ASSUME NEW data, NEW l, NEW index \in Slots, NEW n \in 0 .. Window, NEW Before,
           Before = [k \in 1 .. n |-> IF k <= index THEN index - k ELSE index + Window - k],
           \A k \in 1 .. n : data[Before[k]] = l
    PROVE  OccurrencesIn(data, l) >= n
<1> USE DelayControlAssumption
<1> DEFINE T == {i \in Slots : data[i] = l}
<1>1. IsFiniteSet(T) /\ Cardinality(T) \in Nat
  <2>1. IsFiniteSet(Slots)
    BY FS_Interval, SMT DEF Slots
  <2>2. T \subseteq Slots
    OBVIOUS
  <2> HIDE DEF T
  <2> QED
    BY <2>1, <2>2, FS_Subset, FS_CardinalityType
<1>2. \A k \in 1 .. n : Before[k] \in Slots
  BY SMT DEF Slots
<1>3. Before \in [1 .. n -> T]
  BY <1>2
<1>4. \A j, k \in 1 .. n : Before[j] = Before[k] => j = k
  BY SMT DEF Slots
<1>5. Before \in Injection(1 .. n, T)
  BY <1>3, <1>4 DEF Injection, IsInjective
<1> HIDE DEF T
<1>6. Cardinality(1 .. n) <= Cardinality(T)
  BY <1>1, <1>5, FS_Injection
<1>7. Cardinality(1 .. n) = n
  BY FS_Interval, SMT
<1> QED
  BY <1>1, <1>6, <1>7 DEF OccurrencesIn, T

\* Two lags share the window.
LEMMA WindowShared ==
    ASSUME NEW data, NEW l, NEW m, l # m
    PROVE  OccurrencesIn(data, l) + OccurrencesIn(data, m) <= Window
<1> USE DelayControlAssumption
<1> DEFINE A == {i \in Slots : data[i] = l}
           B == {i \in Slots : data[i] = m}
<1>1. IsFiniteSet(Slots) /\ Cardinality(Slots) = Window
  BY FS_Interval, SMT DEF Slots
<1>2. A \subseteq Slots /\ B \subseteq Slots \ A
  OBVIOUS
<1> HIDE DEF A, B
<1>3. IsFiniteSet(A) /\ IsFiniteSet(Slots \ A)
      /\ Cardinality(B) <= Cardinality(Slots \ A)
  BY <1>1, <1>2, FS_Subset
<1>4. Cardinality(Slots \ A) = Cardinality(Slots) - Cardinality(A)
  <2>1. Slots \cap A = A
    BY <1>2
  <2> QED
    BY <1>1, <1>3, <2>1, FS_Difference
<1>5. Cardinality(A) \in Nat /\ Cardinality(B) \in Nat
  BY <1>1, <1>2, FS_Subset, FS_CardinalityType
<1> QED
  BY <1>1, <1>3, <1>4, <1>5, SMT DEF OccurrencesIn, A, B

\* A lag that fills most of the window is the estimate.
LEMMA MajorityDecides ==
    ASSUME DelayInv, NEW l \in Lags, GetDelay(l), NEW n \in 0 .. Window, InARow(l, n)',
           MostOf(n)
    PROVE  /\ delay_samples' = [lag |-> l, quality |-> "refined"]
           /\ drift' = DriftAfter(drift, l)
<1> USE DelayControlAssumption
<1>1. PICK candidate \in LagRange :
          /\ IsCandidate(histogram', candidate)
          /\ significant' = Significant(histogram'[candidate], significant)
          /\ Estimate(Aggregated(candidate, histogram'[candidate], significant'))
  BY DEF GetDelay
<1>2. DelayInv'
  BY GetDelayInv
<1>3. Occurrences(l)' >= n
  <2> DEFINE Before == [k \in 1 .. n |-> IF k <= histogram_data_index'
                                         THEN histogram_data_index' - k
                                         ELSE histogram_data_index' + Window - k]
  <2>1. histogram_data_index' \in Slots
    BY <1>2 DEF DelayInv, LagType
  <2>2. \A k \in 1 .. n : histogram_data'[Before[k]] = l
    BY DEF InARow, SlotBefore
  <2>3. OccurrencesIn(histogram_data', l) >= n
    <3> HIDE DEF Before
    <3>1. Before = [k \in 1 .. n |-> IF k <= histogram_data_index'
                                     THEN histogram_data_index' - k
                                     ELSE histogram_data_index' + Window - k]
      BY DEF Before
    <3> QED
      BY <2>1, <2>2, <3>1, RowOccurs
  <2> QED
    BY <2>3 DEF Occurrences, OccurrencesIn
<1>4. l > 1 /\ l \in LagRange
  BY LagsInRange
<1>5. histogram'[l] = Occurrences(l)' /\ Occurrences(l)' \in Nat
  <2>1. Occurrences(l)' \in 0 .. Window
    BY OccurrencesType DEF Occurrences, OccurrencesIn
  <2>2. histogram'[l] = Occurrences(l)' - (IF l = 0 THEN Window ELSE 0)
    BY <1>2, <1>4 DEF DelayInv, HistogramMatchesData
  <2> QED
    BY <1>4, <2>1, <2>2, SMT
<1>6. candidate = l
  <2> SUFFICES ASSUME candidate # l PROVE FALSE
    OBVIOUS
  <2>1. histogram'[candidate] <= Occurrences(candidate)' /\ Occurrences(candidate)' \in Nat
    <3>1. histogram'[candidate] = Occurrences(candidate)' - (IF candidate = 0 THEN Window ELSE 0)
      BY <1>2 DEF DelayInv, HistogramMatchesData
    <3>2. Occurrences(candidate)' \in 0 .. Window
      BY OccurrencesType DEF Occurrences, OccurrencesIn
    <3> QED
      BY <3>1, <3>2, SMT
  <2>2. Occurrences(l)' + Occurrences(candidate)' <= Window
    <3>1. OccurrencesIn(histogram_data', l) + OccurrencesIn(histogram_data', candidate) <= Window
      BY WindowShared
    <3> QED
      BY <3>1 DEF Occurrences, OccurrencesIn
  <2>3. histogram'[l] <= histogram'[candidate] /\ histogram'[candidate] \in Int
    BY <1>1, <1>2, <1>4 DEF IsCandidate, DelayInv, LagType
  <2>4. 2 * n > Window /\ n \in Nat
    BY SMT DEF MostOf
  <2> QED
    BY <1>3, <1>5, <2>1, <2>2, <2>3, <2>4, SMT
<1>7. histogram'[l] > Converged /\ significant'
  <2>1. n > Converged /\ n \in Nat
    BY SMT DEF MostOf
  <2>2. histogram'[l] > Converged
    BY <1>3, <1>5, <2>1, SMT
  <2> QED
    BY <1>1, <1>6, <2>2 DEF Significant
<1>8. Aggregated(candidate, histogram'[candidate], significant')
        = [lag |-> l, quality |-> "refined"]
  BY <1>6, <1>7 DEF Aggregated
<1>9. Estimate([lag |-> l, quality |-> "refined"])
  BY <1>1, <1>8
<1>10. l # None
  BY <1>4, SMT DEF None
<1> QED
  BY <1>9, <1>10 DEF Estimate, FollowEstimate

\* What drift detection makes of a lag it has seen last.
LEMMA DriftForgotten ==
    ASSUME LagType, NEW l \in Lags, NEW d, d = DriftAfter(drift, l)
    PROVE  /\ d.history[1] = l
           /\ drift.history[1] = l =>
                /\ d.stable > StableBlocks \/ d.stable = drift.stable + 1
                /\ drift.stable >= StableBlocks => d.level = "none"
<1>1. /\ drift.stable \in Nat
      /\ drift = [history |-> drift.history, stable |-> drift.stable, level |-> drift.level]
  BY DEF LagType
<1>2. CASE l = drift.history[1]
  <2>1. d = [drift EXCEPT !.stable = IF @ <= StableBlocks THEN @ + 1 ELSE @,
                          !.level = IF drift.stable + 1 > StableBlocks THEN "none" ELSE @]
    BY <1>2 DEF DriftAfter
  <2>2. /\ d.history = drift.history
        /\ d.stable = IF drift.stable <= StableBlocks THEN drift.stable + 1 ELSE drift.stable
        /\ d.level = IF drift.stable + 1 > StableBlocks THEN "none" ELSE drift.level
    BY <1>1, <2>1
  <2>3. drift.stable >= StableBlocks => drift.stable + 1 > StableBlocks
    BY <1>1, DelayControlAssumption, SMT
  <2>4. d.stable > StableBlocks \/ d.stable = drift.stable + 1
    BY <1>1, <2>2, DelayControlAssumption, SMT
  <2> QED
    BY <1>2, <2>2, <2>3, <2>4
<1>3. CASE l # drift.history[1]
  BY <1>3 DEF DriftAfter
<1> QED
  BY <1>2, <1>3

\* A lag that the filters go on reporting wins the histogram over whatever was
\* in it, whichever window, thresholds and filters are configured.
THEOREM SteadyLagWins == Spec => SteadyLagDecides
<1> DEFINE Won(l) ==
      /\ \A n \in 0 .. Window - 1 : InARow(l, n) => InARow(l, n + 1)'
      /\ \A n \in 0 .. Window : InARow(l, n)' /\ MostOf(n)
           => /\ delay_samples' = [lag |-> l, quality |-> "refined"]
              /\ drift'.history[1] = l
              /\ drift.history[1] = l =>
                   /\ drift'.stable > StableBlocks \/ drift'.stable = drift.stable + 1
                   /\ drift.stable >= StableBlocks => drift'.level = "none"
<1>1. DelayInv /\ [Next]_vars => [\A l \in Lags : reported' = l => Won(l)]_vars
  <2> SUFFICES ASSUME DelayInv, Next, NEW l \in Lags, reported' = l PROVE Won(l)
    OBVIOUS
  <2>1. GetDelay(l)
    <3>1. l # None /\ l # AfterReset
      BY LagsInRange, SMT DEF None, AfterReset
    <3>2. ~GetDelayNoLag /\ (\A hard \in BOOLEAN : ~Reset(hard))
      BY <3>1 DEF GetDelayNoLag, Reset
    <3>3. \A lag \in Lags : GetDelay(lag) => lag = l
      BY DEF GetDelay
    <3> QED
      BY <3>2, <3>3 DEF Next, CaptureBlock
  <2>2. \A n \in 0 .. Window - 1 : InARow(l, n) => InARow(l, n + 1)'
    BY <2>1, RowGrows
  <2>3. ASSUME NEW n \in 0 .. Window, InARow(l, n)', MostOf(n)
        PROVE  /\ delay_samples' = [lag |-> l, quality |-> "refined"]
               /\ drift' = DriftAfter(drift, l)
    BY <2>1, <2>3, MajorityDecides
  <2>4. LagType
    BY DEF DelayInv
  <2> QED
    BY <2>2, <2>3, <2>4, DriftForgotten
<1> QED
  BY <1>1, DelayInvariant, PTL DEF Spec, SteadyLagDecides

\* The delay control is the controller the block processor assumes.
THEOREM Implements == Spec => ImplementsEstimates
<1>1. Init => Controller!Init
  BY DEF Init, Controller!Init
<1>2. DelayInv /\ [Next]_vars => [Controller!Next]_Controller!evars
  <2> SUFFICES ASSUME DelayInv, [Next]_vars PROVE [Controller!Next]_Controller!evars
    OBVIOUS
  <2> USE DEF Controller!Next, Controller!evars, Controller!GetDelay,
              Controller!Estimates, Controller!Reset
  <2>1. CASE UNCHANGED vars
    BY <2>1 DEF vars
  <2>2. ASSUME NEW lag \in Lags, GetDelay(lag)
        PROVE  Controller!GetDelay
    BY <2>2, GetDelayInv
  <2>3. CASE GetDelayNoLag
    BY <2>3, NoLagInv
  <2>4. ASSUME NEW hard \in BOOLEAN, Reset(hard)
        PROVE  Controller!Reset
    BY <2>4 DEF Reset
  <2> QED
    BY <2>1, <2>2, <2>3, <2>4 DEF Next, CaptureBlock
<1> QED
  BY <1>1, <1>2, DelayInvariant, PTL DEF Spec, ImplementsEstimates, Controller!Spec

-----------------------------------------------------------------------------
(* Arithmetic of the size on its way from one target to the next.          *)

LEMMA QuotientWithin ==
    ASSUME NEW n \in Nat, NEW d \in Nat \ {0}, NEW low \in Nat, NEW high \in Nat,
           low * d <= n, n <= high * d
    PROVE  n \div d \in low .. high
<1> DEFINE q == n \div d
<1>1. q \in Int /\ d * q <= n /\ n < d * (q + 1)
  BY SMT
<1> HIDE DEF q
<1>2. q >= low
  <2>1. CASE q < low
    <3>1. q + 1 <= low
      BY <1>1, <2>1, SMT
    <3>2. d * (q + 1) <= d * low
      BY <1>1, <3>1, SMT
    <3> QED
      BY <1>1, <3>2, SMT
  <2> QED
    BY <1>1, <2>1, SMT
<1>3. q <= high
  <2>1. CASE q > high
    <3>1. d * q >= d * (high + 1)
      BY <1>1, <2>1, SMT
    <3> QED
      BY <1>1, <3>1, SMT
  <2> QED
    BY <1>1, <2>1, SMT
<1> QED
  BY <1>1, <1>2, <1>3, SMT DEF q

-----------------------------------------------------------------------------
(* What the operations of a filter preserve.                               *)

\* The last conjunct makes the first survive a block in which the size is set.
Sound(fl) == /\ \A p \in fl.stale : p >= fl.size
             /\ fl.constrain < fl.size
             /\ fl.counter = 0 => fl.size = fl.target

LEMMA LengthsArePositive ==
    ASSUME NEW f \in Filters
    PROVE  /\ InitialLength[f] \in Nat \ {0} /\ FullLength[f] \in Nat \ {0}
           /\ InitialLength[f] \in Lengths(f) /\ FullLength[f] \in Lengths(f)
           /\ \A n \in Lengths(f) : n \in Nat /\ n >= InitialLength[f] /\ n <= FullLength[f]
<1>1. InitialLength[f] \in Nat \ {0} /\ FullLength[f] \in Nat \ {0}
      /\ InitialLength[f] <= FullLength[f]
  BY AdaptiveFiltersAssumption
<1> QED
  BY <1>1, SMT DEF Lengths

\* A change of the size leaves and takes up no partition with old coefficients.
LEMMA StaleStaysUnused ==
    ASSUME NEW f \in Filters, NEW fl \in FilterType(f), NEW size \in Lengths(f),
           \A p \in fl.stale : p >= fl.size
    PROVE  /\ StaleAfter(fl, size) \in SUBSET (0 .. FullLength[f] - 1)
           /\ \A p \in StaleAfter(fl, size) : p >= size
<1>1. /\ fl.size \in Nat /\ size \in Nat /\ fl.size <= FullLength[f]
      /\ fl.stale \subseteq 0 .. FullLength[f] - 1 /\ FullLength[f] \in Nat
  BY LengthsArePositive DEF FilterType
<1>2. ASSUME NEW p \in StaleAfter(fl, size)
      PROVE  p \in 0 .. FullLength[f] - 1 /\ p >= size
  <2>1. (p \in fl.stale \/ p \in size .. fl.size - 1) /\ p \notin fl.size .. size - 1
    BY <1>2 DEF StaleAfter, Cleared
  <2>2. CASE p \in fl.stale
    <3>1. p >= fl.size /\ p \in 0 .. FullLength[f] - 1
      BY <1>1, <2>2
    <3> QED
      BY <1>1, <2>1, <3>1, SMT
  <2>3. CASE p \in size .. fl.size - 1
    BY <1>1, <2>3, SMT
  <2> QED
    BY <2>1, <2>2, <2>3
<1> QED
  BY <1>2

LEMMA ClearUnusedSound ==
    ASSUME NEW f \in Filters, NEW fl \in FilterType(f), Sound(fl)
    PROVE  /\ ClearUnused(f, fl) \in FilterType(f) /\ Sound(ClearUnused(f, fl))
           /\ ClearUnused(f, fl).target = fl.target
BY SMT DEF ClearUnused, Cleared, FilterType, Sound

LEMMA SetSizeSound ==
    ASSUME NEW f \in Filters, NEW fl \in FilterType(f), Sound(fl), NEW size \in Lengths(f)
    PROVE  /\ SetSize(fl, size) \in FilterType(f) /\ Sound(SetSize(fl, size))
           /\ SetSize(fl, size).target = size /\ SetSize(fl, size).size = size
<1> DEFINE stale == StaleAfter(fl, size)
           constrain == Least(fl.constrain, size - 1)
<1>1. stale \in SUBSET (0 .. FullLength[f] - 1) /\ \A p \in stale : p >= size
  BY StaleStaysUnused DEF Sound
<1>2. constrain \in Nat /\ constrain < size
  <2>1. size \in Nat /\ size >= 1 /\ fl.constrain \in Nat
    BY LengthsArePositive DEF FilterType
  <2> QED
    BY <2>1, SMT DEF Least
<1>3. SetSize(fl, size) = [fl EXCEPT !.size = size, !.target = size, !.old_target = size,
                                     !.counter = 0, !.stale = stale, !.constrain = constrain]
  BY DEF SetSize
<1>4. 0 \in 0 .. ChangeBlocks
  BY AdaptiveFiltersAssumption, SMT
<1> HIDE DEF stale, constrain
<1> QED
  BY <1>1, <1>2, <1>3, <1>4 DEF FilterType, Sound

LEMMA SetTargetSound ==
    ASSUME NEW f \in Filters, NEW fl \in FilterType(f), Sound(fl), NEW size \in Lengths(f)
    PROVE  /\ SetTarget(fl, size) \in FilterType(f) /\ Sound(SetTarget(fl, size))
           /\ SetTarget(fl, size).target = size /\ SetTarget(fl, size).size = fl.size
<1>1. ChangeBlocks \in 0 .. ChangeBlocks /\ ChangeBlocks # 0
  BY AdaptiveFiltersAssumption, SMT
<1> QED
  BY <1>1 DEF SetTarget, FilterType, Sound

\* A weighted mean, rounded down, lies between the two.
Mean(a, b, c, d) == (a * (c - 1) + b * (d - c + 1)) \div d

LEMMA MeanOfLengths ==
    ASSUME NEW f \in Filters, NEW a \in Lengths(f), NEW b \in Lengths(f),
           NEW d \in Nat \ {0}, NEW c \in 1 .. d
    PROVE  Mean(a, b, c, d) \in Lengths(f) /\ (c = 1 => Mean(a, b, c, d) = b)
<1> DEFINE low == InitialLength[f]
           high == FullLength[f]
<1>0. /\ low \in Nat /\ high \in Nat /\ a \in low .. high /\ b \in low .. high
      /\ Lengths(f) = low .. high
  BY LengthsArePositive DEF Lengths
<1> HIDE DEF low, high
<1> DEFINE u == c - 1
           v == d - c + 1
<1>1. u \in Nat /\ v \in Nat /\ u + v = d /\ (c = 1 => u = 0 /\ v = d)
  BY SMT
<1> HIDE DEF u, v
<1>2. a \in Nat /\ b \in Nat /\ low <= a /\ a <= high /\ low <= b /\ b <= high
  BY <1>0, SMT
<1>3. /\ low * u <= a * u /\ a * u <= high * u
      /\ low * v <= b * v /\ b * v <= high * v
  BY <1>0, <1>1, <1>2, SMT
<1>4. low * d = low * u + low * v /\ high * d = high * u + high * v
  BY <1>0, <1>1, SMT
<1>5. a * u + b * v \in Nat
  BY <1>1, <1>2, SMT
<1>6. (a * u + b * v) \div d \in low .. high
  <2> DEFINE n == a * u + b * v
             lower == low * d
             upper == high * d
  <2>1. a * u \in Int /\ b * v \in Int /\ low * u \in Int /\ low * v \in Int
        /\ high * u \in Int /\ high * v \in Int
    BY <1>0, <1>1, <1>2, SMT
  <2>2. lower <= n /\ n <= upper
    BY <1>3, <1>4, <2>1, SMT
  <2>3. n \in Nat
    BY <1>5
  <2> HIDE DEF n
  <2> QED
    BY <1>0, <2>2, <2>3, QuotientWithin DEF n
<1>7. ASSUME c = 1 PROVE (a * u + b * v) \div d = b
  <2>1. a * u + b * v = b * d
    BY <1>1, <1>2, <1>7, SMT
  <2>2. (b * d) \div d \in b .. b
    BY <1>2, QuotientWithin, SMT
  <2> QED
    BY <1>2, <2>1, <2>2, SMT
<1> QED
  BY <1>0, <1>6, <1>7 DEF Mean, u, v

LEMMA SizeAfterInRange ==
    ASSUME NEW f \in Filters, NEW fl \in FilterType(f)
    PROVE  /\ SizeAfter(fl) \in Lengths(f)
           /\ fl.counter \in {0, 1} => SizeAfter(fl) = fl.target
<1>1. /\ InitialLength[f] \in Nat /\ FullLength[f] \in Nat
      /\ fl.old_target \in Lengths(f) /\ fl.target \in Lengths(f)
      /\ fl.counter \in 0 .. ChangeBlocks /\ ChangeBlocks \in Nat \ {0}
  BY AdaptiveFiltersAssumption, LengthsArePositive DEF FilterType
<1>2. CASE fl.counter = 0
  BY <1>1, <1>2 DEF SizeAfter
<1>3. CASE fl.counter # 0
  <2>1. fl.counter \in 1 .. ChangeBlocks
    BY <1>1, <1>3, SMT
  <2> DEFINE mean == Mean(fl.old_target, fl.target, fl.counter, ChangeBlocks)
  <2>2. mean \in Lengths(f) /\ (fl.counter = 1 => mean = fl.target)
    <3> DEFINE a == fl.old_target
               b == fl.target
               k == fl.counter
    <3>1. /\ a \in Lengths(f) /\ b \in Lengths(f) /\ k \in 1 .. ChangeBlocks
          /\ ChangeBlocks \in Nat \ {0} /\ f \in Filters
      BY <1>1, <2>1
    <3> HIDE DEF a, b, k
    <3>2. LET m == Mean(a, b, k, ChangeBlocks)
          IN  m \in Lengths(f) /\ (k = 1 => m = b)
      BY ONLY <3>1, MeanOfLengths
    <3> QED
      BY <3>2 DEF a, b, k
  <2>3. SizeAfter(fl) = mean
    BY <1>3 DEF SizeAfter, Mean
  <2> HIDE DEF mean
  <2> QED
    BY <1>3, <2>2, <2>3
<1> QED
  BY <1>2, <1>3

LEMMA AdaptSound ==
    ASSUME NEW f \in Filters, NEW fl \in FilterType(f), Sound(fl)
    PROVE  Adapt(fl) \in FilterType(f) /\ Sound(Adapt(fl)) /\ Adapt(fl).target = fl.target
<1> DEFINE size == SizeAfter(fl)
           stale == StaleAfter(fl, size)
           counter == IF fl.counter > 0 THEN fl.counter - 1 ELSE 0
           old_target == IF fl.counter = 0 THEN fl.target ELSE fl.old_target
           constrain == IF fl.counter = 0 THEN fl.constrain ELSE Least(fl.constrain, size - 1)
           next == IF constrain < size - 1 THEN constrain + 1 ELSE 0
<1>1. /\ fl.constrain \in Nat /\ fl.counter \in 0 .. ChangeBlocks /\ ChangeBlocks \in Nat
      /\ fl.target \in Lengths(f) /\ fl.old_target \in Lengths(f) /\ fl.size \in Lengths(f)
  BY AdaptiveFiltersAssumption DEF FilterType
<1>2. size \in Lengths(f) /\ (fl.counter \in {0, 1} => size = fl.target)
  BY SizeAfterInRange
<1>3. size \in Nat /\ size >= 1
  BY <1>2, LengthsArePositive
<1>4. stale \in SUBSET (0 .. FullLength[f] - 1) /\ \A p \in stale : p >= size
  BY <1>2, StaleStaysUnused DEF Sound
<1>5. Adapt(fl) = [fl EXCEPT !.size = size, !.counter = counter, !.old_target = old_target,
                             !.constrain = next, !.stale = stale]
  BY DEF Adapt, UpdateSize, Constrained, FilterType
<1>6. old_target \in Lengths(f)
  BY <1>1
<1> HIDE DEF size, stale
<1>7. counter \in 0 .. ChangeBlocks /\ (counter = 0 => fl.counter \in {0, 1})
  BY <1>1, SMT
<1>8. constrain \in Nat
  BY <1>1, <1>3, SMT DEF Least
<1>9. next \in Nat /\ next < size
  BY <1>3, <1>8, SMT
<1> HIDE DEF counter, old_target, constrain, next
<1> QED
  BY <1>2, <1>4, <1>5, <1>6, <1>7, <1>9 DEF FilterType, Sound

LEMMA SetFilterSound ==
    ASSUME NEW f \in Filters, NEW fl \in FilterType(f), Sound(fl),
           NEW g \in Filters, NEW other \in FilterType(g), Sound(other)
    PROVE  /\ SetFilter(fl, other) \in FilterType(f) /\ Sound(SetFilter(fl, other))
           /\ SetFilter(fl, other).target = fl.target
<1> DEFINE shared == 0 .. Least(fl.size, other.size) - 1
           stale == (fl.stale \ shared) \cup (other.stale \cap shared)
<1>1. /\ fl.size \in Nat /\ other.size \in Nat
      /\ other.stale \in SUBSET (0 .. FullLength[g] - 1) /\ FullLength[g] \in Nat
  BY LengthsArePositive DEF FilterType
<1>2. other.stale \cap shared = {}
  BY <1>1, SMT DEF Sound, Least
<1>3. SetFilter(fl, other) = [fl EXCEPT !.stale = stale]
  BY DEF SetFilter, FilterType
<1>4. stale \subseteq fl.stale
  BY <1>2
<1> HIDE DEF stale
<1> QED
  BY <1>3, <1>4 DEF FilterType, Sound

-----------------------------------------------------------------------------
(* What the operations of a gain preserve.                                 *)

LEMMA GainAfterExitType ==
    ASSUME NEW f \in Filters, NEW g \in GainType(f), NEW exit \in BOOLEAN
    PROVE  /\ GainAfterExit(g, exit) \in GainType(f)
           /\ GainAfterExit(g, exit).config = IF exit THEN "normal" ELSE g.config
           /\ GainAfterExit(g, exit).calls = g.calls
BY DEF GainAfterExit, SetConfig, GainType

LEMMA ComputedType ==
    ASSUME NEW f \in Filters, NEW g \in GainType(f), NEW poor
    PROVE  /\ Computed(f, g, poor) \in GainType(f)
           /\ Computed(f, g, poor).config = g.config
           /\ Computed(f, g, poor).calls <= g.calls + 1
<1> DEFINE calls == Least(g.calls + 1, Enough(f))
           excited == Least((IF poor THEN 0 ELSE g.excited) + 1, FullLength[f])
<1>1. g.calls \in 0 .. Enough(f) /\ g.excited \in 0 .. FullLength[f]
  BY DEF GainType
<1>2. FullLength[f] \in Nat \ {0} /\ Enough(f) \in Nat
  BY LengthsArePositive, SMT DEF Enough
<1>3. calls \in 0 .. Enough(f) /\ calls <= g.calls + 1
  BY <1>1, <1>2, SMT DEF Least
<1>4. excited \in 0 .. FullLength[f]
  BY <1>1, <1>2, SMT DEF Least
<1>5. Computed(f, g, poor) = [g EXCEPT !.calls = calls, !.excited = excited]
  BY DEF Computed, GainType
<1> HIDE DEF calls, excited
<1> QED
  BY <1>3, <1>4, <1>5 DEF GainType

-----------------------------------------------------------------------------
(* A block of the subtractor.                                              *)

LEMMA ProcessKeeps ==
    ASSUME FiltersTypeOK, NEW filters, NEW gains,
           \A f \in Filters : /\ filters[f] \in FilterType(f) /\ Sound(filters[f])
                              /\ gains[f] \in GainType(f),
           NEW saturated, NEW poor, NEW adjusted, NEW worse,
           SubtractorProcess(filters, gains, saturated, poor, adjusted, worse)
    PROVE  /\ poor_coarse' \in 0 .. PoorBlocks - 1 /\ learnt' \subseteq Filters
           /\ \A f \in Filters :
                 /\ filter'[f] \in FilterType(f) /\ Sound(filter'[f])
                 /\ filter'[f].target = filters[f].target
                 /\ gain'[f] \in GainType(f) /\ gain'[f].config = gains[f].config
                 /\ gain'[f].calls <= gains[f].calls + 1
                 /\ f \in learnt' => ~saturated /\ gain'[f].calls > filters[f].size
<1> DEFINE count == IF worse THEN poor_coarse + 1 ELSE 0
<1> DEFINE refined == RefinedProcess(filters.refined, gains.refined, saturated, poor, adjusted)
           coarse == CoarseProcess(filters.coarse, gains.coarse, refined.filter,
                                   saturated, poor, count = PoorBlocks)
<1>1.   /\ filter' = [refined |-> refined.filter, coarse |-> coarse.filter]
        /\ gain' = [refined |-> refined.gain, coarse |-> coarse.gain]
        /\ poor_coarse' = count % PoorBlocks
        /\ learnt' = {f \in Filters : IF f = "refined" THEN refined.learns ELSE coarse.learns}
  BY DEF SubtractorProcess
<1>2. poor_coarse' \in 0 .. PoorBlocks - 1
  <2>1. poor_coarse \in 0 .. PoorBlocks - 1 /\ PoorBlocks \in Nat \ {0}
    BY AdaptiveFiltersAssumption DEF FiltersTypeOK
  <2>2. count \in Int
    BY <2>1, SMT
  <2> HIDE DEF count
  <2> QED
    BY <1>1, <2>1, <2>2, SMT
<1> HIDE DEF count, refined, coarse
<1> DEFINE fr == filters["refined"]
           gr == gains["refined"]
           fc == filters["coarse"]
           gc == gains["coarse"]
<1>3. /\ "refined" \in Filters /\ "coarse" \in Filters
      /\ fr \in FilterType("refined") /\ Sound(fr) /\ gr \in GainType("refined")
      /\ fc \in FilterType("coarse") /\ Sound(fc) /\ gc \in GainType("coarse")
  BY DEF Filters
<1>4. fr.size \in Nat /\ fc.size \in Nat /\ gr.calls \in Nat /\ gc.calls \in Nat
  BY <1>3, LengthsArePositive DEF FilterType, GainType
<1> HIDE DEF fr, gr, fc, gc
<1>5. /\ refined.filter \in FilterType("refined") /\ Sound(refined.filter)
      /\ refined.filter.target = fr.target
      /\ refined.gain \in GainType("refined") /\ refined.gain.config = gr.config
      /\ refined.gain.calls <= gr.calls + 1
      /\ refined.learns => ~saturated /\ refined.gain.calls > fr.size
  <2>1. refined = RefinedProcess(fr, gr, saturated, poor, adjusted)
    BY DEF refined, fr, gr
  <2>2. Adapt(fr) \in FilterType("refined") /\ Sound(Adapt(fr)) /\ Adapt(fr).target = fr.target
    BY <1>3, AdaptSound
  <2>3. CASE adjusted
    <3>1. refined = [filter |-> Adapt(fr), gain |-> gr, learns |-> FALSE]
      BY <2>1, <2>3 DEF RefinedProcess
    <3> QED
      BY <1>3, <1>4, <2>2, <3>1, SMT
  <2>4. CASE ~adjusted
    <3> DEFINE computed == Computed("refined", gr, poor)
    <3>1. refined = [filter |-> Adapt(fr), gain |-> computed,
                     learns |-> Learns(computed, fr.size, saturated)]
      BY <2>1, <2>4 DEF RefinedProcess
    <3>2. /\ computed \in GainType("refined") /\ computed.config = gr.config
          /\ computed.calls <= gr.calls + 1
      BY <1>3, ComputedType
    <3>3. Learns(computed, fr.size, saturated) => ~saturated /\ computed.calls > fr.size
      BY DEF Learns
    <3> HIDE DEF computed
    <3> QED
      BY <2>2, <3>1, <3>2, <3>3
  <2> QED
    BY <2>3, <2>4
<1>6. /\ coarse.filter \in FilterType("coarse") /\ Sound(coarse.filter)
      /\ coarse.filter.target = fc.target
      /\ coarse.gain \in GainType("coarse") /\ coarse.gain.config = gc.config
      /\ coarse.gain.calls <= gc.calls + 1
      /\ coarse.learns => ~saturated /\ coarse.gain.calls > fc.size
  <2> DEFINE computed == Computed("coarse", gc, poor)
             taken == IF count = PoorBlocks THEN SetFilter(fc, refined.filter) ELSE fc
  <2>1. coarse = [filter |-> Adapt(taken), gain |-> computed,
                  learns |-> Learns(computed, fc.size, saturated)]
    BY DEF coarse, CoarseProcess, fc, gc
  <2>2. taken \in FilterType("coarse") /\ Sound(taken) /\ taken.target = fc.target
    <3>1. CASE count = PoorBlocks
      BY <1>3, <1>5, <3>1, SetFilterSound
    <3>2. CASE count # PoorBlocks
      BY <1>3, <3>2
    <3> QED
      BY <3>1, <3>2
  <2> HIDE DEF taken
  <2>3. Adapt(taken) \in FilterType("coarse") /\ Sound(Adapt(taken)) /\ Adapt(taken).target = fc.target
    BY <1>3, <2>2, AdaptSound
  <2>4. /\ computed \in GainType("coarse") /\ computed.config = gc.config
        /\ computed.calls <= gc.calls + 1
    BY <1>3, ComputedType
  <2>5. Learns(computed, fc.size, saturated) => ~saturated /\ computed.calls > fc.size
    BY DEF Learns
  <2> HIDE DEF computed
  <2> QED
    BY <2>1, <2>3, <2>4, <2>5
<1>7. learnt' \subseteq Filters
  BY <1>1
<1>8. /\ filter'["refined"] = refined.filter /\ filter'["coarse"] = coarse.filter
      /\ gain'["refined"] = refined.gain /\ gain'["coarse"] = coarse.gain
      /\ "refined" \in learnt' => refined.learns
      /\ "coarse" \in learnt' => coarse.learns
  BY <1>1
<1>9. ASSUME NEW f \in Filters
      PROVE  /\ filter'[f] \in FilterType(f) /\ Sound(filter'[f])
             /\ filter'[f].target = filters[f].target
             /\ gain'[f] \in GainType(f) /\ gain'[f].config = gains[f].config
             /\ gain'[f].calls <= gains[f].calls + 1
             /\ f \in learnt' => ~saturated /\ gain'[f].calls > filters[f].size
  <2>1. CASE f = "refined"
    BY <1>5, <1>8, <2>1 DEF fr, gr
  <2>2. CASE f = "coarse"
    BY <1>6, <1>8, <2>2 DEF fc, gc
  <2> QED
    BY <2>1, <2>2 DEF Filters
<1> QED
  BY <1>2, <1>7, <1>9

-----------------------------------------------------------------------------
(* The inductive invariant.                                                *)

FiltersSound == \A f \in Filters : Sound(filter[f])

\* The blocks of the frame, its flag once it is set.
FrameBlocks == IF frame.long THEN 3 ELSE 2

\* Once the level change is acted on, the hangover outlasts the frame; until it
\* is, the hangover has been counted down by all blocks of the frame; and it is
\* over if the frame before was not acted on.
LevelInv ==
    /\ seen.acted \in {0, 1}
    /\ frame.left <= FrameBlocks
    /\ seen.acted = 1 => hangover >= frame.left
    /\ frame.flagged /\ seen.acted = 0 => hangover + FrameBlocks - frame.left <= 2
    /\ seen.missed /\ frame.flagged /\ seen.acted = 0 => hangover = 0 /\ frame.left > 0

\* A gain was called no more often than there were blocks since the delay changed.
CallsInv ==
    \A f \in Filters : \/ gain[f].calls <= seen.since
                       \/ seen.since > InitialLength[f]
                       \/ f = "refined" /\ seen.mixed

\* The transition ends the initial state, which is over for good after it.
StateInv ==
    /\ initial_state.triggered => ~initial_state.active
    /\ ~initial_state.active => initial_state.blocks = InitialBlocks

RemoverInv == /\ RemoverTypeOK /\ FiltersSound /\ LevelInv /\ CallsInv /\ StateInv
        /\ LearnsWhenSound /\ InitialStateIsShared

LEMMA LongestIsLongest ==
    Longest \in Nat /\ \A f \in Filters : InitialLength[f] <= Longest
<1>1. InitialLength["refined"] \in Nat /\ InitialLength["coarse"] \in Nat
  BY LengthsArePositive DEF Filters
<1>2. \E f \in Filters : \A g \in Filters : InitialLength[g] <= InitialLength[f]
  <2>1. CASE InitialLength["coarse"] <= InitialLength["refined"]
    BY <1>1, <2>1, SMT DEF Filters
  <2>2. CASE ~(InitialLength["coarse"] <= InitialLength["refined"])
    BY <1>1, <2>2, SMT DEF Filters
  <2> QED
    BY <2>1, <2>2
<1> DEFINE longest == CHOOSE f \in Filters : \A g \in Filters : InitialLength[g] <= InitialLength[f]
<1>3. longest \in Filters /\ \A g \in Filters : InitialLength[g] <= InitialLength[longest]
  BY <1>2
<1>4. Longest = InitialLength[longest]
  BY DEF Longest
<1> HIDE DEF longest
<1> QED
  BY <1>3, <1>4, LengthsArePositive

LEMMA RemoverInitInv == RemoverInit => RemoverInv
<1> SUFFICES ASSUME RemoverInit PROVE RemoverInv
  OBVIOUS
<1> USE DEF RemoverInit, FiltersInit
<1>1. \A f \in Filters : /\ filter[f] \in FilterType(f) /\ Sound(filter[f])
                         /\ filter[f].target = InitialLength[f]
  <2> TAKE f \in Filters
  <2>1. /\ InitialLength[f] \in Lengths(f) /\ InitialLength[f] > 0
        /\ 0 \in 0 .. ChangeBlocks
    BY LengthsArePositive, AdaptiveFiltersAssumption, SMT
  <2> QED
    BY <2>1 DEF FilterType, Sound
<1>2. \A f \in Filters : /\ gain[f] \in GainType(f) /\ gain[f].config = "initial"
                         /\ gain[f].calls = 0
  <2> TAKE f \in Filters
  <2>1. 0 \in 0 .. Enough(f) /\ 0 \in 0 .. FullLength[f] /\ FullLength[f] \in 0 .. FullLength[f]
    BY LengthsArePositive, SMT DEF Enough
  <2> QED
    BY <2>1 DEF GainType
<1>3. RemoverTypeOK
  <2>1. poor_coarse \in 0 .. PoorBlocks - 1 /\ learnt \subseteq Filters
    BY AdaptiveFiltersAssumption, SMT
  <2>2. initial_state \in [active : BOOLEAN, triggered : BOOLEAN, blocks : 0 .. InitialBlocks]
    BY EchoRemoverAssumption, SMT
  <2>3. seen \in [jump : BOOLEAN, good : BOOLEAN, since : 0 .. Longest + 1, mixed : BOOLEAN,
                  hasty : BOOLEAN, acted : 0 .. 3, missed : BOOLEAN]
    <3>1. 0 \in 0 .. Longest + 1
      BY LongestIsLongest, SMT
    <3> QED
      BY <3>1, SMT
  <2>4. /\ frame \in [left : 0 .. 3, long : BOOLEAN, flagged : BOOLEAN, saturated : BOOLEAN]
        /\ hangover \in 0 .. 2 /\ suppressor \in BOOLEAN
    BY SMT
  <2> QED
    BY <1>1, <1>2, <2>1, <2>2, <2>3, <2>4 DEF RemoverTypeOK, FiltersTypeOK
<1>4. FiltersSound
  BY <1>1 DEF FiltersSound
<1>5. LevelInv
  BY SMT DEF LevelInv, FrameBlocks
<1>6. CallsInv
  BY <1>2, SMT DEF CallsInv
<1>7. StateInv
  BY DEF StateInv
<1>8. LearnsWhenSound
  BY DEF LearnsWhenSound
<1>9. InitialStateIsShared
  BY <1>1, <1>2 DEF InitialStateIsShared
<1> QED
  BY <1>3, <1>4, <1>5, <1>6, <1>7, <1>8, <1>9 DEF RemoverInv

LEMMA NextFrameInv ==
    ASSUME RemoverInv, NEW level_change \in BOOLEAN, NEW saturated \in BOOLEAN,
           NextFrame(level_change, saturated)
    PROVE  RemoverInv'
<1> USE DEF NextFrame
<1>1. /\ frame \in [left : 0 .. 3, long : BOOLEAN, flagged : BOOLEAN, saturated : BOOLEAN]
      /\ hangover \in 0 .. 2
      /\ seen \in [jump : BOOLEAN, good : BOOLEAN, since : 0 .. Longest + 1, mixed : BOOLEAN,
                   hasty : BOOLEAN, acted : 0 .. 3, missed : BOOLEAN]
  BY DEF RemoverInv, RemoverTypeOK
<1>2. /\ frame'.left = (IF frame.long THEN 2 ELSE 3) /\ frame'.long = ~frame.long
      /\ frame'.flagged = level_change /\ frame'.saturated = saturated
      /\ seen'.acted = 0 /\ seen'.missed = (frame.flagged /\ seen.acted = 0)
      /\ seen'.jump = seen.jump /\ seen'.since = seen.since
      /\ seen'.mixed = seen.mixed /\ seen'.hasty = seen.hasty
  BY <1>1
<1>3. RemoverTypeOK'
  <2>1. frame' \in [left : 0 .. 3, long : BOOLEAN, flagged : BOOLEAN, saturated : BOOLEAN]
    BY <1>1, SMT
  <2>2. seen' \in [jump : BOOLEAN, good : BOOLEAN, since : 0 .. Longest + 1, mixed : BOOLEAN,
                   hasty : BOOLEAN, acted : 0 .. 3, missed : BOOLEAN]
    <3>1. 0 \in 0 .. 3 /\ (frame.flagged /\ seen.acted = 0) \in BOOLEAN
      BY SMT
    <3> QED
      BY <1>1, <3>1
  <2>3. FiltersTypeOK'
    BY DEF RemoverInv, RemoverTypeOK, FiltersTypeOK
  <2> QED
    BY <2>1, <2>2, <2>3 DEF RemoverInv, RemoverTypeOK
<1>4. FiltersSound'
  BY DEF RemoverInv, FiltersSound
<1>5. LevelInv'
  <2>1. frame.left = 0 /\ frame'.left = FrameBlocks' /\ FrameBlocks' \in {2, 3} /\ FrameBlocks \in {2, 3}
    BY <1>1, <1>2 DEF FrameBlocks
  <2>2. hangover' = hangover /\ hangover + FrameBlocks' - FrameBlocks' <= 2
    BY <1>1, <2>1, SMT
  <2>3. frame.flagged /\ seen.acted = 0 => hangover = 0
    BY <1>1, <2>1, SMT DEF RemoverInv, LevelInv
  <2>4. seen'.missed => hangover = 0
    BY <1>2, <2>3
  <2>5. seen'.acted = 0
    BY <1>2
  <2> HIDE DEF NextFrame
  <2>6. frame'.left <= FrameBlocks' /\ frame'.left > 0
        /\ hangover' + FrameBlocks' - frame'.left <= 2
    BY <2>1, <2>2, SMT
  <2>7. seen'.acted \in {0, 1} /\ seen'.acted # 1
    BY <2>5, SMT
  <2> QED
    BY <2>2, <2>4, <2>6, <2>7 DEF LevelInv
<1>6. CallsInv'
  BY <1>2 DEF RemoverInv, CallsInv
<1>7. StateInv'
  BY DEF RemoverInv, StateInv
<1>8. LearnsWhenSound'
  BY DEF LearnsWhenSound
<1>9. InitialStateIsShared'
  BY <1>2 DEF RemoverInv, InitialStateIsShared
<1> QED
  BY <1>3, <1>4, <1>5, <1>6, <1>7, <1>8, <1>9 DEF RemoverInv

LEMMA BlockInv ==
    ASSUME RemoverInv, NEW jump \in BOOLEAN, NEW active \in BOOLEAN, NEW poor \in BOOLEAN,
           NEW adjusted \in BOOLEAN, NEW worse \in BOOLEAN,
           Block(jump, active, poor, adjusted, worse)
    PROVE  /\ RemoverInv'
           /\ jump => initial_state'.active \/ initial_state'.triggered
           /\ initial_state.triggered =>
                ~suppressor' /\ \A f \in Filters : gain'[f].config # "initial"
<1> DEFINE exit == initial_state.triggered
           acts == ActsOnGain
           saturated == SaturatedAfter(jump)
           filters == [f \in Filters |-> FilterAfterExit(f, FilterAfterJump(f, jump), exit)]
           gains == [f \in Filters |-> GainAfterExit(GainAfterJump(f, jump, acts), exit)]
           SeenType == [jump : BOOLEAN, good : BOOLEAN, since : 0 .. Longest + 1, mixed : BOOLEAN,
                        hasty : BOOLEAN, acted : 0 .. 3, missed : BOOLEAN]
<1>1. /\ frame \in [left : 0 .. 3, long : BOOLEAN, flagged : BOOLEAN, saturated : BOOLEAN]
      /\ hangover \in 0 .. 2 /\ suppressor \in BOOLEAN /\ seen \in SeenType
      /\ initial_state \in [active : BOOLEAN, triggered : BOOLEAN, blocks : 0 .. InitialBlocks]
      /\ FiltersTypeOK /\ FiltersSound /\ LevelInv /\ CallsInv /\ StateInv
      /\ LearnsWhenSound /\ InitialStateIsShared
  BY DEF RemoverInv, RemoverTypeOK
<1>2. /\ frame.left > 0 /\ frame' = [frame EXCEPT !.left = @ - 1]
      /\ hangover' = HangoverAfter /\ suppressor' = SuppressorAfter(jump)
      /\ SubtractorProcess(filters, gains, saturated, poor, adjusted, worse)
      /\ initial_state' = Update(AfterJump(initial_state, jump), active /\ ~saturated)
      /\ seen' = [jump |-> jump, good |-> active /\ ~frame.saturated,
                  since |-> IF jump THEN 1 ELSE Least(seen.since + 1, Longest + 1),
                  mixed |-> IF jump THEN acts ELSE seen.mixed,
                  hasty |-> IF jump THEN exit ELSE seen.hasty,
                  acted |-> seen.acted + (IF acts THEN 1 ELSE 0),
                  missed |-> seen.missed]
  BY DEF Block, ProcessCapture
<1>3. /\ exit \in BOOLEAN
      /\ acts = (frame.flagged /\ hangover = 0) /\ acts \in BOOLEAN
      /\ saturated = (frame.saturated /\ ~jump) /\ saturated \in BOOLEAN
  BY <1>1 DEF ActsOnGain, SaturatedAfter
<1>4. /\ seen'.jump = jump /\ seen'.good = (active /\ ~frame.saturated)
      /\ seen'.since = (IF jump THEN 1 ELSE Least(seen.since + 1, Longest + 1))
      /\ seen'.mixed = (IF jump THEN acts ELSE seen.mixed)
      /\ seen'.hasty = (IF jump THEN exit ELSE seen.hasty)
      /\ seen'.acted = seen.acted + (IF acts THEN 1 ELSE 0)
      /\ seen'.missed = seen.missed
      /\ frame'.left = frame.left - 1 /\ frame'.long = frame.long
      /\ frame'.flagged = frame.flagged /\ frame'.saturated = frame.saturated
  BY <1>1, <1>2
<1> HIDE DEF exit, acts, saturated
<1>5. ASSUME NEW f \in Filters
      PROVE  /\ filters[f] \in FilterType(f) /\ Sound(filters[f])
             /\ filters[f].target = IF exit THEN FullLength[f]
                                    ELSE IF jump THEN InitialLength[f] ELSE filter[f].target
  <2> DEFINE moved == FilterAfterJump(f, jump)
  <2>1. filter[f] \in FilterType(f) /\ Sound(filter[f])
    BY <1>1 DEF FiltersTypeOK, FiltersSound
  <2>2. /\ moved \in FilterType(f) /\ Sound(moved)
        /\ moved.target = IF jump THEN InitialLength[f] ELSE filter[f].target
    <3>1. CASE jump
      <4>1. ClearUnused(f, filter[f]) \in FilterType(f) /\ Sound(ClearUnused(f, filter[f]))
        BY <2>1, ClearUnusedSound
      <4>2. InitialLength[f] \in Lengths(f)
        BY LengthsArePositive
      <4>3. moved = SetSize(ClearUnused(f, filter[f]), InitialLength[f])
        BY <3>1 DEF FilterAfterJump
      <4> HIDE DEF moved
      <4> QED
        BY <3>1, <4>1, <4>2, <4>3, SetSizeSound
    <3>2. CASE ~jump
      BY <2>1, <3>2 DEF FilterAfterJump
    <3> QED
      BY <3>1, <3>2
  <2>3. filters[f] = IF exit THEN SetTarget(moved, FullLength[f]) ELSE moved
    BY DEF FilterAfterExit
  <2> HIDE DEF moved, filters
  <2>4. FullLength[f] \in Lengths(f)
    BY LengthsArePositive
  <2> QED
    BY <1>3, <2>2, <2>3, <2>4, SetTargetSound
<1>6. ASSUME NEW f \in Filters
      PROVE  /\ gains[f] \in GainType(f)
             /\ gains[f].config = IF exit THEN "normal"
                                  ELSE IF jump THEN "initial" ELSE gain[f].config
             /\ gains[f].calls = IF jump /\ ~(f = "refined" /\ acts) THEN 0 ELSE gain[f].calls
  <2> DEFINE moved == GainAfterJump(f, jump, acts)
  <2>1. gain[f] \in GainType(f)
    BY <1>1 DEF FiltersTypeOK
  <2>2. /\ moved \in GainType(f)
        /\ moved.config = IF jump THEN "initial" ELSE gain[f].config
        /\ moved.calls = IF jump /\ ~(f = "refined" /\ acts) THEN 0 ELSE gain[f].calls
    <3>1. /\ 0 \in 0 .. Enough(f) /\ 0 \in 0 .. FullLength[f]
          /\ FullLength[f] \in 0 .. FullLength[f]
      BY LengthsArePositive, SMT DEF Enough
    <3>2. CASE ~jump
      BY <2>1, <3>2 DEF GainAfterJump
    <3>3. CASE jump /\ f = "refined" /\ acts
      BY <2>1, <3>1, <3>3 DEF GainAfterJump, RefinedAfterChange, SetConfig, GainType
    <3>4. CASE jump /\ f = "refined" /\ ~acts
      BY <2>1, <3>1, <3>4 DEF GainAfterJump, RefinedAfterChange, SetConfig, GainType
    <3>5. CASE jump /\ f # "refined"
      BY <2>1, <3>1, <3>5 DEF GainAfterJump, CoarseAfterChange, SetConfig, GainType
    <3> QED
      BY <3>2, <3>3, <3>4, <3>5
  <2>3. gains[f] = GainAfterExit(moved, exit)
    OBVIOUS
  <2> HIDE DEF moved, gains
  <2> QED
    BY <1>3, <2>2, <2>3, GainAfterExitType
<1> HIDE DEF filters, gains
<1>7. /\ poor_coarse' \in 0 .. PoorBlocks - 1 /\ learnt' \subseteq Filters
      /\ \A f \in Filters :
            /\ filter'[f] \in FilterType(f) /\ Sound(filter'[f])
            /\ filter'[f].target = filters[f].target
            /\ gain'[f] \in GainType(f) /\ gain'[f].config = gains[f].config
            /\ gain'[f].calls <= gains[f].calls + 1
            /\ f \in learnt' => ~saturated /\ gain'[f].calls > filters[f].size
  <2>1. \A f \in Filters : /\ filters[f] \in FilterType(f) /\ Sound(filters[f])
                           /\ gains[f] \in GainType(f)
    BY <1>5, <1>6
  <2>2. FiltersTypeOK /\ SubtractorProcess(filters, gains, saturated, poor, adjusted, worse)
    BY <1>1, <1>2
  <2> QED
    BY <2>1, <2>2, ProcessKeeps, Zenon
<1>8. /\ (initial_state'.active \/ initial_state'.triggered) <=> (jump \/ initial_state.active)
      /\ StateInv' /\ initial_state' \in [active : BOOLEAN, triggered : BOOLEAN, blocks : 0 .. InitialBlocks]
  <2>1. /\ initial_state'.triggered => ~initial_state'.active
        /\ ~initial_state'.active => initial_state'.blocks = InitialBlocks
        /\ initial_state' \in [active : BOOLEAN, triggered : BOOLEAN, blocks : 0 .. InitialBlocks]
        /\ (initial_state'.active \/ initial_state'.triggered) <=> (jump \/ initial_state.active)
    <3> DEFINE state == AfterJump(initial_state, jump)
               blocks == Least(state.blocks + (IF active /\ ~saturated THEN 1 ELSE 0), InitialBlocks)
    <3>1. state \in [active : BOOLEAN, triggered : BOOLEAN, blocks : 0 .. InitialBlocks]
      <4>1. 0 \in 0 .. InitialBlocks
        BY EchoRemoverAssumption, SMT
      <4> QED
        BY <1>1, <4>1 DEF AfterJump
    <3>2. initial_state' = [active |-> blocks < InitialBlocks, blocks |-> blocks,
                            triggered |-> ~(blocks < InitialBlocks) /\ state.active]
      BY <1>2 DEF Update
    <3>9. /\ state.active <=> jump \/ initial_state.active
          /\ state.active \in BOOLEAN
          /\ ~state.active => state.blocks = InitialBlocks
      BY <1>1 DEF AfterJump, StateInv
    <3> HIDE DEF state
    <3>3. state.blocks \in 0 .. InitialBlocks /\ InitialBlocks \in Nat
      BY <3>1, EchoRemoverAssumption
    <3>4. /\ blocks \in 0 .. InitialBlocks
          /\ ~(blocks < InitialBlocks) => blocks = InitialBlocks
          /\ state.blocks = InitialBlocks => ~(blocks < InitialBlocks)
      BY <3>3, SMT DEF Least
    <3> HIDE DEF blocks
    <3>5. CASE blocks < InitialBlocks
      <4>1. initial_state' = [active |-> TRUE, blocks |-> blocks, triggered |-> FALSE]
        BY <3>2, <3>5
      <4>2. initial_state'.active = TRUE /\ initial_state'.triggered = FALSE
            /\ initial_state'.blocks = blocks
        BY <4>1
      <4> QED
        BY <3>4, <3>5, <3>9, <4>1, <4>2
    <3>6. CASE ~(blocks < InitialBlocks)
      <4>1. CASE state.active
        <5>1. initial_state' = [active |-> FALSE, blocks |-> blocks, triggered |-> TRUE]
          <6>1. (blocks < InitialBlocks) = FALSE
            BY <3>3, <3>4, <3>6, SMT
          <6>2. (~(blocks < InitialBlocks) /\ state.active) = TRUE
            BY <3>6, <4>1, Zenon
          <6> QED
            BY <3>2, <6>1, <6>2, Zenon
        <5> QED
          BY <3>4, <3>6, <3>9, <4>1, <5>1
      <4>2. CASE ~state.active
        <5>1. initial_state' = [active |-> FALSE, blocks |-> blocks, triggered |-> FALSE]
          <6>1. (blocks < InitialBlocks) = FALSE
            BY <3>3, <3>4, <3>6, SMT
          <6>2. (~(blocks < InitialBlocks) /\ state.active) = FALSE
            BY <3>6, <4>2, Zenon
          <6> QED
            BY <3>2, <6>1, <6>2, Zenon
        <5> QED
          BY <3>4, <3>6, <3>9, <4>2, <5>1
      <4> QED
        BY <4>1, <4>2
    <3> QED
      BY <3>5, <3>6
  <2> QED
    BY <2>1 DEF StateInv
<1>9. FiltersSound' /\ FiltersTypeOK'
  BY <1>7 DEF FiltersSound, FiltersTypeOK
<1>10. hangover' \in 0 .. 2 /\ LevelInv'
  <2>1. /\ frame.left \in Nat /\ hangover \in 0 .. 2 /\ seen.acted \in {0, 1}
        /\ FrameBlocks' = FrameBlocks /\ FrameBlocks \in {2, 3} /\ frame.left <= FrameBlocks
    BY <1>1, <1>4 DEF LevelInv, FrameBlocks
  <2>2. CASE acts
    <3>1. frame.flagged /\ hangover = 0 /\ hangover' = 2
      <4>1. ActsOnGain
        BY <2>2 DEF acts
      <4>2. hangover' = kMaxBlocksPerFrame - 1
        BY <1>2, <4>1 DEF HangoverAfter
      <4> QED
        BY <4>1, <4>2, SMT DEF ActsOnGain, kMaxBlocksPerFrame
    <3>2. seen.acted = 0
      BY <1>1, <1>2, <2>1, <3>1, SMT DEF LevelInv
    <3>3. seen'.acted = 1
      BY <1>4, <2>2, <3>2
    <3>4. hangover' >= frame'.left /\ frame'.left <= FrameBlocks'
      BY <1>4, <2>1, <3>1, SMT
    <3> QED
      BY <3>1, <3>3, <3>4 DEF LevelInv
  <2>3. CASE ~acts
    <3>1. hangover' = IF hangover > 0 THEN hangover - 1 ELSE 0
      BY <1>2, <2>3 DEF HangoverAfter, acts
    <3>2. seen'.acted = seen.acted
      BY <1>4, <2>1, <2>3, SMT
    <3>3. hangover' \in 0 .. 2 /\ frame'.left <= FrameBlocks' /\ seen'.acted \in {0, 1}
      BY <1>4, <2>1, <3>1, <3>2, SMT
    <3>4. seen'.acted = 1 => hangover' >= frame'.left
      BY <1>1, <1>4, <2>1, <3>1, <3>2, SMT DEF LevelInv
    <3>5. ASSUME frame'.flagged, seen'.acted = 0
          PROVE  hangover' + FrameBlocks' - frame'.left <= 2
      <4>1. hangover > 0 /\ hangover + FrameBlocks - frame.left <= 2
        <5>1. frame.flagged /\ seen.acted = 0
          BY <1>4, <3>2, <3>5
        <5>2. hangover # 0
          BY <1>3, <2>3, <5>1
        <5>3. hangover + FrameBlocks - frame.left <= 2
          BY <1>1, <5>1 DEF LevelInv
        <5> QED
          BY <2>1, <5>2, <5>3, SMT
      <4> QED
        BY <1>4, <2>1, <3>1, <4>1, SMT
    <3>6. ~(seen'.missed /\ frame'.flagged /\ seen'.acted = 0)
      BY <1>1, <1>3, <1>4, <2>3, <3>2 DEF LevelInv
    <3> QED
      BY <3>3, <3>4, <3>5, <3>6 DEF LevelInv
  <2> QED
    BY <2>2, <2>3
<1>11. CallsInv' /\ LearnsWhenSound'
  <2>1. ASSUME NEW f \in Filters
        PROVE  /\ \/ gain'[f].calls <= seen'.since
                  \/ seen'.since > InitialLength[f]
                  \/ f = "refined" /\ seen'.mixed
               /\ f \in learnt' =>
                    \/ seen'.since > InitialLength[f] /\ ~frame'.saturated
                    \/ f = "refined" /\ seen'.mixed /\ (frame'.saturated => seen'.jump)
    <3>1. /\ InitialLength[f] \in Nat /\ InitialLength[f] >= 1 /\ InitialLength[f] <= Longest
          /\ Longest \in Nat /\ seen.since \in Nat
      BY <1>1, LongestIsLongest, LengthsArePositive
    <3>2. gain[f].calls \in Nat /\ gain'[f].calls \in Nat /\ gains[f].calls \in Nat
      <4>1. gain[f] \in GainType(f) /\ gain'[f] \in GainType(f) /\ gains[f] \in GainType(f)
        BY <1>1, <1>6, <1>7 DEF FiltersTypeOK
      <4> QED
        BY <4>1, LengthsArePositive, SMT DEF GainType, Enough
    <3>3. filters[f].size \in Nat /\ filters[f].size >= InitialLength[f]
      BY <1>5, LengthsArePositive DEF FilterType
    <3>4. f \in learnt' => gain'[f].calls > InitialLength[f] /\ (frame'.saturated => seen'.jump)
      <4>1. f \in learnt' => ~saturated /\ gain'[f].calls > filters[f].size
        BY <1>7
      <4>2. ~saturated => (frame'.saturated => seen'.jump)
        BY <1>3, <1>4
      <4> QED
        BY <3>1, <3>2, <3>3, <4>1, <4>2, SMT
    <3>5. gain'[f].calls <= gains[f].calls + 1
      BY <1>7
    <3>6. CASE f = "refined" /\ seen'.mixed
      BY <3>4, <3>6
    <3>7. CASE ~(f = "refined" /\ seen'.mixed) /\ jump
      <4>1. gains[f].calls = 0 /\ seen'.since = 1
        BY <1>4, <1>6, <3>7
      <4> QED
        BY <3>1, <3>2, <3>4, <3>5, <4>1, SMT
    <3>8. CASE ~(f = "refined" /\ seen'.mixed) /\ ~jump
      <4>1. gains[f].calls = gain[f].calls /\ seen'.since = Least(seen.since + 1, Longest + 1)
            /\ ~(f = "refined" /\ seen.mixed) /\ seen'.jump = FALSE
        BY <1>4, <1>6, <3>8
      <4>2. gain[f].calls <= seen.since \/ seen.since > InitialLength[f]
        BY <1>1, <4>1 DEF CallsInv
      <4>3. gain'[f].calls <= seen'.since \/ seen'.since > InitialLength[f]
        BY <3>1, <3>2, <3>5, <4>1, <4>2, SMT DEF Least
      <4>4. seen'.since \in Nat
        BY <3>1, <4>1, SMT DEF Least
      <4>5. gain'[f].calls > InitialLength[f] => seen'.since > InitialLength[f]
        BY <3>1, <3>2, <4>3, <4>4, SMT
      <4> QED
        BY <3>4, <4>1, <4>3, <4>5
    <3> QED
      BY <3>6, <3>7, <3>8
  <2>2. learnt' \subseteq Filters
    BY <1>7
  <2> QED
    BY <2>1, <2>2 DEF CallsInv, LearnsWhenSound
<1>12. suppressor' \in BOOLEAN /\ suppressor' = IF exit THEN FALSE ELSE jump \/ suppressor
  BY <1>1, <1>2 DEF SuppressorAfter, exit
<1>13. InitialStateIsShared'
  <2> DEFINE later == initial_state'.active \/ initial_state'.triggered
  <2>1. ASSUME ~seen'.hasty
        PROVE  /\ suppressor' <=> later
               /\ \A f \in Filters : /\ gains[f].config = "initial" <=> later
                                     /\ later => filters[f].target = InitialLength[f]
                                     /\ ~later => filters[f].target = FullLength[f]
    <3>1. CASE jump
      <4>1. ~exit /\ later
        BY <1>4, <1>8, <2>1, <3>1
      <4> HIDE DEF later
      <4> QED
        BY <1>5, <1>6, <1>12, <3>1, <4>1
    <3>2. CASE ~jump /\ exit
      <4>1. ~later
        BY <1>1, <1>8, <3>2 DEF StateInv, exit
      <4> HIDE DEF later
      <4> QED
        BY <1>5, <1>6, <1>12, <3>2, <4>1
    <3>3. CASE ~jump /\ ~exit
      <4>1. ~seen.hasty
        BY <1>4, <2>1, <3>3
      <4>2. (initial_state.active \/ initial_state.triggered) <=> later
        BY <1>1, <1>8, <3>3 DEF exit
      <4>3. /\ suppressor <=> later
            /\ \A f \in Filters : /\ gain[f].config = "initial" <=> later
                                  /\ later => filter[f].target = InitialLength[f]
                                  /\ ~later => filter[f].target = FullLength[f]
        BY <1>1, <4>1, <4>2 DEF InitialStateIsShared
      <4> HIDE DEF later
      <4> QED
        BY <1>5, <1>6, <1>12, <3>3, <4>3
    <3> QED
      BY <3>1, <3>2, <3>3
  <2>2. \A f \in Filters : gain'[f].config = gains[f].config /\ filter'[f].target = filters[f].target
    BY <1>7
  <2> QED
    BY <2>1, <2>2 DEF InitialStateIsShared
<1>14. seen' \in SeenType
  <2>1. seen'.since \in 0 .. Longest + 1
    <3>1. Longest \in Nat /\ seen.since \in 0 .. Longest + 1
      BY <1>1, LongestIsLongest
    <3>2. Least(seen.since + 1, Longest + 1) \in 0 .. Longest + 1 /\ 1 \in 0 .. Longest + 1
      BY <3>1, SMT DEF Least
    <3> QED
      BY <1>4, <3>2
  <2>2. seen'.acted \in 0 .. 3
    <3>1. seen'.acted \in {0, 1}
      BY <1>10 DEF LevelInv
    <3> QED
      BY <3>1, SMT
  <2>3. /\ seen'.jump \in BOOLEAN /\ seen'.good \in BOOLEAN /\ seen'.mixed \in BOOLEAN
        /\ seen'.hasty \in BOOLEAN /\ seen'.missed \in BOOLEAN
    BY <1>1, <1>3, <1>4
  <2>4. seen' = [jump |-> seen'.jump, good |-> seen'.good, since |-> seen'.since,
                 mixed |-> seen'.mixed, hasty |-> seen'.hasty, acted |-> seen'.acted,
                 missed |-> seen'.missed]
    BY <1>2
  <2> QED
    BY <2>1, <2>2, <2>3, <2>4
<1>15. frame' \in [left : 0 .. 3, long : BOOLEAN, flagged : BOOLEAN, saturated : BOOLEAN]
  <2>1. frame.left - 1 \in 0 .. 3
    BY <1>1, <1>2, SMT
  <2> QED
    BY <1>1, <1>2, <2>1
<1>16. RemoverInv'
  BY <1>7, <1>8, <1>9, <1>10, <1>11, <1>12, <1>13, <1>14, <1>15 DEF RemoverInv, RemoverTypeOK
<1>17. ASSUME exit PROVE ~suppressor' /\ \A f \in Filters : gain'[f].config # "initial"
  BY <1>6, <1>7, <1>12, <1>17
<1> QED
  BY <1>8, <1>16, <1>17 DEF exit

LEMMA RemoverNextInv == RemoverInv /\ [RemoverNext]_removervars => RemoverInv'
<1> SUFFICES ASSUME RemoverInv, [RemoverNext]_removervars PROVE RemoverInv'
  OBVIOUS
<1>1. CASE RemoverBlock
  BY <1>1, BlockInv DEF RemoverBlock
<1>2. CASE \E level_change, saturated \in BOOLEAN : NextFrame(level_change, saturated)
  BY <1>2, NextFrameInv
<1>3. CASE UNCHANGED removervars
  <2> USE <1>3 DEF removervars, filtervars
  <2>1. RemoverTypeOK'
    BY DEF RemoverInv, RemoverTypeOK, FiltersTypeOK
  <2>2. FiltersSound' /\ CallsInv' /\ StateInv'
    BY DEF RemoverInv, FiltersSound, CallsInv, StateInv
  <2>3. LevelInv'
    BY DEF RemoverInv, LevelInv, FrameBlocks
  <2>4. LearnsWhenSound'
    BY DEF RemoverInv, LearnsWhenSound
  <2>5. InitialStateIsShared'
    BY DEF RemoverInv, InitialStateIsShared
  <2> QED
    BY <2>1, <2>2, <2>3, <2>4, <2>5 DEF RemoverInv
<1> QED
  BY <1>1, <1>2, <1>3 DEF RemoverNext

\* The inductive invariant: a filter changes its size only at its end, the
\* hangover outlasts the blocks left of a frame whose level change was acted
\* on, and a gain counts no more calls than blocks since the delay changed.
THEOREM RemoverInvariant == RemoverSpec => []RemoverInv
BY RemoverInitInv, RemoverNextInv, PTL DEF RemoverSpec

\* Sizes, targets and counters of the filters, their gains, the hangover and
\* the initial state stay in their ranges.
THEOREM RemoverTypeCorrect == RemoverSpec => []RemoverTypeOK
BY RemoverInvariant, PTL DEF RemoverInv

\* A filter that is shortened and grows again, at whatever sizes and however
\* often its size changes on the way, has no partition in use that holds
\* coefficients of an earlier delay.
THEOREM FiltersAreSound == RemoverSpec => []PartitionsInUseAreSound
<1>1. RemoverInv => PartitionsInUseAreSound
  BY DEF RemoverInv, FiltersSound, Sound, PartitionsInUseAreSound
<1> QED
  BY <1>1, RemoverInvariant, PTL

\* A change of the level is acted on once in its frame at most, and of two in
\* a row at least one is, however 2 and 3 blocks alternate.
THEOREM GainChangesActedOn == RemoverSpec => []GainChangesAreActedOn
<1>1. RemoverInv => GainChangesAreActedOn
  BY DEF RemoverInv, LevelInv, GainChangesAreActedOn
<1> QED
  BY <1>1, RemoverInvariant, PTL

\* Filters of any length learn from no saturated block nor from their first
\* blocks after a change of the delay, but for the refined one after a change
\* of the level in the same block.
THEOREM LearnsSound == RemoverSpec => []LearnsWhenSound
BY RemoverInvariant, PTL DEF RemoverInv

\* Filters, gains and suppressor enter and leave the initial state together, as
\* long as no change of the delay follows a transition at once.
THEOREM InitialStateShared == RemoverSpec => []InitialStateIsShared
BY RemoverInvariant, PTL DEF RemoverInv

-----------------------------------------------------------------------------
(* The end of the initial state: all of InitialStateEnds but that frames   *)
(* keep coming.                                                            *)

\* Good blocks still to come before the initial state ends, and blocks before a
\* filter has the length it is growing to.
InitialLeft == IF initial_state.active THEN InitialBlocks - initial_state.blocks ELSE 0
GrowthLeft(f) == filter[f].counter

\* The initial state lasts as long as there are good blocks to wait for; once it
\* has ended and its end was acted on the suppressor has left it too, and a
\* filter with no block to wait for has its full length.
InitialBounded ==
    /\ InitialLeft \in 0 .. InitialBlocks
    /\ initial_state.active <=> InitialLeft > 0
    /\ ~initial_state.active /\ ~initial_state.triggered =>
         ~suppressor /\ \A f \in Filters : GrowthLeft(f) = 0 => filter[f].size = FullLength[f]

\* While the delay does not change each good block is one less to wait for and no
\* block takes one back, whatever the level and the saturation do in between; the
\* block after the last one starts the growth, and from then on every block
\* shortens what is left of it.
InitialStateApproaches ==
    [][/\ frame.left # 0 /\ ~seen'.jump =>
            IF initial_state.active
            THEN /\ InitialLeft' = InitialLeft - (IF seen'.good THEN 1 ELSE 0)
                 /\ ~initial_state'.active => initial_state'.triggered
            ELSE /\ ~initial_state'.active /\ ~initial_state'.triggered
                 /\ \A f \in Filters :
                      GrowthLeft(f)' = IF initial_state.triggered THEN ChangeBlocks - 1
                                       ELSE IF GrowthLeft(f) > 0 THEN GrowthLeft(f) - 1 ELSE 0
       /\ frame.left = 0 => UNCHANGED <<initial_state, suppressor, filter>>]_removervars

\* What the initial state of the last two blocks tells of the rest.
EndedInv ==
    /\ initial_state.active => initial_state.blocks < InitialBlocks
    /\ ~initial_state.active /\ ~initial_state.triggered =>
         ~suppressor /\ \A f \in Filters : filter[f].target = FullLength[f]

StateType == [active : BOOLEAN, triggered : BOOLEAN, blocks : 0 .. InitialBlocks]

LEMMA UpdateCounts ==
    ASSUME NEW state \in StateType, NEW good \in BOOLEAN, NEW next, next = Update(state, good),
           state.active => state.blocks < InitialBlocks,
           ~state.active => state.blocks = InitialBlocks
    PROVE  /\ next.blocks = IF state.active /\ good THEN state.blocks + 1 ELSE state.blocks
           /\ next.active <=> next.blocks < InitialBlocks
           /\ next.triggered <=> ~next.active /\ state.active
<1> DEFINE blocks == Least(state.blocks + (IF good THEN 1 ELSE 0), InitialBlocks)
<1>1. next = [active |-> blocks < InitialBlocks, blocks |-> blocks,
              triggered |-> ~(blocks < InitialBlocks) /\ state.active]
  BY DEF Update
<1>2. state.blocks \in 0 .. InitialBlocks /\ InitialBlocks \in Nat /\ state.active \in BOOLEAN
  BY EchoRemoverAssumption DEF StateType
<1>3. blocks = IF state.active /\ good THEN state.blocks + 1 ELSE state.blocks
  <2>1. CASE good
    <3>1. CASE state.active
      BY <1>2, <2>1, <3>1, SMT DEF Least
    <3>2. CASE ~state.active
      BY <1>2, <2>1, <3>2, SMT DEF Least
    <3> QED
      BY <3>1, <3>2
  <2>2. CASE ~good
    BY <1>2, <2>2, SMT DEF Least
  <2> QED
    BY <2>1, <2>2
<1> HIDE DEF blocks
<1>4. /\ next.blocks = blocks
      /\ next.active = (blocks < InitialBlocks)
      /\ next.triggered = (~(blocks < InitialBlocks) /\ state.active)
  <2> DEFINE a == blocks < InitialBlocks
             t == ~(blocks < InitialBlocks) /\ state.active
  <2>1. next = [active |-> a, blocks |-> blocks, triggered |-> t]
    BY <1>1
  <2> HIDE DEF a, t
  <2>2. next.blocks = blocks /\ next.active = a /\ next.triggered = t
    BY <2>1
  <2> QED
    BY <2>2 DEF a, t
<1> QED
  BY <1>3, <1>4

\* The filters' counters after a block of the subtractor.
LEMMA ProcessCounts ==
    ASSUME NEW filters, NEW gains, \A f \in Filters : filters[f] \in FilterType(f),
           NEW saturated, NEW poor, NEW adjusted, NEW worse,
           SubtractorProcess(filters, gains, saturated, poor, adjusted, worse)
    PROVE  \A f \in Filters :
               /\ filter'[f].counter = IF filters[f].counter > 0 THEN filters[f].counter - 1 ELSE 0
               /\ filter'[f].target = filters[f].target
<1>1. ASSUME NEW f \in Filters, NEW fl \in FilterType(f)
      PROVE  /\ Adapt(fl).counter = IF fl.counter > 0 THEN fl.counter - 1 ELSE 0
             /\ Adapt(fl).target = fl.target
  BY DEF Adapt, UpdateSize, Constrained, FilterType
<1>2. ASSUME NEW fl \in FilterType("coarse"), NEW other
      PROVE  /\ Adapt(SetFilter(fl, other)).counter = IF fl.counter > 0 THEN fl.counter - 1 ELSE 0
             /\ Adapt(SetFilter(fl, other)).target = fl.target
  <2>1. /\ SetFilter(fl, other).counter = fl.counter
        /\ SetFilter(fl, other).target = fl.target
    BY DEF SetFilter, FilterType
  <2>2. SetFilter(fl, other) = [fl EXCEPT !.stale = SetFilter(fl, other).stale]
    BY DEF SetFilter, FilterType
  <2> DEFINE moved == SetFilter(fl, other)
  <2>3. moved \in [size : Lengths("coarse"), target : Lengths("coarse"),
                   old_target : Lengths("coarse"), counter : 0 .. ChangeBlocks,
                   constrain : Nat, stale : {moved.stale}]
    BY <2>2 DEF FilterType
  <2> HIDE DEF moved
  <2>4. /\ Adapt(moved).counter = IF moved.counter > 0 THEN moved.counter - 1 ELSE 0
        /\ Adapt(moved).target = moved.target
    BY <2>3 DEF Adapt, UpdateSize, Constrained
  <2> QED
    BY <2>1, <2>4 DEF moved
<1>3. filters["refined"] \in FilterType("refined") /\ filters["coarse"] \in FilterType("coarse")
  BY DEF Filters
<1> DEFINE replaced == (IF worse THEN poor_coarse + 1 ELSE 0) = PoorBlocks
<1>4. PICK refined, coarse :
          /\ refined = RefinedProcess(filters.refined, gains.refined, saturated, poor, adjusted)
          /\ coarse = CoarseProcess(filters.coarse, gains.coarse, refined.filter,
                                    saturated, poor, replaced)
          /\ filter' = [refined |-> refined.filter, coarse |-> coarse.filter]
  BY Zenon DEF SubtractorProcess
<1> HIDE DEF replaced
<1>5. filter'["refined"] = Adapt(filters["refined"])
  BY <1>4 DEF RefinedProcess
<1>6. filter'["coarse"] = Adapt(IF replaced THEN SetFilter(filters["coarse"], refined.filter)
                                ELSE filters["coarse"])
  BY <1>4 DEF CoarseProcess
<1>7. /\ filter'["coarse"].counter = IF filters["coarse"].counter > 0
                                     THEN filters["coarse"].counter - 1 ELSE 0
      /\ filter'["coarse"].target = filters["coarse"].target
  <2>1. CASE replaced
    BY <1>2, <1>3, <1>6, <2>1
  <2>2. CASE ~replaced
    BY <1>1, <1>3, <1>6, <2>2 DEF Filters
  <2> QED
    BY <2>1, <2>2
<1>8. /\ filter'["refined"].counter = IF filters["refined"].counter > 0
                                      THEN filters["refined"].counter - 1 ELSE 0
      /\ filter'["refined"].target = filters["refined"].target
  BY <1>1, <1>3, <1>5 DEF Filters
<1> QED
  BY <1>7, <1>8 DEF Filters

\* A block without a change of the delay.
LEMMA BlockApproaches ==
    ASSUME RemoverInv, EndedInv, NEW active \in BOOLEAN, NEW poor \in BOOLEAN,
           NEW adjusted \in BOOLEAN, NEW worse \in BOOLEAN,
           Block(FALSE, active, poor, adjusted, worse)
    PROVE  /\ EndedInv'
           /\ IF initial_state.active
              THEN /\ InitialLeft' = InitialLeft - (IF seen'.good THEN 1 ELSE 0)
                   /\ ~initial_state'.active => initial_state'.triggered
              ELSE /\ ~initial_state'.active /\ ~initial_state'.triggered
                   /\ \A f \in Filters :
                        GrowthLeft(f)' = IF initial_state.triggered THEN ChangeBlocks - 1
                                         ELSE IF GrowthLeft(f) > 0 THEN GrowthLeft(f) - 1 ELSE 0
<1> DEFINE exit == initial_state.triggered
           good == active /\ ~frame.saturated
           filters == [f \in Filters |-> FilterAfterExit(f, FilterAfterJump(f, FALSE), exit)]
           gains == [f \in Filters |-> GainAfterExit(GainAfterJump(f, FALSE, ActsOnGain), exit)]
<1>1. /\ initial_state \in StateType /\ FiltersTypeOK /\ StateInv
      /\ good \in BOOLEAN /\ exit \in BOOLEAN /\ suppressor \in BOOLEAN
  BY DEF RemoverInv, RemoverTypeOK, StateType
<1>2. /\ suppressor' = SuppressorAfter(FALSE)
      /\ SubtractorProcess(filters, gains, SaturatedAfter(FALSE), poor, adjusted, worse)
      /\ initial_state' = Update(AfterJump(initial_state, FALSE), active /\ ~SaturatedAfter(FALSE))
      /\ seen'.good = good
  BY DEF Block, ProcessCapture
<1>3. initial_state' = Update(initial_state, good)
  <2>1. (active /\ ~SaturatedAfter(FALSE)) = good
    BY <1>1 DEF SaturatedAfter
  <2>2. AfterJump(initial_state, FALSE) = initial_state
    BY DEF AfterJump
  <2> QED
    BY <1>2, <2>1, <2>2
<1>4. /\ initial_state'.blocks = IF initial_state.active /\ good THEN initial_state.blocks + 1
                                 ELSE initial_state.blocks
      /\ initial_state'.active <=> initial_state'.blocks < InitialBlocks
      /\ initial_state'.triggered <=> ~initial_state'.active /\ initial_state.active
  <2> HIDE DEF good
  <2> QED
    BY <1>1, <1>3, UpdateCounts DEF EndedInv, StateInv
<1>5. ASSUME NEW f \in Filters
      PROVE  /\ filters[f] \in FilterType(f)
             /\ filters[f].counter = IF exit THEN ChangeBlocks ELSE filter[f].counter
             /\ filters[f].target = IF exit THEN FullLength[f] ELSE filter[f].target
  <2>1. filter[f] \in FilterType(f) /\ FullLength[f] \in Lengths(f)
        /\ ChangeBlocks \in 0 .. ChangeBlocks
    BY <1>1, LengthsArePositive, AdaptiveFiltersAssumption DEF FiltersTypeOK
  <2>2. filters[f] = IF exit THEN SetTarget(filter[f], FullLength[f]) ELSE filter[f]
    BY DEF FilterAfterExit, FilterAfterJump
  <2> HIDE DEF filters, exit
  <2>3. CASE exit
    BY <2>1, <2>2, <2>3 DEF SetTarget, FilterType
  <2>4. CASE ~exit
    BY <2>1, <2>2, <2>4
  <2> QED
    BY <2>3, <2>4
<1> HIDE DEF filters, gains
<1>6. \A f \in Filters :
          /\ filter'[f].counter = IF filters[f].counter > 0 THEN filters[f].counter - 1 ELSE 0
          /\ filter'[f].target = filters[f].target
  BY <1>2, <1>5, ProcessCounts
<1>7. CASE initial_state.active
  <2>1. initial_state'.active \/ initial_state'.triggered
    BY <1>4, <1>7
  <2>2. EndedInv'
    BY <1>4, <2>1 DEF EndedInv
  <2>3. initial_state.blocks \in 0 .. InitialBlocks - 1 /\ InitialBlocks \in Nat
    BY <1>1, <1>7, EchoRemoverAssumption, SMT DEF EndedInv, StateType
  <2>4. InitialLeft' = InitialBlocks - initial_state'.blocks
    <3>1. CASE initial_state'.active
      BY <3>1 DEF InitialLeft
    <3>2. CASE ~initial_state'.active
      <4>1. initial_state'.blocks = InitialBlocks
        BY <1>4, <2>3, <3>2, SMT
      <4> QED
        BY <2>3, <3>2, <4>1 DEF InitialLeft
    <3> QED
      BY <3>1, <3>2
  <2>5. InitialLeft = InitialBlocks - initial_state.blocks
    BY <1>7 DEF InitialLeft
  <2>6. initial_state'.blocks = initial_state.blocks + (IF seen'.good THEN 1 ELSE 0)
    <3> HIDE DEF good
    <3>1. CASE good
      BY <1>2, <1>4, <1>7, <3>1
    <3>2. CASE ~good
      <4>1. seen'.good = FALSE
        BY <1>1, <1>2, <3>2
      <4>2. initial_state'.blocks = initial_state.blocks
        BY <1>4, <3>2
      <4> QED
        BY <2>3, <4>1, <4>2
    <3> QED
      BY <3>1, <3>2
  <2>7. InitialLeft' = InitialLeft - (IF seen'.good THEN 1 ELSE 0)
    BY <2>3, <2>4, <2>5, <2>6
  <2> QED
    BY <1>7, <2>1, <2>2, <2>7
<1>8. CASE ~initial_state.active
  <2>1. initial_state'.blocks = InitialBlocks /\ InitialBlocks \in Nat
    BY <1>1, <1>4, <1>8, EchoRemoverAssumption DEF StateInv
  <2>2. ~initial_state'.active /\ ~initial_state'.triggered
    BY <1>4, <1>8, <2>1
  <2>3. ~suppressor'
    <3>1. CASE exit
      BY <1>2, <3>1 DEF SuppressorAfter
    <3>2. CASE ~exit
      BY <1>2, <1>8, <3>2 DEF SuppressorAfter, EndedInv
    <3> QED
      BY <3>1, <3>2
  <2>4. \A f \in Filters : filter'[f].target = FullLength[f]
    BY <1>5, <1>6, <1>8 DEF EndedInv
  <2>5. ASSUME NEW f \in Filters
        PROVE  GrowthLeft(f)' = IF exit THEN ChangeBlocks - 1
                                ELSE IF GrowthLeft(f) > 0 THEN GrowthLeft(f) - 1 ELSE 0
    BY <1>5, <1>6, AdaptiveFiltersAssumption DEF GrowthLeft
  <2> QED
    BY <1>8, <2>2, <2>3, <2>4, <2>5 DEF EndedInv
<1> QED
  BY <1>7, <1>8

\* A block that changes the delay begins the initial state, or is itself enough
\* to end it.
LEMMA JumpEnded ==
    ASSUME RemoverInv, EndedInv, NEW active \in BOOLEAN, NEW poor \in BOOLEAN,
           NEW adjusted \in BOOLEAN, NEW worse \in BOOLEAN,
           Block(TRUE, active, poor, adjusted, worse)
    PROVE  EndedInv'
<1> DEFINE state == AfterJump(initial_state, TRUE)
           good == active /\ ~SaturatedAfter(TRUE)
<1>1. initial_state \in StateType
  BY DEF RemoverInv, RemoverTypeOK, StateType
<1>2. initial_state' = Update(state, good)
  BY DEF Block, ProcessCapture
<1>3. /\ state \in StateType /\ state.active = TRUE /\ state.blocks = 0
      /\ 0 < InitialBlocks /\ good \in BOOLEAN
  <2>1. 0 \in 0 .. InitialBlocks /\ 0 < InitialBlocks
    BY EchoRemoverAssumption, SMT
  <2> QED
    BY <1>1, <2>1 DEF AfterJump, StateType, SaturatedAfter
<1> HIDE DEF state, good
<1>4. /\ initial_state'.active <=> initial_state'.blocks < InitialBlocks
      /\ initial_state'.triggered <=> ~initial_state'.active
  BY <1>2, <1>3, UpdateCounts
<1> QED
  BY <1>4 DEF EndedInv

\* However the initial state was begun it ends after as many good blocks as it
\* takes, and the filters then grow to their full length, whatever the lengths.
THEOREM InitialStateComesToItsEnd == RemoverSpec => []InitialBounded /\ InitialStateApproaches
<1> DEFINE Approach ==
      /\ frame.left # 0 /\ ~seen'.jump =>
           IF initial_state.active
           THEN /\ InitialLeft' = InitialLeft - (IF seen'.good THEN 1 ELSE 0)
                /\ ~initial_state'.active => initial_state'.triggered
           ELSE /\ ~initial_state'.active /\ ~initial_state'.triggered
                /\ \A f \in Filters :
                     GrowthLeft(f)' = IF initial_state.triggered THEN ChangeBlocks - 1
                                      ELSE IF GrowthLeft(f) > 0 THEN GrowthLeft(f) - 1 ELSE 0
      /\ frame.left = 0 => UNCHANGED <<initial_state, suppressor, filter>>
<1>1. RemoverInit => EndedInv
  <2>1. 0 < InitialBlocks
    BY EchoRemoverAssumption, SMT
  <2> QED
    BY <2>1 DEF RemoverInit, EndedInv
<1>2. RemoverInv /\ EndedInv /\ [RemoverNext]_removervars => EndedInv' /\ [Approach]_removervars
  <2> SUFFICES ASSUME RemoverInv, EndedInv, [RemoverNext]_removervars
               PROVE  EndedInv' /\ [Approach]_removervars
    OBVIOUS
  <2>1. CASE UNCHANGED removervars
    BY <2>1 DEF removervars, filtervars, EndedInv
  <2>2. ASSUME NEW jump \in BOOLEAN, NEW active \in BOOLEAN, NEW poor \in BOOLEAN,
               NEW adjusted \in BOOLEAN, NEW worse \in BOOLEAN,
               Block(jump, active, poor, adjusted, worse)
        PROVE  EndedInv' /\ Approach
    <3>1. frame.left # 0 /\ seen'.jump = jump
      <4>1. frame.left > 0 /\ frame.left \in Nat
        BY <2>2, SMT DEF Block, RemoverInv, RemoverTypeOK
      <4> QED
        BY <2>2, <4>1 DEF Block
    <3>2. CASE jump
      <4>1. jump = TRUE
        BY <3>2
      <4>2. EndedInv'
        BY <2>2, <4>1, JumpEnded
      <4> QED
        BY <3>1, <3>2, <4>2
    <3>3. CASE ~jump
      <4>1. jump = FALSE
        BY <3>3
      <4> QED
        BY <2>2, <3>1, <4>1, BlockApproaches
    <3> QED
      BY <3>2, <3>3
  <2>3. CASE \E level_change, saturated \in BOOLEAN : NextFrame(level_change, saturated)
    <3>1. frame.left = 0 /\ UNCHANGED <<initial_state, suppressor, filter>>
      BY <2>3 DEF NextFrame
    <3> QED
      BY <3>1 DEF EndedInv
  <2> QED
    BY <2>1, <2>2, <2>3 DEF RemoverNext, RemoverBlock
<1>3. RemoverInv /\ EndedInv => InitialBounded
  <2> SUFFICES ASSUME RemoverInv, EndedInv PROVE InitialBounded
    OBVIOUS
  <2>1. initial_state \in StateType /\ InitialBlocks \in Nat
    BY EchoRemoverAssumption DEF RemoverInv, RemoverTypeOK, StateType
  <2>2. InitialLeft \in 0 .. InitialBlocks
    BY <2>1, SMT DEF InitialLeft, StateType
  <2>3. CASE initial_state.active
    <3>1. InitialLeft > 0
      BY <2>1, <2>3, SMT DEF InitialLeft, StateType, EndedInv
    <3> QED
      BY <2>2, <2>3, <3>1 DEF InitialBounded
  <2>4. CASE ~initial_state.active
    <3>1. ~(InitialLeft > 0)
      BY <2>4, SMT DEF InitialLeft
    <3>2. \A f \in Filters : filter[f].counter = 0 => filter[f].size = filter[f].target
      BY DEF RemoverInv, FiltersSound, Sound
    <3> QED
      BY <2>2, <2>4, <3>1, <3>2 DEF InitialBounded, EndedInv, GrowthLeft
  <2> QED
    BY <2>3, <2>4
<1> QED
  BY <1>1, <1>2, <1>3, RemoverInvariant, PTL DEF RemoverSpec, InitialStateApproaches

-----------------------------------------------------------------------------
(* How far a change of the delay misses the initial state.                 *)

\* After a change of the delay the suppressor and the filters are in their initial
\* state exactly if that change did not come in the block after a transition; if
\* it did, none of them is, for the state just entered is left in the same block.
ResetIsUndoneByTransition ==
    seen.jump =>
        /\ ResetBeginsInitialState <=> ~seen.hasty
        /\ seen.hasty => ~suppressor /\ \A f \in Filters : gain[f].config # "initial"

\* The block that changed the delay begins the initial state, or is itself enough
\* to end it; a transition found by that block takes the others out of it.
JumpInv ==
    seen.jump =>
        /\ initial_state.active \/ initial_state.triggered
        /\ seen.hasty => ~suppressor /\ \A f \in Filters : gain[f].config # "initial"

\* Whatever the lengths of the filters and of the initial state, only a change of
\* the delay in the very block after a transition misses the initial state.
THEOREM ResetUndone == RemoverSpec => []ResetIsUndoneByTransition
<1>1. RemoverInit => JumpInv
  BY DEF RemoverInit, JumpInv
<1>2. RemoverInv /\ JumpInv /\ [RemoverNext]_removervars => JumpInv'
  <2> SUFFICES ASSUME RemoverInv, JumpInv, [RemoverNext]_removervars PROVE JumpInv'
    OBVIOUS
  <2>1. CASE UNCHANGED removervars
    BY <2>1 DEF removervars, filtervars, JumpInv
  <2>2. ASSUME NEW jump \in BOOLEAN, NEW active \in BOOLEAN, NEW poor \in BOOLEAN,
               NEW adjusted \in BOOLEAN, NEW worse \in BOOLEAN,
               Block(jump, active, poor, adjusted, worse)
        PROVE  JumpInv'
    <3>1. seen'.jump = jump /\ seen'.hasty = IF jump THEN initial_state.triggered ELSE seen.hasty
      BY <2>2 DEF Block
    <3> QED
      BY <2>2, <3>1, BlockInv DEF JumpInv
  <2>3. CASE \E level_change, saturated \in BOOLEAN : NextFrame(level_change, saturated)
    <3>1. /\ UNCHANGED <<initial_state, suppressor, gain>>
          /\ seen'.jump = seen.jump /\ seen'.hasty = seen.hasty
      BY <2>3 DEF NextFrame, RemoverInv, RemoverTypeOK
    <3> QED
      BY <3>1 DEF JumpInv
  <2> QED
    BY <2>1, <2>2, <2>3 DEF RemoverNext, RemoverBlock
<1>3. RemoverInv /\ JumpInv => ResetIsUndoneByTransition
  <2> SUFFICES ASSUME RemoverInv, JumpInv, seen.jump
               PROVE  /\ ResetBeginsInitialState <=> ~seen.hasty
                      /\ seen.hasty => ~suppressor /\ \A f \in Filters : gain[f].config # "initial"
    BY DEF ResetIsUndoneByTransition
  <2>1. CASE seen.hasty
    BY <2>1 DEF JumpInv, ResetBeginsInitialState
  <2>2. CASE ~seen.hasty
    BY <2>2 DEF JumpInv, RemoverInv, InitialStateIsShared, ResetBeginsInitialState
  <2> QED
    BY <2>1, <2>2
<1> QED
  BY <1>1, <1>2, <1>3, RemoverInvariant, PTL DEF RemoverSpec

-----------------------------------------------------------------------------
(* The two together.                                                       *)

(* The delay control and the echo remover each run as they would alone.    *)
THEOREM BlocksComposed == BlocksSpec => Spec /\ RemoverSpec
<1>1. BlocksInit => Init /\ RemoverInit
  BY DEF BlocksInit
<1>2. [BlocksNext]_allvars => [Next]_vars
  BY DEF BlocksNext, allvars, Delay, Remover
<1>3. [BlocksNext]_allvars => [RemoverNext]_removervars
  BY DEF BlocksNext, allvars, Delay, Remover
<1> QED
  BY <1>1, <1>2, <1>3, PTL DEF BlocksSpec, Spec, RemoverSpec

(* So the safety properties of each are those of the whole.                *)
THEOREM BlocksSafe ==
    BlocksSpec => /\ [](HistogramMatchesData /\ DelayFollowsEstimate)
                  /\ [](PartitionsInUseAreSound /\ GainChangesAreActedOn)
                  /\ [](LearnsWhenSound /\ InitialStateIsShared)
                  /\ ImplementsEstimates
<1>1. BlocksSpec => []HistogramMatchesData /\ []DelayFollowsEstimate /\ ImplementsEstimates
  BY BlocksComposed, HistogramExact, DelayFollows, Implements
<1>2. BlocksSpec => /\ []PartitionsInUseAreSound /\ []GainChangesAreActedOn
                    /\ []LearnsWhenSound /\ []InitialStateIsShared
  BY BlocksComposed, FiltersAreSound, GainChangesActedOn, LearnsSound, InitialStateShared
<1> QED
  BY <1>1, <1>2, PTL
=============================================================================
