---------------------------- MODULE DelayControl ----------------------------
(***************************************************************************)
(* The delay control of echo canceller 3: the lags that a bank of matched  *)
(* filters reports (aec3/matched_filter.cc) are collected in a histogram   *)
(* (matched_filter_lag_aggregator.cc), whose peak becomes an estimate      *)
(* (echo_path_delay_estimator.cc), from which the delay of the render      *)
(* buffer follows with some hysteresis (render_delay_controller.cc) and    *)
(* drift between the clocks of the two sides is recognized                 *)
(* (clockdrift_detector.cc).                                               *)
(*                                                                         *)
(* The filters' coefficients are left out: for each block the bank reports *)
(* any lag it can find reliable, or none.  The ages of an estimate, which  *)
(* nothing reads, and the metrics are left out too.                        *)
(***************************************************************************)
EXTENDS Integers, FiniteSets

CONSTANTS NumFilters,       \* config.delay.num_filters
          FilterLength,     \* decimated samples a matched filter spans
          Shift,            \* from the start of one filter to the next one's
          Head, Tail,       \* lags at a filter's ends that are not reliable
          Window,           \* size of histogram_data_
          Initial,          \* delay_selection_thresholds.initial
          Converged,        \* delay_selection_thresholds.converged
          DownSampling,     \* config.delay.down_sampling_factor
          BlockSize,        \* kBlockSize
          Headroom,         \* config.delay.delay_headroom_samples
          Hysteresis,       \* config.delay.hysteresis_limit_blocks
          ConsistentBlocks, \* kNumBlocksPerSecondBy2
          StableBlocks      \* equal estimates after which a drift is forgotten

ASSUME DelayControlAssumption ==
    /\ NumFilters \in Nat \ {0} /\ FilterLength \in Nat /\ Shift \in Nat
    /\ Head \in Nat \ {0} /\ Tail \in Nat
    /\ Window \in Nat \ {0}
    /\ Initial \in Nat /\ Converged \in Nat /\ Initial <= Converged
    /\ DownSampling \in Nat \ {0} /\ BlockSize \in Nat \ {0}
    /\ Headroom \in Nat /\ Hysteresis \in Nat
    /\ ConsistentBlocks \in Nat /\ StableBlocks \in Nat

VARIABLES histogram, histogram_data, histogram_data_index,
          significant,   \* significant_candidate_found_
          old_lag,       \* old_aggregated_lag_, in decimated samples
          consistent,    \* consistent_estimate_counter_
          delay_samples, \* [lag, quality] of the last estimate
          delay,         \* blocks the render buffer is to be aligned to
          last_quality,  \* last_delay_estimate_quality_
          drift,         \* clockdrift_detector_
          reported       \* history: what the bank reported last, if asked

aggregator == <<histogram, histogram_data, histogram_data_index, significant>>
vars == <<aggregator, old_lag, consistent, delay_samples, delay,
          last_quality, drift, reported>>

None == -1
AfterReset == -2
NoEstimate == [lag |-> None, quality |-> "coarse"]

MaxLag == NumFilters * Shift + FilterLength    \* GetMaxFilterLag()
LagRange == 0 .. MaxLag
Slots == 0 .. Window - 1

-----------------------------------------------------------------------------
(* MatchedFilter::Update: a filter's peak counts but for its ends.         *)

Lags == {p + n * Shift : p \in {q \in 0 .. FilterLength - 1 :
                                   q > Head /\ q < FilterLength - Tail},
                         n \in 0 .. NumFilters - 1}

-----------------------------------------------------------------------------
(* MatchedFilterLagAggregator.                                             *)

EmptyHistogram == [l \in LagRange |-> 0]
EmptyData == [i \in Slots |-> 0]

\* One lag less, one lag more; they may be the same.
\* Fault: the lag that leaves the window stays counted.
CountedOnly(h, out, in) == [h EXCEPT ![in] = @ + 1]
Counted(h, out, in) == [[h EXCEPT ![out] = @ - 1] EXCEPT ![in] = @ + 1]

\* std::max_element: the first of the most frequent lags.
IsCandidate(h, l) == \A m \in LagRange : h[m] <= h[l] /\ (m < l => h[m] < h[l])

NextIndex(i) == (i + 1) % Window

Significant(count, found) == found \/ count > Converged

\* Aggregate: the estimate from a candidate that was found count times.
Aggregated(candidate, count, found) ==
    IF count > Converged \/ (count > Initial /\ ~found)
    THEN [lag |-> candidate, quality |-> IF found THEN "refined" ELSE "coarse"]
    ELSE NoEstimate

-----------------------------------------------------------------------------
(* ClockdriftDetector::Update.                                             *)

\* Whether two lags of the history lead to lag e in steps of one, in either
\* direction and with the last two swapped or not.
ProbableDrift(h, e, sign) ==
    \/ h[1] - e = -sign /\ h[2] - e = -2 * sign
    \/ h[1] - e = -2 * sign /\ h[2] - e = -sign

Drift(h, e, sign) == ProbableDrift(h, e, sign) /\ h[3] - e = -3 * sign

LevelAfter(h, e, level) ==
    IF Drift(h, e, 1) \/ Drift(h, e, -1) THEN "verified"
    ELSE IF (ProbableDrift(h, e, 1) \/ ProbableDrift(h, e, -1)) /\ level = "none"
    THEN "probable" ELSE level

\* Fault: a long stable time does not end a drift.
DriftAfterForever(d, e) ==
    IF e = d.history[1] THEN d
    ELSE [history |-> <<e, d.history[1], d.history[2]>>,
          stable |-> 0, level |-> LevelAfter(d.history, e, d.level)]

\* stability_counter_ is capped one above the limit, where it stays effective.
DriftAfter(d, e) ==
    IF e = d.history[1]
    THEN [d EXCEPT !.stable = IF @ <= StableBlocks THEN @ + 1 ELSE @,
                   !.level = IF d.stable + 1 > StableBlocks THEN "none" ELSE @]
    ELSE [history |-> <<e, d.history[1], d.history[2]>>,
          stable |-> 0, level |-> LevelAfter(d.history, e, d.level)]

-----------------------------------------------------------------------------
(* EchoPathDelayEstimator::EstimateDelay.                                  *)

\* An estimate that stays the same for long makes the matched filters start
\* anew; the aggregator keeps what it has collected.
Consistency(estimate) ==
    LET count == IF old_lag # None /\ estimate.lag = old_lag THEN consistent + 1 ELSE 0
    IN  IF count > ConsistentBlocks
        THEN old_lag' = None /\ consistent' = 0
        ELSE old_lag' = estimate.lag /\ consistent' = count

-----------------------------------------------------------------------------
(* RenderDelayController.                                                  *)

Blocks(lag) ==
    IF lag * DownSampling < Headroom THEN 0
    ELSE (lag * DownSampling - Headroom) \div BlockSize

\* ComputeBufferDelay: a little more delay is not followed.
\* Fault: nor is a little less.
BufferDelayBothWays(current, limit, lag) ==
    IF /\ current # None
       /\ Blocks(lag) <= current + limit
       /\ current <= Blocks(lag) + limit
    THEN current ELSE Blocks(lag)
BufferDelay(current, limit, lag) ==
    IF current # None /\ Blocks(lag) > current /\ Blocks(lag) <= current + limit
    THEN current ELSE Blocks(lag)

UsesHysteresis(quality) == last_quality = "refined" /\ quality = "refined"

\* With no estimate for this block the last one is used again.
\* Fault: a block without an estimate has no delay.
FollowOnlyNew(estimate) ==
    /\ delay_samples' = estimate
    /\ IF estimate.lag = None THEN delay' = None /\ UNCHANGED last_quality
       ELSE /\ delay' = BufferDelay(delay,
                                    IF UsesHysteresis(estimate.quality)
                                    THEN Hysteresis ELSE 0,
                                    estimate.lag)
            /\ last_quality' = estimate.quality
FollowEstimate(estimate) ==
    LET current == IF estimate.lag # None THEN estimate ELSE delay_samples
    IN  /\ delay_samples' = current
        /\ IF current.lag = None THEN UNCHANGED <<delay, last_quality>>
           ELSE /\ delay' = BufferDelay(delay,
                                        IF UsesHysteresis(current.quality)
                                        THEN Hysteresis ELSE 0,
                                        current.lag)
                /\ last_quality' = current.quality

Estimate(estimate) ==
    /\ drift' = IF estimate.lag # None /\ estimate.quality = "refined"
                THEN DriftAfter(drift, estimate.lag) ELSE drift
    /\ Consistency(estimate)
    /\ FollowEstimate(estimate)

\* GetDelay for a block with a reliable lag, and for one without.
GetDelay(lag) ==
    /\ histogram' = Counted(histogram, histogram_data[histogram_data_index], lag)
    /\ histogram_data' = [histogram_data EXCEPT ![histogram_data_index] = lag]
    /\ histogram_data_index' = NextIndex(histogram_data_index)
    /\ reported' = lag
    /\ \E candidate \in LagRange :
          /\ IsCandidate(histogram', candidate)
          /\ significant' = Significant(histogram'[candidate], significant)
          /\ Estimate(Aggregated(candidate, histogram'[candidate], significant'))

GetDelayNoLag ==
    /\ UNCHANGED aggregator
    /\ reported' = None
    /\ Estimate(NoEstimate)

\* Reset: hard at an overrun or the first capture block, soft at an underrun.
\* The detector of clock drift is not reset.
Reset(hard) ==
    /\ histogram' = EmptyHistogram
    /\ histogram_data' = EmptyData
    /\ histogram_data_index' = 0
    /\ significant' = (significant /\ ~hard)
    /\ old_lag' = None
    /\ consistent' = 0
    /\ delay_samples' = NoEstimate
    /\ delay' = None
    /\ last_quality' = IF hard THEN "coarse" ELSE last_quality
    /\ reported' = AfterReset
    /\ UNCHANGED drift

Init == /\ histogram = EmptyHistogram
        /\ histogram_data = EmptyData
        /\ histogram_data_index = 0
        /\ significant = FALSE
        /\ old_lag = None
        /\ consistent = 0
        /\ delay_samples = NoEstimate
        /\ delay = None
        /\ last_quality = "coarse"
        /\ drift = [history |-> <<0, 0, 0>>, stable |-> 0, level |-> "none"]
        /\ reported = AfterReset

CaptureBlock == (\E lag \in Lags : GetDelay(lag)) \/ GetDelayNoLag

Next == CaptureBlock \/ \E hard \in BOOLEAN : Reset(hard)

Spec == Init /\ [][Next]_vars
-----------------------------------------------------------------------------
Qualities == {"coarse", "refined"}
Levels == {"none", "probable", "verified"}

TypeOK == /\ histogram \in [LagRange -> Int]
          /\ histogram_data \in [Slots -> LagRange]
          /\ histogram_data_index \in Slots
          /\ significant \in BOOLEAN
          /\ old_lag \in LagRange \cup {None}
          /\ consistent \in 0 .. ConsistentBlocks
          /\ delay_samples \in [lag : LagRange \cup {None}, quality : Qualities]
          /\ delay \in Nat \cup {None}
          /\ last_quality \in Qualities
          /\ DOMAIN drift.history = 1 .. 3
          /\ \A i \in 1 .. 3 : drift.history[i] \in LagRange
          /\ drift.stable \in 0 .. StableBlocks + 1
          /\ drift.level \in Levels
          /\ reported \in LagRange \cup {None, AfterReset}

Occurrences(l) == Cardinality({i \in Slots : histogram_data[i] = l})

\* The histogram, updated by one lag in and one out, counts the lags of the
\* window at all times.  The slots still empty hold lag 0, which is counted when
\* it leaves and never when it entered: lag 0 is short of a whole window.
HistogramMatchesData ==
    \A l \in LagRange :
        histogram[l] = Occurrences(l) - (IF l = 0 THEN Window ELSE 0)

\* The estimate of the last block was, in the window it came from, more frequent
\* than the threshold that applies, and no lag was more frequent.
EstimateIsSupported ==
    old_lag # None =>
        /\ Occurrences(old_lag) > IF significant THEN Converged ELSE Initial
        /\ \A l \in Lags : Occurrences(l) <= Occurrences(old_lag)

\* The render buffer is never told a delay beyond the estimate, with which the
\* filter would miss the echo, nor one short of it by more than the hysteresis.
DelayFollowsEstimate ==
    /\ delay = None <=> delay_samples.lag = None
    /\ delay # None => /\ delay <= Blocks(delay_samples.lag)
                       /\ Blocks(delay_samples.lag) <= delay + Hysteresis
                       /\ delay_samples.quality = "coarse"
                            => delay = Blocks(delay_samples.lag)

\* Once an estimate was refined none is coarse until the next hard reset, not
\* even after an underrun emptied the histogram.
StaysRefined ==
    [][ last_quality = "refined" /\ last_quality' = "coarse"
        => ~significant' /\ delay' = None ]_vars

\* Drift is deduced from lags that were seen, never from the empty history.
DriftFromEstimates ==
    [][ drift'.level # drift.level /\ drift'.level # "none"
        => /\ \A i \in 1 .. 3 : drift'.history[i] \in Lags
           /\ drift'.level = "verified" => drift.history[3] \in Lags ]_vars

Controller == INSTANCE DelayEstimates
                  WITH Delays <- {Blocks(l) : l \in Lags}, NoDelay <- None,
                       controller <- delay, fresh <- reported = AfterReset

\* What the block processor assumes of its controller: a delay once told is
\* neither forgotten nor replaced by one that no lag stands for, but by a reset.
ImplementsEstimates == Controller!Spec

\* A lag that the filters report from some block on becomes the estimate, and a
\* drift seen before is forgotten.
SteadyLagIsFound ==
    \A l \in Lags :
        <>[](reported = l) => <>[](delay_samples.lag = l /\ drift.level = "none")
=============================================================================
