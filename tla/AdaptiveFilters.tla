--------------------------- MODULE AdaptiveFilters ---------------------------
(***************************************************************************)
(* The adaptive filters of echo canceller 3: a refined and a coarse one    *)
(* for a capture channel (aec3/subtractor.cc), each a row of partitions    *)
(* whose number grows when the initial state ends                          *)
(* (aec3/adaptive_fir_filter.cc), and each with a gain that decides in     *)
(* which blocks the filter is adapted (refined_filter_update_gain.cc,      *)
(* coarse_filter_update_gain.cc).                                          *)
(*                                                                         *)
(* Of a partition's coefficients the model keeps where they come from;     *)
(* which filter did better and whether the refined one is to be scaled is  *)
(* any outcome.  All capture channels are treated alike: there is one.     *)
(***************************************************************************)
EXTENDS Integers

CONSTANTS InitialLength, FullLength, \* length_blocks of the four configurations
          ChangeBlocks,  \* config.filter.config_change_duration_blocks
          PoorBlocks     \* blocks after which a worse coarse filter is replaced

Filters == {"refined", "coarse"}

ASSUME AdaptiveFiltersAssumption ==
    /\ InitialLength \in [Filters -> Nat \ {0}]
    /\ FullLength \in [Filters -> Nat \ {0}]
    /\ \A f \in Filters : InitialLength[f] <= FullLength[f]
    /\ ChangeBlocks \in Nat \ {0} /\ PoorBlocks \in Nat \ {0}

VARIABLES filter,       \* refined_filters_[0], coarse_filter_[0]
          gain,         \* refined_gains_[0], coarse_gains_[0]
          poor_coarse,  \* poor_coarse_filter_counters_[0]
          learnt        \* history: the filters adapted in the last block

filtervars == <<filter, gain, poor_coarse, learnt>>

Least(a, b) == IF a < b THEN a ELSE b

-----------------------------------------------------------------------------
(* AdaptiveFirFilter.                                                      *)

\* stale: the partitions with coefficients from before the filter was shortened.
Cleared(stale, from, to) == stale \ (from .. to - 1)

\* HandleEchoPathChange clears only what is not in use.
ClearUnused(f, fl) == [fl EXCEPT !.stale = Cleared(@, fl.size, FullLength[f])]

\* Partitions that are given up keep their coefficients, those that come into
\* use are cleared.
StaleAfter(fl, size) == Cleared(fl.stale \cup (size .. fl.size - 1), fl.size, size)

\* SetSizePartitions, at once or over the next ChangeBlocks blocks.
\* Fault: the partition to be constrained next may be one of those given up.
SetSizeKeepingConstrain(fl, size) ==
    [fl EXCEPT !.size = size, !.target = size, !.old_target = size, !.counter = 0,
               !.stale = StaleAfter(fl, size)]
SetSize(fl, size) ==
    [fl EXCEPT !.size = size, !.target = size, !.old_target = size, !.counter = 0,
               !.stale = StaleAfter(fl, size),
               !.constrain = Least(@, size - 1)]
SetTarget(fl, size) == [fl EXCEPT !.target = size, !.counter = ChangeBlocks]

\* The size on the way from one target to the next, rounded down.
SizeAfter(fl) ==
    IF fl.counter = 0 THEN fl.target
    ELSE (fl.old_target * (fl.counter - 1) + fl.target * (ChangeBlocks - fl.counter + 1))
             \div ChangeBlocks

\* UpdateSize.
\* Fault: the partitions that come into use are not cleared.
UpdateSizeOnly(fl) ==
    LET size == SizeAfter(fl)
    IN  [fl EXCEPT !.size = size,
                   !.counter = IF @ > 0 THEN @ - 1 ELSE 0,
                   !.old_target = IF fl.counter = 0 THEN fl.target ELSE @,
                   !.constrain = IF fl.counter = 0 THEN @ ELSE Least(@, size - 1)]
UpdateSize(fl) ==
    LET size == SizeAfter(fl)
    IN  [fl EXCEPT !.size = size,
                   !.counter = IF @ > 0 THEN @ - 1 ELSE 0,
                   !.old_target = IF fl.counter = 0 THEN fl.target ELSE @,
                   !.constrain = IF fl.counter = 0 THEN @ ELSE Least(@, size - 1),
                   !.stale = StaleAfter(fl, size)]

\* Constrain: one partition a block, in turn.
Constrained(fl) ==
    [fl EXCEPT !.constrain = IF @ < fl.size - 1 THEN @ + 1 ELSE 0]

\* Adapt.
Adapt(fl) == Constrained(UpdateSize(fl))

\* SetFilter: the coarse filter takes over what it can of the refined one.
SetFilter(fl, other) ==
    LET shared == 0 .. Least(fl.size, other.size) - 1
    IN  [fl EXCEPT !.stale = (@ \ shared) \cup (other.stale \cap shared)]

-----------------------------------------------------------------------------
(* RefinedFilterUpdateGain and CoarseFilterUpdateGain.  Their counters are *)
(* compared with lengths of filters only and stop above the longest.       *)

Enough(f) == FullLength[f] + 1   \* for calls, and one less for excited

\* HandleEchoPathChange: the refined gain starts anew only if the level did not
\* change at the same time, and then as if the excitation had long been good.
RefinedAfterChange(g, gain_change) ==
    IF gain_change THEN g ELSE [g EXCEPT !.calls = 0, !.excited = FullLength["refined"]]
\* Fault: the coarse gain goes on adapting.
CoarseGoesOn(g) == [g EXCEPT !.excited = 0]
CoarseAfterChange(g) == [g EXCEPT !.calls = 0, !.excited = 0]

\* SetConfig, at once or over the next blocks: how the tuning gets there is left out.
SetConfig(g, config) == [g EXCEPT !.config = config]

\* Compute, up to whether the filter is to be adapted.
Computed(f, g, poor) ==
    [g EXCEPT !.calls = Least(@ + 1, Enough(f)),
              !.excited = Least((IF poor THEN 0 ELSE @) + 1, FullLength[f])]
Learns(g, size, saturated) == g.excited >= size /\ ~saturated /\ g.calls > size

-----------------------------------------------------------------------------
(* Subtractor.                                                             *)

FiltersInit ==
    /\ filter = [f \in Filters |->
                   [size |-> InitialLength[f], target |-> InitialLength[f],
                    old_target |-> InitialLength[f], counter |-> 0, constrain |-> 0,
                    stale |-> {}]]
    /\ gain = [f \in Filters |->
                 [config |-> "initial", calls |-> 0,
                  excited |-> IF f = "refined" THEN FullLength[f] ELSE 0]]
    /\ poor_coarse = 0
    /\ learnt = {}

\* HandleEchoPathChange for a change of the delay; one of the level alone
\* changes nothing.
FilterAfterJump(f, jump) ==
    IF jump THEN SetSize(ClearUnused(f, filter[f]), InitialLength[f]) ELSE filter[f]
GainAfterJump(f, jump, gain_change) ==
    IF ~jump THEN gain[f]
    ELSE SetConfig(IF f = "refined" THEN RefinedAfterChange(gain[f], gain_change)
                                    ELSE CoarseAfterChange(gain[f]),
                   "initial")

\* ExitInitialState.
FilterAfterExit(f, fl, exit) == IF exit THEN SetTarget(fl, FullLength[f]) ELSE fl
GainAfterExit(g, exit) == IF exit THEN SetConfig(g, "normal") ELSE g

\* Process: adjusted if the refined filter was scaled, worse if the coarse
\* filter left more than the refined one.
RefinedProcess(fl, g, saturated, poor, adjusted) ==
    IF adjusted THEN [filter |-> Adapt(fl), gain |-> g, learns |-> FALSE]
    ELSE LET computed == Computed("refined", g, poor)
         IN  [filter |-> Adapt(fl), gain |-> computed,
              learns |-> Learns(computed, fl.size, saturated)]

CoarseProcess(fl, g, refined, saturated, poor, replaced) ==
    LET computed == Computed("coarse", g, poor)
    IN  [filter |-> Adapt(IF replaced THEN SetFilter(fl, refined) ELSE fl),
         gain |-> computed,
         learns |-> Learns(computed, fl.size, saturated)]

SubtractorProcess(filters, gains, saturated, poor, adjusted, worse) ==
    LET count == IF worse THEN poor_coarse + 1 ELSE 0
    IN  \E refined \in {RefinedProcess(filters.refined, gains.refined, saturated, poor, adjusted)} :
        \E coarse \in {CoarseProcess(filters.coarse, gains.coarse, refined.filter,
                                     saturated, poor, count = PoorBlocks)} :
          /\ filter' = [refined |-> refined.filter, coarse |-> coarse.filter]
          /\ gain' = [refined |-> refined.gain, coarse |-> coarse.gain]
          /\ poor_coarse' = count % PoorBlocks
          /\ learnt' = {f \in Filters : IF f = "refined" THEN refined.learns
                                                         ELSE coarse.learns}

-----------------------------------------------------------------------------
Lengths(f) == InitialLength[f] .. FullLength[f]
FilterType(f) == [size : Lengths(f), target : Lengths(f), old_target : Lengths(f),
                  counter : 0 .. ChangeBlocks, constrain : Nat,
                  stale : SUBSET (0 .. FullLength[f] - 1)]
GainType(f) == [config : {"initial", "normal"},
                calls : 0 .. Enough(f), excited : 0 .. FullLength[f]]

FiltersTypeOK ==
    /\ \A f \in Filters : filter[f] \in FilterType(f) /\ gain[f] \in GainType(f)
    /\ poor_coarse \in 0 .. PoorBlocks - 1
    /\ learnt \subseteq Filters

\* Coefficients learnt before a filter was shortened, for another delay, never
\* come into use again when it grows, in neither filter and not by way of the
\* other one; and the partition constrained next is one in use.
PartitionsInUseAreSound ==
    \A f \in Filters : /\ \A p \in filter[f].stale : p >= filter[f].size
                       /\ filter[f].constrain < filter[f].size
=============================================================================
