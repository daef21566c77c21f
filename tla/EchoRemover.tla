----------------------------- MODULE EchoRemover -----------------------------
(***************************************************************************)
(* The echo remover of echo canceller 3 (aec3/echo_remover.cc) with the    *)
(* state that decides which tuning its parts use (aec3/aec_state.cc): the  *)
(* adaptive filters and the suppressor begin in an initial state, leave it *)
(* together after enough blocks of render audio, and go back to it when    *)
(* the delay changes.                                                      *)
(*                                                                         *)
(* A frame is 2 or 3 blocks in turn, which all carry its flag that the     *)
(* level changed.  The signals decide only what a block is like: any.      *)
(* Spectra, gains, echo path and delay within the filter are left out.     *)
(***************************************************************************)
EXTENDS AdaptiveFilters

CONSTANTS InitialBlocks \* blocks of render audio that end the initial state

ASSUME EchoRemoverAssumption == InitialBlocks \in Nat \ {0}

VARIABLES frame,         \* blocks left of the frame, its length, its flag
          hangover,      \* gain_change_hangover_
          initial_state, \* aec_state_.initial_state_
          suppressor,    \* suppression_gain_.initial_state_
          seen           \* history: what the blocks were like

removervars == <<filtervars, frame, hangover, initial_state, suppressor, seen>>

kMaxBlocksPerFrame == 3

-----------------------------------------------------------------------------
(* AecState::InitialState.  Its counter stops where it takes effect.       *)

\* Reset leaves the flag of the transition as it is.
\* Fault: the echo path changes, the initial state does not come back.
AfterJumpSame(state, jump) == state
AfterJump(state, jump) ==
    IF jump THEN [state EXCEPT !.active = TRUE, !.blocks = 0] ELSE state

\* Update.
\* Fault: the blocks have to follow each other.
UpdateConsecutive(state, good) ==
    LET blocks == IF good THEN Least(state.blocks + 1, InitialBlocks) ELSE 0
        active == blocks < InitialBlocks
    IN  [active |-> active, blocks |-> blocks, triggered |-> ~active /\ state.active]
Update(state, good) ==
    LET blocks == Least(state.blocks + (IF good THEN 1 ELSE 0), InitialBlocks)
        active == blocks < InitialBlocks
    IN  [active |-> active, blocks |-> blocks, triggered |-> ~active /\ state.active]

\* AecState::HandleEchoPathChange: the saturation of the frame, which a change of
\* the delay takes back for the block.
SaturatedAfter(jump) == frame.saturated /\ ~jump

-----------------------------------------------------------------------------
(* EchoRemoverImpl::ProcessCapture.                                        *)

\* A change of the level is acted on unless one was in the last few blocks.
ActsOnGain == frame.flagged /\ hangover = 0

\* Fault: the next action may follow two blocks after the last.
HangoverOfTwo == IF ActsOnGain THEN kMaxBlocksPerFrame - 2
                 ELSE IF hangover > 0 THEN hangover - 1 ELSE 0
HangoverAfter == IF ActsOnGain THEN kMaxBlocksPerFrame - 1
                 ELSE IF hangover > 0 THEN hangover - 1 ELSE 0

\* The state of the suppressor, set by a change of the delay and then by the
\* transition of the block before.
SuppressorAfter(jump) == IF initial_state.triggered THEN FALSE ELSE jump \/ suppressor

ProcessCapture(jump, active, poor, adjusted, worse) ==
    LET exit == initial_state.triggered
        is_saturated == SaturatedAfter(jump)
    IN  /\ hangover' = HangoverAfter
        /\ suppressor' = SuppressorAfter(jump)
        /\ \E filters \in {[f \in Filters |-> FilterAfterExit(f, FilterAfterJump(f, jump), exit)]},
              gains \in {[f \in Filters |-> GainAfterExit(GainAfterJump(f, jump, ActsOnGain), exit)]} :
              SubtractorProcess(filters, gains, is_saturated, poor, adjusted, worse)
        /\ initial_state' = Update(AfterJump(initial_state, jump),
                                   active /\ ~is_saturated)

-----------------------------------------------------------------------------
(* The frames of the canceller, and what the history keeps: whether the    *)
(* last block had a change of delay, was saturated and was good to learn   *)
(* from; blocks since the delay changed; whether that change came with one *)
(* of the level, or right after a transition; how often this frame's level *)
(* change was acted on and whether that of the frame before was.           *)

Longest == LET f == CHOOSE f \in Filters : \A g \in Filters : InitialLength[g] <= InitialLength[f]
           IN  InitialLength[f]

\* The first frame of all has two blocks, but the echo remover is called from the
\* first frame with render audio on.
RemoverInit ==
    /\ FiltersInit
    /\ \E long \in BOOLEAN :
          frame = [left |-> 0, long |-> long, flagged |-> FALSE, saturated |-> FALSE]
    /\ hangover = 0
    /\ initial_state = [active |-> TRUE, triggered |-> FALSE, blocks |-> 0]
    /\ suppressor = TRUE
    /\ seen = [jump |-> FALSE, good |-> FALSE, since |-> 0, mixed |-> FALSE,
               hasty |-> FALSE, acted |-> 0, missed |-> FALSE]

\* The next frame, with or without a change of the level.
NextFrame(level_change, saturated) ==
    /\ frame.left = 0
    /\ frame' = [left |-> IF frame.long THEN 2 ELSE 3, long |-> ~frame.long,
                 flagged |-> level_change, saturated |-> saturated]
    /\ seen' = [seen EXCEPT !.acted = 0, !.missed = frame.flagged /\ seen.acted = 0]
    /\ learnt' = {}
    /\ UNCHANGED <<filter, gain, poor_coarse, hangover, initial_state, suppressor>>

Block(jump, active, poor, adjusted, worse) ==
    /\ frame.left > 0
    /\ frame' = [frame EXCEPT !.left = @ - 1]
    /\ ProcessCapture(jump, active, poor, adjusted, worse)
    /\ seen' = [jump |-> jump, good |-> active /\ ~frame.saturated,
                since |-> IF jump THEN 1 ELSE Least(seen.since + 1, Longest + 1),
                mixed |-> IF jump THEN ActsOnGain ELSE seen.mixed,
                hasty |-> IF jump THEN initial_state.triggered ELSE seen.hasty,
                acted |-> seen.acted + (IF ActsOnGain THEN 1 ELSE 0),
                missed |-> seen.missed]

RemoverBlock == \E jump, active, poor, adjusted, worse \in BOOLEAN :
                    Block(jump, active, poor, adjusted, worse)

RemoverNext == RemoverBlock \/ \E level_change, saturated \in BOOLEAN :
                                   NextFrame(level_change, saturated)

RemoverSpec == RemoverInit /\ [][RemoverNext]_removervars

-----------------------------------------------------------------------------
RemoverTypeOK ==
    /\ FiltersTypeOK
    /\ frame \in [left : 0 .. 3, long : BOOLEAN, flagged : BOOLEAN,
                 saturated : BOOLEAN]
    /\ hangover \in 0 .. 2
    /\ initial_state \in [active : BOOLEAN, triggered : BOOLEAN, blocks : 0 .. InitialBlocks]
    /\ suppressor \in BOOLEAN
    /\ seen \in [jump : BOOLEAN, good : BOOLEAN,
                 since : 0 .. Longest + 1, mixed : BOOLEAN, hasty : BOOLEAN,
                 acted : 0 .. 3, missed : BOOLEAN]

\* A change of the level is acted on at most once in its frame, though all
\* blocks of the frame carry it and the hangover may end within the next frame;
\* and of two frames in a row that have one, at least one is acted on.
GainChangesAreActedOn ==
    /\ seen.acted <= 1
    /\ seen.missed /\ frame.flagged /\ frame.left = 0 => seen.acted = 1

\* No filter learns from a saturated block, nor from its first blocks after a
\* change of the delay, although that change clears the saturation; unless the
\* level changed with the delay, when the refined filter does not start anew.
LearnsWhenSound ==
    \A f \in learnt :
        \/ seen.since > InitialLength[f] /\ ~frame.saturated
        \/ f = "refined" /\ seen.mixed /\ (frame.saturated => seen.jump)

\* The suppressor and the filters are in their initial state exactly while the
\* state that governs them is, or has just ended it; unless the last change of
\* delay came in the block after a transition.
InitialStateIsShared ==
    ~seen.hasty =>
        LET initial == initial_state.active \/ initial_state.triggered
        IN  /\ suppressor <=> initial
            /\ \A f \in Filters : /\ gain[f].config = "initial" <=> initial
                                  /\ initial => filter[f].target = InitialLength[f]
                                  /\ ~initial => filter[f].target = FullLength[f]

\* After a change of the delay the suppressor and the filters are in their
\* initial state.
ResetBeginsInitialState ==
    seen.jump => suppressor /\ \A f \in Filters : gain[f].config = "initial"

\* When the delay no longer changes and render audio goes on, the initial state
\* ends and the filters get their full length.
CallsGoOn == []<>(frame.left = 0) /\ []<>(frame.left # 0)
InitialStateEnds ==
    CallsGoOn /\ <>[]~seen.jump /\ []<>seen.good
        => <>[](~suppressor /\ \A f \in Filters : filter[f].size = FullLength[f])
=============================================================================
