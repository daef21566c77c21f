--------------------------- MODULE DelayEstimates ---------------------------
(***************************************************************************)
(* What the block processor of echo canceller 3 relies on in its delay     *)
(* controller: after a reset it has no delay; once it has told one, every  *)
(* later block gets that delay or a new one until the next reset.          *)
(* BlockProcessor uses it, DelayControl implements it.                     *)
(***************************************************************************)
CONSTANTS Delays,     \* delays the controller estimates, in blocks
          NoDelay     \* absl::nullopt

VARIABLES controller,   \* delay_
          fresh         \* nothing was asked since the reset
evars == <<controller, fresh>>

\* GetDelay, after `last`.
Estimates(last) == Delays \cup {last}

Init == controller = NoDelay /\ fresh = TRUE
GetDelay == controller' \in Estimates(controller) /\ fresh' = FALSE
Reset == controller' = NoDelay /\ fresh' = TRUE
Next == GetDelay \/ Reset

Spec == Init /\ [][Next]_evars
=============================================================================
