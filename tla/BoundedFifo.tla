---------------------------- MODULE BoundedFifo ----------------------------
(***************************************************************************)
(* What webrtc::SwapQueue (rtc_base/swap_queue.h) promises its two users:  *)
(* a bounded first-in first-out queue whose every operation takes effect   *)
(* at one instant, and whose refusals are exact: Insert refuses only when  *)
(* the queue holds Size items, Remove only when it holds none.             *)
(***************************************************************************)
EXTENDS Naturals, Sequences

CONSTANTS Size, Items

VARIABLES queue,     \* the items accepted and not yet removed, oldest first
          refused,   \* TRUE iff the last Insert was refused
          starved,   \* TRUE iff the last Remove found nothing
          received   \* the sequence of at most one item last removed

vars == <<queue, refused, starved, received>>

Init == /\ queue = <<>>
        /\ refused = FALSE
        /\ starved = FALSE
        /\ received = <<>>

Accept(i) == /\ Len(queue) < Size
             /\ queue' = Append(queue, i)
             /\ refused' = FALSE
             /\ UNCHANGED <<starved, received>>

Refuse == /\ Len(queue) = Size
          /\ refused' = TRUE
          /\ UNCHANGED <<queue, starved, received>>

Deliver == /\ queue # <<>>
           /\ queue' = Tail(queue)
           /\ received' = <<Head(queue)>>
           /\ starved' = FALSE
           /\ UNCHANGED refused

Starve == /\ queue = <<>>
          /\ starved' = TRUE
          /\ UNCHANGED <<queue, refused, received>>

Drop == /\ queue' = <<>>
        /\ UNCHANGED <<refused, starved, received>>

Next == \/ \E i \in Items : Accept(i)
        \/ Refuse
        \/ Deliver
        \/ Starve
        \/ Drop

Spec == Init /\ [][Next]_vars
=============================================================================
