----------------------------- MODULE SampleTape -----------------------------
(***************************************************************************)
(* What a ring buffer promises its users: the last Length elements written *)
(* stay readable, in order, on a tape whose read head can be moved freely  *)
(* over them.  tape[a] is the element written a writes ago, and the unread *)
(* newest of them are still to be read.                                    *)
(***************************************************************************)
EXTENDS Integers, Sequences

CONSTANTS Length, Elements, Zero,
          MaxCount   \* bound: no write offers more elements than this

VARIABLES tape, unread, returned
tvars == <<tape, unread, returned>>

TapeInit == /\ tape = [a \in 1..Length |-> Zero]
            /\ unread = 0
            /\ returned = << >>

Inputs == UNION {[1..k -> Elements] : k \in 0..MaxCount}

\* The first m elements of xs are written; what does not fit is refused.
Write == \E m \in 1..(Length - unread) :
            /\ unread' = unread + m
            /\ \E xs \in Inputs :
                  /\ m = Len(xs) \/ (m < Len(xs) /\ unread' = Length)
                  /\ tape' = [a \in 1..Length |-> IF a =< m THEN xs[m + 1 - a]
                                                            ELSE tape[a - m]]
            /\ UNCHANGED returned

Read == \E m \in 0..unread :
            /\ returned' = [i \in 1..m |-> tape[unread + 1 - i]]
            /\ unread' = unread - m
            /\ UNCHANGED tape

Move == \E to \in 0..Length : unread' = to /\ UNCHANGED <<tape, returned>>

Clear == /\ tape' = [a \in 1..Length |-> Zero]
         /\ unread' = 0
         /\ UNCHANGED returned

TapeNext == Write \/ Read \/ Move \/ Clear
TapeSpec == TapeInit /\ [][TapeNext]_tvars
=============================================================================
