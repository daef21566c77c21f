----------------------------- MODULE SwapQueue -----------------------------
(***************************************************************************)
(* webrtc::SwapQueue (rtc_base/swap_queue.h): a fixed ring of Size objects *)
(* shared by one producer and one consumer.  Insert and Remove exchange    *)
(* the caller's object with the one in the ring; num_elements_ is the only *)
(* synchronisation.                                                        *)
(*                                                                         *)
(* Every atomic access to num_elements_, every exchange and every index    *)
(* update is a step of its own.  The acquire/release orderings of the code *)
(* are what lets the steps of one thread be taken in program order by the  *)
(* other; Race says which pairs of steps must then never be enabled        *)
(* together.  An object is a bottle (the picture of the header comment)    *)
(* with an identity and a content, so that losing, duplicating or          *)
(* allocating an object can be told from moving it.                        *)
(***************************************************************************)
EXTENDS Naturals, Sequences, FiniteSets

CONSTANTS Size,    \* queue_.size()
          Items    \* what a producer may put into its bottle

ASSUME SizeAssumption == Size \in Nat \ {0}
ASSUME ItemsAssumption == Items # {}

Index == 0 .. Size - 1
Bottles == 0 .. Size + 1       \* one per slot, one per user

VARIABLES
    num_elements,       \* num_elements_
    next_write_index,   \* next_write_index_, the producer's
    next_read_index,    \* next_read_index_, the consumer's
    slot,               \* queue_: the bottle in each slot
    content,            \* what each bottle holds
    input, output,      \* the bottle in the hands of the producer / consumer
    ppc, cpc,           \* the next step of the producer / of the consumer
    cleared,            \* the count Clear() exchanged for zero
    refused, starved,   \* the last Insert / Remove returned false
    received            \* content of the bottle last removed, if any

pvars == <<next_write_index, input, ppc, refused>>
cvars == <<next_read_index, output, cpc, cleared, starved, received>>
vars == <<num_elements, slot, content, pvars, cvars>>

Init == /\ num_elements = 0
        /\ next_write_index = 0
        /\ next_read_index = 0
        /\ slot = [i \in Index |-> i]
        /\ \E prototype \in Items : content = [b \in Bottles |-> prototype]
        /\ input = Size
        /\ output = Size + 1
        /\ ppc = "idle"
        /\ cpc = "idle"
        /\ cleared = 0
        /\ refused = FALSE
        /\ starved = FALSE
        /\ received = <<>>

(***************************************************************************)
(* Insert(input)                                                           *)
(***************************************************************************)

\* "if (++i == size) i = 0" for the two indices, and Clear's subtraction.
Wrap(i) == IF i >= Size THEN i - Size ELSE i

\* Fault: overwrites when full.
InsertLoadUnchecked(m) ==
    /\ ppc = "idle"
    /\ content' = [content EXCEPT ![input] = m]
    /\ ppc' = "swap"
    /\ UNCHANGED <<refused, num_elements, slot, next_write_index, input, cvars>>

\* The producer fills its bottle and calls Insert, which loads num_elements_.
InsertLoad(m) ==
    /\ ppc = "idle"
    /\ content' = [content EXCEPT ![input] = m]
    /\ IF num_elements = Size
       THEN refused' = TRUE /\ UNCHANGED ppc
       ELSE ppc' = "swap" /\ UNCHANGED refused
    /\ UNCHANGED <<num_elements, slot, next_write_index, input, cvars>>

InsertSwap ==
    /\ ppc = "swap"
    /\ slot' = [slot EXCEPT ![next_write_index] = input]
    /\ input' = slot[next_write_index]
    /\ ppc' = "publish"
    /\ UNCHANGED <<num_elements, content, next_write_index, refused, cvars>>

\* fetch_add(1, release)
InsertPublish ==
    /\ ppc = "publish"
    /\ num_elements' = num_elements + 1
    /\ refused' = FALSE
    /\ ppc' = "advance"
    /\ UNCHANGED <<slot, content, next_write_index, input, cvars>>

InsertAdvance ==
    /\ ppc = "advance"
    /\ next_write_index' = Wrap(next_write_index + 1)
    /\ ppc' = "idle"
    /\ UNCHANGED <<num_elements, slot, content, input, refused, cvars>>

(***************************************************************************)
(* Remove(output) and Clear()                                              *)
(***************************************************************************)

\* Fault: does not look whether there is anything to remove.
RemoveLoadUnchecked ==
    /\ cpc = "idle"
    /\ cpc' = "swap"
    /\ UNCHANGED <<num_elements, slot, content, pvars, next_read_index, output,
                   cleared, starved, received>>

RemoveLoad ==
    /\ cpc = "idle"
    /\ IF num_elements = 0
       THEN starved' = TRUE /\ UNCHANGED cpc
       ELSE cpc' = "swap" /\ UNCHANGED starved
    /\ UNCHANGED <<num_elements, slot, content, pvars, next_read_index, output,
                   cleared, received>>

RemoveSwap ==
    /\ cpc = "swap"
    /\ slot' = [slot EXCEPT ![next_read_index] = output]
    /\ output' = slot[next_read_index]
    /\ cpc' = "release"
    /\ UNCHANGED <<num_elements, content, pvars, next_read_index, cleared,
                   starved, received>>

\* fetch_sub(1, release)
RemoveRelease ==
    /\ cpc = "release"
    /\ num_elements' = num_elements - 1
    /\ received' = <<content[output]>>
    /\ starved' = FALSE
    /\ cpc' = "advance"
    /\ UNCHANGED <<slot, content, pvars, next_read_index, output, cleared>>

RemoveAdvance ==
    /\ cpc = "advance"
    /\ next_read_index' = Wrap(next_read_index + 1)
    /\ cpc' = "idle"
    /\ UNCHANGED <<num_elements, slot, content, pvars, output, cleared,
                   starved, received>>

\* atomic_exchange(num_elements_, 0, relaxed)
ClearExchange ==
    /\ cpc = "idle"
    /\ cleared' = num_elements
    /\ num_elements' = 0
    /\ cpc' = "clear"
    /\ UNCHANGED <<slot, content, pvars, next_read_index, output, starved,
                   received>>

\* Fault: restarts at the first slot, where the producer is not.
ClearToFirstSlot ==
    /\ cpc = "clear"
    /\ next_read_index' = 0
    /\ cleared' = 0
    /\ cpc' = "idle"
    /\ UNCHANGED <<num_elements, slot, content, pvars, output, starved,
                   received>>

ClearAdvance ==
    /\ cpc = "clear"
    /\ next_read_index' = Wrap(next_read_index + cleared)
    /\ cleared' = 0
    /\ cpc' = "idle"
    /\ UNCHANGED <<num_elements, slot, content, pvars, output, starved,
                   received>>

Producer == \/ \E m \in Items : InsertLoad(m)
            \/ InsertSwap
            \/ InsertPublish
            \/ InsertAdvance

Consumer == \/ RemoveLoad
            \/ RemoveSwap
            \/ RemoveRelease
            \/ RemoveAdvance
            \/ ClearExchange
            \/ ClearAdvance

Next == Producer \/ Consumer

Spec == Init /\ [][Next]_vars

(***************************************************************************)
(* Properties                                                              *)
(***************************************************************************)

TypeOK == /\ num_elements \in 0 .. Size
          /\ next_write_index \in Index
          /\ next_read_index \in Index
          /\ slot \in [Index -> Bottles]
          /\ content \in [Bottles -> Items]
          /\ input \in Bottles
          /\ output \in Bottles
          /\ ppc \in {"idle", "swap", "publish", "advance"}
          /\ cpc \in {"idle", "swap", "release", "advance", "clear"}
          /\ cleared \in 0 .. Size
          /\ refused \in BOOLEAN
          /\ starved \in BOOLEAN
          /\ received \in {<<>>} \cup {<<m>> : m \in Items}

\* Whatever the interleaving, the producer and the consumer are never both at
\* the exchange of the same slot of queue_: num_elements_ alone keeps Insert
\* and Remove apart ("mediated by num_elements_", swap_queue.h:236).
NoSlotRace == ~ /\ ppc = "swap"
                /\ cpc = "swap"
                /\ next_write_index = next_read_index

\* The DCHECKs of Insert: publishing an element finds the count below the
\* size, although the check that allowed it was made two steps earlier; and
\* no Remove counts down from zero.
CountWithinSize == /\ ppc \in {"swap", "publish"} => num_elements < Size
                   /\ cpc \in {"swap", "release"} => num_elements > 0

\* Slots s and the bottles x, y outside make up Bottles, each exactly once.
Partition(s, x, y) ==
    /\ {s[i] : i \in Index} \cup {x, y} = Bottles
    /\ x # y
    /\ \A i \in Index : s[i] \notin {x, y}
    /\ \A i, j \in Index : i # j => s[i] # s[j]

\* Insert and Remove only exchange objects: the ring and the two users always
\* hold every bottle exactly once, so that steady-state operation neither
\* allocates nor frees and no buffer is ever reachable from two places.
BottlesConserved == Partition(slot, input, output)

(***************************************************************************)
(* The queue a user sees: num_elements_ items, of which the first is       *)
(* already in the consumer's hands while a Remove is between its exchange  *)
(* and its count-down.                                                     *)
(***************************************************************************)
Oldest == CASE cpc = "advance" -> Wrap(next_read_index + 1)
            [] cpc = "clear"   -> Wrap(next_read_index + cleared)
            [] OTHER           -> next_read_index

Held(i) == IF cpc = "release" /\ i = 1 THEN output
                                       ELSE slot[Wrap(Oldest + i - 1)]

Contents == [i \in 1 .. num_elements |-> content[Held(i)]]

Fifo == INSTANCE BoundedFifo WITH queue <- Contents

\* Insert, Remove and Clear, with all their steps interleaved, implement the
\* bounded queue: nothing is lost, duplicated, reordered or overwritten, an
\* Insert is refused only by a full queue and a Remove only by an empty one.
ImplementsFifo == Fifo!Spec
=============================================================================
