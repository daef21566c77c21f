-------------------------- MODULE SwapQueueProofs --------------------------
(***************************************************************************)
(* What SwapQueue guarantees for a ring of any size and items of any kind. *)
(***************************************************************************)
EXTENDS SwapQueue, SequenceTheorems, TLAPS

(***************************************************************************)
(* The invariant that carries everything: the slot the producer fills next *)
(* is num_elements_ slots after the oldest item, whatever step either      *)
(* thread has reached.  With the count strictly between 0 and Size while   *)
(* both are about to exchange, the two slots differ.                       *)
(***************************************************************************)
Newest == IF ppc = "advance" THEN Wrap(next_write_index + 1)
                             ELSE next_write_index

Aligned == Newest = Wrap(Oldest + num_elements)

IndInv == TypeOK /\ CountWithinSize /\ Aligned

\* The first state is aligned: both indices at slot 0, no item.
LEMMA InitIndInv == Init => IndInv
<1> SUFFICES ASSUME Init PROVE IndInv
  OBVIOUS
<1> USE SizeAssumption DEF Init
<1>1. TypeOK
  BY DEF TypeOK, Index, Bottles
<1>2. CountWithinSize
  BY DEF CountWithinSize
<1>3. Aligned
  BY DEF Aligned, Newest, Oldest, Wrap
<1> QED
  BY <1>1, <1>2, <1>3 DEF IndInv

\* Each step of Insert, Remove and Clear keeps the variables in their types;
\* the counts and indices need the other two parts of the invariant.
LEMMA NextTypeOK == IndInv /\ [Next]_vars => TypeOK'
<1> SUFFICES ASSUME IndInv, [Next]_vars
             PROVE  TypeOK'
  OBVIOUS
<1> USE SizeAssumption, ItemsAssumption
    DEF IndInv, TypeOK, CountWithinSize, Wrap, Index, Bottles, pvars, cvars
<1>1. ASSUME NEW m \in Items, InsertLoad(m) PROVE TypeOK'
  BY <1>1 DEF InsertLoad
<1>2. CASE InsertSwap
  BY <1>2 DEF InsertSwap
<1>3. CASE InsertPublish
  BY <1>3, SMTT(30) DEF InsertPublish
<1>4. CASE InsertAdvance
  BY <1>4 DEF InsertAdvance
<1>5. CASE RemoveLoad
  BY <1>5 DEF RemoveLoad
<1>6. CASE RemoveSwap
  BY <1>6 DEF RemoveSwap
<1>7. CASE RemoveRelease
  <2>1. num_elements' \in 0 .. Size
    BY <1>7 DEF RemoveRelease
  <2>2. received' \in {<<m>> : m \in Items}
    <3>1. content[output] \in Items
      OBVIOUS
    <3>2. received' = <<content[output]>>
      BY <1>7 DEF RemoveRelease
    <3> QED
      BY ONLY <3>1, <3>2
  <2> QED
    BY <1>7, <2>1, <2>2 DEF RemoveRelease
<1>8. CASE RemoveAdvance
  BY <1>8 DEF RemoveAdvance
<1>9. CASE ClearExchange
  BY <1>9 DEF ClearExchange
<1>10. CASE ClearAdvance
  BY <1>10 DEF ClearAdvance
<1>11. CASE UNCHANGED vars
  BY <1>11 DEF vars
<1> QED
  BY <1>1, <1>2, <1>3, <1>4, <1>5, <1>6, <1>7, <1>8, <1>9, <1>10, <1>11
  DEF Next, Producer, Consumer

\* Between the check of the count and its change, the other thread moves the
\* count only in the direction that keeps the check true.
LEMMA NextCount == IndInv /\ [Next]_vars => CountWithinSize'
<1> SUFFICES ASSUME IndInv, [Next]_vars
             PROVE  CountWithinSize'
  OBVIOUS
<1> USE SizeAssumption DEF IndInv, TypeOK, CountWithinSize, pvars, cvars
<1>1. ASSUME NEW m \in Items, InsertLoad(m) PROVE CountWithinSize'
  BY <1>1 DEF InsertLoad
<1>2. CASE InsertSwap
  BY <1>2 DEF InsertSwap
<1>3. CASE InsertPublish
  BY <1>3 DEF InsertPublish
<1>4. CASE InsertAdvance
  BY <1>4 DEF InsertAdvance
<1>5. CASE RemoveLoad
  BY <1>5 DEF RemoveLoad
<1>6. CASE RemoveSwap
  BY <1>6 DEF RemoveSwap
<1>7. CASE RemoveRelease
  BY <1>7 DEF RemoveRelease
<1>8. CASE RemoveAdvance
  BY <1>8 DEF RemoveAdvance
<1>9. CASE ClearExchange
  BY <1>9 DEF ClearExchange
<1>10. CASE ClearAdvance
  BY <1>10 DEF ClearAdvance
<1>11. CASE UNCHANGED vars
  BY <1>11 DEF vars
<1> QED
  BY <1>1, <1>2, <1>3, <1>4, <1>5, <1>6, <1>7, <1>8, <1>9, <1>10, <1>11
  DEF Next, Producer, Consumer

\* A step either moves one end of the queue together with the count, or
\* catches an index up with a count already changed.
LEMMA NextAligned == IndInv /\ [Next]_vars => Aligned'
<1> SUFFICES ASSUME IndInv, [Next]_vars
             PROVE  Aligned'
  OBVIOUS
<1>0. /\ num_elements \in 0 .. Size
      /\ next_write_index \in 0 .. Size - 1
      /\ next_read_index \in 0 .. Size - 1
      /\ cleared \in 0 .. Size
  BY DEF IndInv, TypeOK, Index
<1> USE <1>0, SizeAssumption
    DEF IndInv, CountWithinSize, Aligned, Newest, Oldest, Wrap, pvars, cvars
<1>1. ASSUME NEW m \in Items, InsertLoad(m) PROVE Aligned'
  BY <1>1 DEF InsertLoad
<1>2. CASE InsertSwap
  BY <1>2 DEF InsertSwap
<1>3. CASE InsertPublish
  BY <1>3 DEF InsertPublish
<1>4. CASE InsertAdvance
  BY <1>4 DEF InsertAdvance
<1>5. CASE RemoveLoad
  BY <1>5 DEF RemoveLoad
<1>6. CASE RemoveSwap
  BY <1>6 DEF RemoveSwap
<1>7. CASE RemoveRelease
  BY <1>7 DEF RemoveRelease
<1>8. CASE RemoveAdvance
  BY <1>8 DEF RemoveAdvance
<1>9. CASE ClearExchange
  BY <1>9 DEF ClearExchange
<1>10. CASE ClearAdvance
  BY <1>10 DEF ClearAdvance
<1>11. CASE UNCHANGED vars
  BY <1>11 DEF vars
<1> QED
  BY <1>1, <1>2, <1>3, <1>4, <1>5, <1>6, <1>7, <1>8, <1>9, <1>10, <1>11
  DEF Next, Producer, Consumer

\* Together: the invariant is inductive.
LEMMA NextIndInv == IndInv /\ [Next]_vars => IndInv'
  BY NextTypeOK, NextCount, NextAligned DEF IndInv

\* The invariant holds in every reachable state.
LEMMA SpecIndInv == Spec => []IndInv
  BY InitIndInv, NextIndInv, PTL DEF Spec

\* Type correctness: both indices stay inside the ring (the DCHECK_LT of
\* Insert, Remove and Clear) and the count between 0 and Size.
THEOREM TypeCorrect == Spec => []TypeOK
<1>1. IndInv => TypeOK
  BY DEF IndInv
<1> QED
  BY <1>1, SpecIndInv, PTL

\* Insert never counts beyond the size and Remove never below zero, although
\* each acts on a count it read earlier.
THEOREM CountSafe == Spec => []CountWithinSize
<1>1. IndInv => CountWithinSize
  BY DEF IndInv
<1> QED
  BY <1>1, SpecIndInv, PTL

\* The producer and the consumer are never both about to exchange the bottle
\* of one slot.
THEOREM SlotRaceFree == Spec => []NoSlotRace
<1>1. IndInv => NoSlotRace
  BY SizeAssumption DEF IndInv, TypeOK, CountWithinSize, Aligned, Newest, Oldest,
     Wrap, Index, NoSlotRace
<1> QED
  BY <1>1, SpecIndInv, PTL

(***************************************************************************)
(* No bottle is lost, duplicated or allocated.                             *)
(***************************************************************************)

\* Exchanging the bottle x with that of a slot keeps the partition.
LEMMA ExchangePartition ==
    ASSUME NEW s \in [Index -> Bottles], NEW x, NEW y, NEW k \in Index,
           Partition(s, x, y)
    PROVE  Partition([s EXCEPT ![k] = x], s[k], y)
<1> DEFINE t == [s EXCEPT ![k] = x]
<1>1. /\ t[k] = x
      /\ \A i \in Index : i # k => t[i] = s[i]
  OBVIOUS
<1>2. {t[i] : i \in Index} \cup {s[k], y} = Bottles
  BY <1>1 DEF Partition
<1> QED
  BY <1>1, <1>2 DEF Partition

\* The two users' bottles play the same part.
LEMMA PartitionSymmetric ==
    ASSUME NEW s, NEW x, NEW y, Partition(s, x, y) PROVE Partition(s, y, x)
  BY DEF Partition

\* Insert, Remove and Clear only ever exchange bottles.
LEMMA NextConserved == TypeOK /\ BottlesConserved /\ [Next]_vars
                         => BottlesConserved'
<1> SUFFICES ASSUME TypeOK, BottlesConserved, [Next]_vars
             PROVE  BottlesConserved'
  OBVIOUS
<1>1. CASE InsertSwap
  <2>1. next_write_index \in Index /\ slot \in [Index -> Bottles]
    BY DEF TypeOK
  <2>2. Partition([slot EXCEPT ![next_write_index] = input],
                  slot[next_write_index], output)
    BY <2>1, ExchangePartition DEF BottlesConserved
  <2> QED
    BY <1>1, <2>2 DEF InsertSwap, BottlesConserved, cvars
<1>2. CASE RemoveSwap
  <2>1. next_read_index \in Index /\ slot \in [Index -> Bottles]
    BY DEF TypeOK
  <2>2. Partition([slot EXCEPT ![next_read_index] = output],
                  slot[next_read_index], input)
    BY <2>1, ExchangePartition, PartitionSymmetric DEF BottlesConserved
  <2> QED
    BY <1>2, <2>2, PartitionSymmetric DEF RemoveSwap, BottlesConserved, pvars
<1>3. CASE UNCHANGED <<slot, input, output>>
  BY <1>3 DEF BottlesConserved
<1> QED
  BY <1>1, <1>2, <1>3 DEF Next, Producer, Consumer, InsertLoad, InsertPublish,
     InsertAdvance, RemoveLoad, RemoveRelease, RemoveAdvance, ClearExchange,
     ClearAdvance, vars, pvars, cvars

\* The ring and the two users always hold every bottle exactly once: no
\* operation of SwapQueue allocates, frees or aliases a buffer.
THEOREM BottlesSafe == Spec => []BottlesConserved
<1>1. Init => BottlesConserved
  BY SizeAssumption DEF Init, BottlesConserved, Partition, Index, Bottles
<1>2. IndInv => TypeOK
  BY DEF IndInv
<1> QED
  BY <1>1, <1>2, NextConserved, SpecIndInv, PTL DEF Spec

(***************************************************************************)
(* Refinement of the bounded FIFO.                                         *)
(***************************************************************************)

\* What the user sees is a sequence of num_elements_ items.
LEMMA ContentsSeq ==
    IndInv => /\ \A i \in 1 .. num_elements :
                    Wrap(Oldest + i - 1) \in Index /\ Held(i) \in Bottles
              /\ Contents \in Seq(Items)
              /\ Len(Contents) = num_elements
<1> SUFFICES ASSUME IndInv
             PROVE  /\ \A i \in 1 .. num_elements :
                         Wrap(Oldest + i - 1) \in Index /\ Held(i) \in Bottles
                    /\ Contents \in Seq(Items)
                    /\ Len(Contents) = num_elements
  OBVIOUS
<1>t. /\ num_elements \in 0 .. Size
      /\ next_read_index \in Index
      /\ cleared \in 0 .. Size
      /\ slot \in [Index -> Bottles]
      /\ output \in Bottles
  BY DEF IndInv, TypeOK
<1>0. \A i \in 1 .. num_elements : Wrap(Oldest + i - 1) \in Index
  <2>1. Oldest \in Index
    BY <1>t, SizeAssumption DEF Oldest, Wrap, Index
  <2> QED
    BY <1>t, <2>1, SizeAssumption DEF Wrap, Index
<1>1. \A i \in 1 .. num_elements : Held(i) \in Bottles
  BY <1>t, <1>0 DEF Held
<1>2. Contents \in [1 .. num_elements -> Items]
  BY <1>1 DEF IndInv, TypeOK, Contents
<1>3. num_elements \in Nat
  BY SizeAssumption DEF IndInv, TypeOK
<1> QED
  BY <1>0, <1>1, <1>2, <1>3, SeqDef, LenProperties

\* The part of it the published item needs.
LEMMA HeldIsBottle == IndInv => \A i \in 1 .. num_elements : Held(i) \in Bottles
  BY ContentsSeq

\* The producer's bottle holds no item of the queue, and neither does its next
\* slot while it is about to exchange it.
LEMMA HeldElsewhere ==
    ASSUME IndInv, BottlesConserved
    PROVE  \A i \in 1 .. num_elements :
             /\ Held(i) # input
             /\ ppc = "swap" => Wrap(Oldest + i - 1) # next_write_index
<1>1. /\ num_elements \in 0 .. Size
      /\ next_write_index \in Index
      /\ next_read_index \in Index
      /\ cleared \in 0 .. Size
  BY DEF IndInv, TypeOK
<1>2. Oldest \in Index
  BY <1>1, SizeAssumption DEF Oldest, Wrap, Index
<1>3. \A i \in 1 .. num_elements : Wrap(Oldest + i - 1) \in Index
  BY <1>1, <1>2, SizeAssumption DEF Wrap, Index
<1>4. \A i \in 1 .. num_elements : Held(i) # input
  BY <1>3 DEF Held, BottlesConserved, Partition
<1>5. ASSUME ppc = "swap", NEW i \in 1 .. num_elements
      PROVE  Wrap(Oldest + i - 1) # next_write_index
  BY <1>1, <1>2, <1>5, SizeAssumption
  DEF IndInv, CountWithinSize, Aligned, Newest, Wrap, Index
<1> QED
  BY <1>4, <1>5

\* A step that keeps the count and the item behind every position is
\* invisible to the user of the queue.
LEMMA SameContents ==
    ASSUME num_elements' = num_elements,
           \A i \in 1 .. num_elements : content[Held(i)]' = content[Held(i)]
    PROVE  Contents' = Contents
  BY DEF Contents

\* Every step of the two threads is a step of the bounded FIFO or invisible.
LEMMA NextRefines ==
    ASSUME IndInv, IndInv', BottlesConserved, [Next]_vars
    PROVE  [Fifo!Next]_(Fifo!vars)
<1> USE SizeAssumption
<1>0. /\ num_elements \in 0 .. Size
      /\ next_write_index \in Index
      /\ next_read_index \in Index
      /\ cleared \in 0 .. Size
      /\ slot \in [Index -> Bottles]
      /\ content \in [Bottles -> Items]
      /\ input \in Bottles
      /\ output \in Bottles
  BY DEF IndInv, TypeOK
<1>h. \A i \in 1 .. num_elements :
        /\ Held(i) \in Bottles
        /\ Held(i) # input
        /\ Wrap(Oldest + i - 1) \in Index
        /\ ppc = "swap" => Wrap(Oldest + i - 1) # next_write_index
  BY ContentsSeq, HeldElsewhere
<1>c. /\ Contents \in Seq(Items)
      /\ Len(Contents) = num_elements
      /\ Contents' \in Seq(Items)
      /\ Len(Contents') = num_elements'
  <2>1. Contents \in Seq(Items) /\ Len(Contents) = num_elements
    BY ContentsSeq
  <2>2. (Contents \in Seq(Items) /\ Len(Contents) = num_elements)'
    BY ContentsSeq, PTL
  <2> QED
    BY <2>1, <2>2
<1>1. ASSUME NEW m \in Items, InsertLoad(m)
      PROVE  [Fifo!Next]_(Fifo!vars)
  <2>1. Contents' = Contents
    <3>1. \A i \in 1 .. num_elements : Held(i)' = Held(i)
      BY <1>1 DEF InsertLoad, cvars, Held, Oldest
    <3>2. \A i \in 1 .. num_elements : content[Held(i)]' = content[Held(i)]
      BY <1>0, <1>1, <1>h, <3>1 DEF InsertLoad
    <3> QED
      BY <1>1, <3>2, SameContents DEF InsertLoad
  <2>2. CASE num_elements = Size
    BY <1>1, <1>c, <2>1, <2>2 DEF InsertLoad, cvars, Fifo!Next, Fifo!Refuse
  <2>3. CASE num_elements # Size
    BY <1>1, <2>1, <2>3 DEF InsertLoad, cvars, Fifo!vars
  <2> QED
    BY <2>2, <2>3
<1>2. CASE InsertSwap
  <2>1. \A i \in 1 .. num_elements : content[Held(i)]' = content[Held(i)]
    <3>1. ppc = "swap" /\ Oldest' = Oldest
      BY <1>2 DEF InsertSwap, cvars, Oldest
    <3>2. \A i \in 1 .. num_elements : Held(i)' = Held(i)
      BY <1>0, <1>2, <1>h, <3>1 DEF InsertSwap, cvars, Held
    <3> QED
      BY <1>2, <3>2 DEF InsertSwap
  <2>2. Contents' = Contents
    BY <1>2, <2>1, SameContents DEF InsertSwap
  <2> QED
    BY <1>2, <2>2 DEF InsertSwap, cvars, Fifo!vars
<1>3. CASE InsertPublish
  <2>1. num_elements < Size /\ ppc = "publish"
    BY <1>3 DEF InsertPublish, IndInv, CountWithinSize
  <2>k. PICK k \in Nat : k = num_elements + 1
    BY <1>0
  <2>b. num_elements' = k /\ k \in 1 .. num_elements'
    BY <1>0, <1>3, <2>k DEF InsertPublish
  <2>2. PICK b \in Bottles : b = Held(k)'
    <3>1. (\A i \in 1 .. num_elements : Held(i) \in Bottles)'
      BY HeldIsBottle, PTL
    <3> QED
      BY <3>1, <2>b
  <2>3. Contents' = Append(Contents, content[b])
    <3>1. Oldest' = Oldest /\ num_elements' = num_elements + 1
      BY <1>3 DEF InsertPublish, cvars, Oldest
    <3>2. \A i \in 1 .. num_elements : Held(i)' = Held(i)
      BY <1>3, <3>1 DEF InsertPublish, cvars, Held
    <3>3. content' = content
      BY <1>3 DEF InsertPublish
    <3>4. ASSUME NEW i \in 1 .. num_elements
          PROVE  Contents'[i] = Contents[i]
      <4>1. i \in 1 .. num_elements'
        BY <1>0, <3>1
      <4> QED
        BY <3>2, <3>3, <4>1 DEF Contents
    <3>5. Contents'[k] = content[b]
      BY <2>b, <2>2, <3>3 DEF Contents
    <3>6. content[b] \in Items
      BY <1>0
    <3> DEFINE r == content[b]
               t == Append(Contents, r)
    <3>7. /\ t \in Seq(Items) /\ Len(t) = Len(Contents) + 1
          /\ \A i \in 1 .. Len(Contents) : t[i] = Contents[i]
          /\ t[Len(Contents) + 1] = r
      <4> HIDE DEF r
      <4>1. r \in Items
        BY <3>6 DEF r
      <4> QED
        BY <1>c, <4>1, AppendProperties
    <3>8. Len(Contents) = num_elements /\ Len(Contents') = k /\ k = num_elements + 1
          /\ num_elements \in Nat
      BY <1>0, <1>c, <2>k, <3>1
    <3> HIDE DEF t
    <3>9. ASSUME NEW i \in 1 .. k PROVE Contents'[i] = t[i]
      <4>1. CASE i = k
        BY <3>5, <3>7, <3>8, <4>1
      <4>2. CASE i # k
        <5>1. i \in 1 .. num_elements
          BY <3>8, <4>2
        <5> QED
          BY <3>4, <3>7, <3>8, <5>1
      <4> QED
        BY <4>1, <4>2
    <3>10. Contents' = t
      BY <1>c, <3>7, <3>8, <3>9, SeqEqual
    <3> QED
      BY <3>10 DEF t
  <2>4. content[b] \in Items
    BY <1>0
  <2> QED
    BY <1>3, <1>c, <2>1, <2>3, <2>4
    DEF InsertPublish, cvars, Fifo!Next, Fifo!Accept
<1>4. CASE InsertAdvance
  BY <1>4 DEF InsertAdvance, cvars, Fifo!vars, Contents, Held, Oldest
<1>5. CASE RemoveLoad
  <2>1. Contents' = Contents
    BY <1>5 DEF RemoveLoad, pvars, Contents, Held, Oldest
  <2>2. CASE num_elements = 0
    <3>1. Contents = <<>>
      BY <1>c, <2>2, EmptySeq
    <3> QED
      BY <1>5, <2>1, <2>2, <3>1 DEF RemoveLoad, pvars, Fifo!Next, Fifo!Starve
  <2>3. CASE num_elements # 0
    BY <1>5, <2>1, <2>3 DEF RemoveLoad, pvars, Fifo!vars
  <2> QED
    BY <2>2, <2>3
<1>6. CASE RemoveSwap
  <2>1. cpc = "swap" /\ cpc' = "release" /\ Oldest = next_read_index
        /\ Oldest' = next_read_index
    BY <1>6 DEF RemoveSwap, Oldest
  <2>2. num_elements > 0
    BY <1>6, <2>1 DEF IndInv, CountWithinSize
  <2>3. Held(1)' = Held(1)
    <3>1. Wrap(next_read_index + 1 - 1) = next_read_index
      BY <1>0 DEF Wrap, Index
    <3> QED
      BY <1>6, <2>1, <3>1 DEF RemoveSwap, Held
  <2>4. ASSUME NEW i \in 1 .. num_elements, i # 1
        PROVE  Held(i)' = Held(i)
    <3>1. Wrap(next_read_index + i - 1) # next_read_index
      BY <1>0, <2>4 DEF Wrap, Index
    <3>2. Wrap(next_read_index + i - 1) \in Index
      BY <1>h, <2>1
    <3> QED
      BY <1>0, <1>6, <2>1, <2>4, <3>1, <3>2 DEF RemoveSwap, Held
  <2>5. \A i \in 1 .. num_elements : content[Held(i)]' = content[Held(i)]
    BY <1>6, <2>3, <2>4 DEF RemoveSwap
  <2>6. Contents' = Contents
    BY <1>6, <2>5, SameContents DEF RemoveSwap
  <2> QED
    BY <1>6, <2>6 DEF RemoveSwap, pvars, Fifo!vars
<1>7. CASE RemoveRelease
  <2>1. /\ cpc = "release" /\ cpc' = "advance"
        /\ num_elements > 0
        /\ num_elements' = num_elements - 1
        /\ Oldest = next_read_index
        /\ Oldest' = Wrap(next_read_index + 1)
    BY <1>7 DEF RemoveRelease, Oldest, IndInv, CountWithinSize, Wrap
  <2>2. Contents # <<>> /\ Head(Contents) = content[output]
    <3>1. Contents[1] = content[output]
      BY <1>0, <2>1 DEF Contents, Held
    <3> QED
      BY <1>0, <1>c, <2>1, <3>1, EmptySeq
  <2>3. Contents' = Tail(Contents)
    <3>1. ASSUME NEW i \in 1 .. num_elements'
          PROVE  Contents'[i] = Contents[i + 1]
      <4>1. Wrap(Wrap(next_read_index + 1) + i - 1)
              = Wrap(next_read_index + (i + 1) - 1)
        BY <1>0, <2>1 DEF Wrap, Index
      <4>2. Held(i)' = Held(i + 1)
        BY <1>0, <1>7, <2>1, <4>1 DEF RemoveRelease, Held
      <4> QED
        BY <1>0, <1>7, <2>1, <4>2 DEF RemoveRelease, Contents
    <3> QED
      BY <1>0, <1>c, <2>1, <2>2, <3>1, HeadTailProperties, SeqEqual
  <2> QED
    BY <1>7, <2>2, <2>3 DEF RemoveRelease, pvars, Fifo!Next, Fifo!Deliver
<1>8. CASE RemoveAdvance
  <2>1. Oldest' = Oldest
    BY <1>8 DEF RemoveAdvance, Oldest
  <2> QED
    BY <1>8, <2>1 DEF RemoveAdvance, pvars, Fifo!vars, Contents, Held
<1>9. CASE ClearExchange
  <2>1. Contents' = <<>>
    BY <1>c, <1>9, EmptySeq DEF ClearExchange
  <2> QED
    BY <1>9, <2>1 DEF ClearExchange, pvars, Fifo!Next, Fifo!Drop
<1>10. CASE ClearAdvance
  <2>1. Oldest' = Oldest
    BY <1>10 DEF ClearAdvance, Oldest
  <2> QED
    BY <1>10, <2>1 DEF ClearAdvance, pvars, Fifo!vars, Contents, Held
<1>11. CASE UNCHANGED vars
  BY <1>11 DEF vars, cvars, pvars, Fifo!vars, Contents, Held, Oldest
<1> QED
  BY <1>1, <1>2, <1>3, <1>4, <1>5, <1>6, <1>7, <1>8, <1>9, <1>10, <1>11
  DEF Next, Producer, Consumer

\* SwapQueue is a bounded FIFO queue for every size and every kind of item:
\* whatever the interleaving, items come out once, in the order they went in,
\* Insert refuses only when Size items are held, Remove only when none is.
THEOREM QueueRefinesFifo == Spec => ImplementsFifo
<1>1. Init => Fifo!Init
  BY EmptySeq DEF Init, Fifo!Init, Contents
<1>2. Init => BottlesConserved
  BY SizeAssumption DEF Init, BottlesConserved, Partition, Index, Bottles
<1>3. IndInv => TypeOK
  BY DEF IndInv
<1>4. IndInv /\ IndInv' /\ BottlesConserved /\ [Next]_vars
        => [Fifo!Next]_(Fifo!vars)
  BY NextRefines
<1> QED
  BY <1>1, <1>4, SpecIndInv, BottlesSafe, PTL
  DEF Spec, ImplementsFifo, Fifo!Spec
=============================================================================
