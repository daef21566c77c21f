--------------------------- MODULE MessagesProofs ---------------------------
(***************************************************************************)
(* The two queues that carry messages past the capture thread's locks, for *)
(* any number of threads and any bounds: the runtime settings, and the     *)
(* statistics.                                                             *)
(***************************************************************************)
EXTENDS RuntimeSettings, StatsReporter, FiniteSetTheorems, SequenceTheorems,
        TLAPS

(***************************************************************************)
(* The runtime settings: the inductive invariant.  Passed is the number of *)
(* settings the queue has given back; the ring holds the next ones in      *)
(* order, from next_read_index on.                                         *)
(***************************************************************************)
Stages == {"idle", "insert", "insert_swap", "publish", "insert_advance",
           "report", "remove", "remove_swap", "release", "remove_advance"}

\* The index i places after a, round the ring.
Ahead(a, i) == IF a + i < Size THEN a + i ELSE a + i - Size
Passed == Len(received) + Cardinality(discarded)

RingOK ==
    /\ num_elements \in 0 .. Size
    /\ next_write_index \in Index /\ next_read_index \in Index
    /\ slot \in [Index -> Nat]

ThreadsOK ==
    /\ pc \in [Threads -> Stages]
    /\ setting \in [Threads -> Nat] /\ hand \in [Threads -> Nat]
    /\ remaining \in [Threads -> Int] /\ calls \in Nat

\* What was given back was either received, in order, or discarded, once.
LogOK ==
    /\ received \in Seq(Nat) /\ IsFiniteSet(discarded)
    /\ Received \cup discarded = 1 .. Passed
    /\ \A i \in 1 .. Len(received) - 1 : received[i] < received[i + 1]

\* The application's calls are serialized, so one thread at most is inside one.
OneBusy == \A t, u \in Threads : pc[t] # "idle" /\ pc[u] # "idle" => t = u

\* The slots from first to n - 1 ahead of next_read_index hold the settings due.
Holds(first, n) ==
    \A i \in Index : first <= i /\ i < n =>
        slot[Ahead(next_read_index, i)] = Passed + 1 + i

\* The ring is in order and what it holds ends with the setting last.
Waiting(last) ==
    /\ last = Passed + num_elements
    /\ next_write_index = Ahead(next_read_index, num_elements)
    /\ Holds(0, num_elements)

\* A producer's newest setting is not in the ring yet while it is inserting it
\* or removing another to make room.
Enqueuing(t) == t # "capture" /\ calls > 0 /\ setting[t] = calls
Last(t) == IF t = "capture" THEN calls ELSE calls - 1
MayRemove(t) == t = "capture" \/ Enqueuing(t)

\* Where the operation of a busy thread stands.
StageInv(t) ==
    /\ pc[t] = "report" => Waiting(calls)
    /\ pc[t] = "insert" => /\ Enqueuing(t) /\ Waiting(calls - 1)
                           /\ remaining[t] > 0 \/ num_elements < Size
    /\ pc[t] = "insert_swap" => /\ Enqueuing(t) /\ Waiting(calls - 1)
                                /\ num_elements < Size
    /\ pc[t] = "publish" => /\ Enqueuing(t) /\ Waiting(calls - 1)
                            /\ num_elements < Size
                            /\ slot[next_write_index] = calls
    /\ pc[t] = "insert_advance" =>
          /\ calls = Passed + num_elements /\ num_elements > 0
          /\ next_write_index = Ahead(next_read_index, num_elements - 1)
          /\ Holds(0, num_elements)
    /\ pc[t] = "remove" => /\ MayRemove(t) /\ Waiting(Last(t))
                           /\ t = "capture" \/ num_elements > 0
    /\ pc[t] = "remove_swap" => /\ MayRemove(t) /\ Waiting(Last(t))
                                /\ num_elements > 0
    /\ pc[t] = "release" =>
          /\ MayRemove(t) /\ num_elements > 0 /\ hand[t] = Passed + 1
          /\ Last(t) = Passed + num_elements
          /\ next_write_index = Ahead(next_read_index, num_elements)
          /\ Holds(1, num_elements)
    /\ pc[t] = "remove_advance" =>
          /\ MayRemove(t) /\ num_elements < Size /\ hand[t] = Passed + 1
          /\ Last(t) = Passed + 1 + num_elements
          /\ next_write_index = Ahead(next_read_index, num_elements + 1)
          /\ Holds(1, num_elements + 1)

SettingsInv ==
    /\ RingOK /\ ThreadsOK /\ LogOK /\ OneBusy
    /\ AllIdle => Waiting(calls)
    /\ \A t \in Threads : StageInv(t)

(***************************************************************************)
(* Indices.                                                                *)
(***************************************************************************)
LEMMA AheadIsModulo ==
    ASSUME NEW a \in Index, NEW i \in 0 .. Size
    PROVE  Ahead(a, i) = (a + i) % Size
<1>1. a \in Nat /\ a < Size /\ i \in Nat /\ i <= Size
  BY SizeAssumption DEF Index
<1>2. CASE a + i < Size
  BY <1>1, <1>2, SizeAssumption, SMT DEF Ahead
<1>3. CASE ~(a + i < Size)
  <2>1. a + i = Size + (a + i - Size) /\ a + i - Size \in 0 .. Size
    BY <1>1, <1>3, SizeAssumption
  <2>2. CASE a + i - Size < Size
    BY <1>1, <1>3, <2>2, SizeAssumption, SMT DEF Ahead
  <2> QED
    BY <1>1, <2>2, SizeAssumption
<1> QED
  BY <1>2, <1>3

LEMMA NextIsAhead == ASSUME NEW a \in Index PROVE Next1(a) = Ahead(a, 1)
BY AheadIsModulo, SizeAssumption DEF Next1

LEMMA AheadFacts ==
    /\ \A a \in Index, i \in 0 .. Size : Ahead(a, i) \in Index
    /\ \A a \in Index : Ahead(a, 0) = a
    /\ \A a \in Index, i \in Index : Ahead(Ahead(a, 1), i) = Ahead(a, i + 1)
    /\ \A a \in Index, i \in Index : Ahead(Ahead(a, i), 1) = Ahead(a, i + 1)
    /\ \A a \in Index, i \in Index, j \in Index :
          Ahead(a, i) = Ahead(a, j) => i = j
BY SizeAssumption DEF Index, Ahead

(***************************************************************************)
(* Threads: at most one is inside a call.                                  *)
(***************************************************************************)
LEMMA OnlyOne ==
    ASSUME ThreadsOK, OneBusy, NEW t \in Threads, pc[t] # "idle",
           NEW label \in Stages, Goto(t, label)
    PROVE  /\ pc' \in [Threads -> Stages] /\ pc'[t] = label
           /\ \A u \in Threads : u # t => pc'[u] = "idle"
           /\ OneBusy' /\ (AllIdle' => label = "idle")
BY DEF ThreadsOK, OneBusy, Goto, AllIdle

\* It is enough to look at the thread that moved.
LEMMA OtherStages ==
    ASSUME NEW t \in Threads, StageInv(t)',
           \A u \in Threads : u # t => pc'[u] = "idle"
    PROVE  \A u \in Threads : StageInv(u)'
BY DEF StageInv

(***************************************************************************)
(* Enqueue                                                                 *)
(***************************************************************************)
LEMMA CallInv ==
    ASSUME Serialized, SettingsInv, NEW t \in Producers, EnqueueCall(t)
    PROVE  SettingsInv'
<1> USE DEF SettingsInv, EnqueueCall
<1>1. AllIdle /\ Waiting(calls) /\ t \in Threads /\ t # "capture"
  BY ThreadAssumption DEF MayStart, AllIdle, Threads
<1>2. pc'[t] = "insert" /\ \A u \in Threads : u # t => pc'[u] = "idle"
  BY <1>1 DEF Goto, ThreadsOK, AllIdle
<1>3. calls' = calls + 1 /\ setting'[t] = calls' /\ remaining'[t] > 0
  BY <1>1, AttemptsAssumption DEF ThreadsOK
<1>4. RingOK' /\ ThreadsOK' /\ OneBusy' /\ ~AllIdle'
  BY <1>1, <1>2, <1>3, AttemptsAssumption
     DEF RingOK, ThreadsOK, OneBusy, AllIdle, ring, Goto, Stages
<1>5. LogOK' /\ Passed' = Passed
  BY DEF LogOK, log, Received, Passed
<1>7. (Waiting(calls - 1))'
  BY <1>1, <1>3, <1>5 DEF Waiting, Holds, ring, ThreadsOK
<1>8. StageInv(t)'
  BY <1>1, <1>2, <1>3, <1>7 DEF StageInv, Enqueuing, ThreadsOK
<1> QED
  BY <1>1, <1>2, <1>4, <1>5, <1>8, OtherStages

LEMMA InsertLoadInv ==
    ASSUME Serialized, SettingsInv, NEW t \in Threads, InsertLoad(t)
    PROVE  SettingsInv'
<1> USE DEF SettingsInv, InsertLoad
<1>1. pc[t] # "idle" /\ StageInv(t)
  OBVIOUS
<1>2. Enqueuing(t) /\ Waiting(calls - 1) /\ (remaining[t] > 0 \/ num_elements < Size)
  BY <1>1 DEF StageInv
<1>3. CASE num_elements # Size
  <2>1. Goto(t, "insert_swap") /\ UNCHANGED <<remaining, hand, lost>>
    BY <1>3
  <2>2. ThreadsOK' /\ OneBusy' /\ ~AllIdle' /\ pc'[t] = "insert_swap"
        /\ \A u \in Threads : u # t => pc'[u] = "idle"
    BY <1>1, <2>1, OnlyOne DEF ThreadsOK, Stages
  <2>3. RingOK' /\ num_elements < Size
    BY <1>3, SizeAssumption DEF RingOK, ring
  <2>6. LogOK'
    BY DEF LogOK, Received, Passed
  <2>4. Waiting(calls - 1)' /\ Enqueuing(t)'
    BY <1>2 DEF Waiting, Holds, ring, Passed, Enqueuing
  <2>5. StageInv(t)'
    BY <2>2, <2>3, <2>4 DEF StageInv, ring
  <2> QED
    BY <2>2, <2>3, <2>5, <2>6, OtherStages
<1>4. CASE num_elements = Size
  <2>1. remaining[t] > 0 /\ num_elements > 0
    BY <1>2, <1>4, SizeAssumption DEF RingOK
  <2>2. Goto(t, "remove") /\ hand' = [hand EXCEPT ![t] = 0] /\ UNCHANGED lost
    BY <1>4, <2>1
  <2>3. ThreadsOK' /\ OneBusy' /\ ~AllIdle' /\ pc'[t] = "remove"
        /\ \A u \in Threads : u # t => pc'[u] = "idle"
    BY <1>1, <1>4, <2>2, OnlyOne DEF ThreadsOK, Stages
  <2>4. RingOK' /\ LogOK'
    BY <2>2 DEF RingOK, LogOK, ring, Received, Passed
  <2>5. Waiting(calls - 1)' /\ Enqueuing(t)'
    BY <1>2 DEF Waiting, Holds, ring, Passed, Enqueuing
  <2>6. StageInv(t)'
    BY <2>1, <2>3, <2>5 DEF StageInv, ring, MayRemove, Last, Enqueuing
  <2> QED
    BY <2>3, <2>4, <2>6, OtherStages
<1> QED
  BY <1>3, <1>4

LEMMA InsertSwapInv ==
    ASSUME Serialized, SettingsInv, NEW t \in Threads, InsertSwap(t)
    PROVE  SettingsInv'
<1> USE DEF SettingsInv, InsertSwap
<1>1. /\ pc[t] # "idle" /\ Enqueuing(t) /\ Waiting(calls - 1)
      /\ num_elements < Size
  BY DEF StageInv
<1>2. ThreadsOK' /\ OneBusy' /\ ~AllIdle' /\ pc'[t] = "publish"
      /\ \A u \in Threads : u # t => pc'[u] = "idle"
  BY <1>1, OnlyOne DEF ThreadsOK, Stages
<1>3. RingOK' /\ LogOK' /\ Passed' = Passed
  BY DEF RingOK, ThreadsOK, LogOK, log, Received, Passed
<1>4. /\ slot'[next_write_index] = calls
      /\ \A i \in Index : i # next_write_index => slot'[i] = slot[i]
  BY <1>1 DEF RingOK, Enqueuing
<1>5. num_elements \in Index
  BY <1>1, SizeAssumption DEF RingOK, Index
<1>6. \A i \in Index : i < num_elements =>
          /\ Ahead(next_read_index, i) \in Index
          /\ Ahead(next_read_index, i) # next_write_index
  <2> SUFFICES ASSUME NEW i \in Index, i < num_elements
               PROVE  /\ Ahead(next_read_index, i) \in Index
                      /\ Ahead(next_read_index, i) # next_write_index
    OBVIOUS
  <2>1. i \in 0 .. Size /\ next_read_index \in Index /\ i # num_elements
    BY SizeAssumption DEF RingOK, Index
  <2>2. next_write_index = Ahead(next_read_index, num_elements)
    BY <1>1 DEF Waiting
  <2> QED
    BY <1>5, <2>1, <2>2, AheadFacts
<1>7. Waiting(calls - 1)' /\ Enqueuing(t)'
  BY <1>1, <1>3, <1>4, <1>6 DEF Waiting, Holds, Enqueuing
<1>8. StageInv(t)'
  BY <1>1, <1>2, <1>4, <1>7 DEF StageInv
<1> QED
  BY <1>2, <1>3, <1>8, OtherStages

LEMMA InsertPublishInv ==
    ASSUME Serialized, SettingsInv, NEW t \in Threads, InsertPublish(t)
    PROVE  SettingsInv'
<1> USE DEF SettingsInv, InsertPublish
<1>1. /\ pc[t] # "idle" /\ Waiting(calls - 1)
      /\ num_elements < Size /\ slot[next_write_index] = calls
  BY DEF StageInv
<1>2. ThreadsOK' /\ OneBusy' /\ ~AllIdle' /\ pc'[t] = "insert_advance"
      /\ \A u \in Threads : u # t => pc'[u] = "idle"
  BY <1>1, OnlyOne DEF ThreadsOK, Stages
<1>3. RingOK' /\ LogOK' /\ Passed' = Passed
  BY <1>1, SizeAssumption DEF RingOK, LogOK, log, Received, Passed
<1>4. Passed \in Int /\ calls = Passed + num_elements + 1
  BY <1>1, FS_CardinalityType, SMTT(30) DEF Waiting, Passed, LogOK, ThreadsOK, RingOK
<1>5. Holds(0, num_elements)'
  <2> SUFFICES ASSUME NEW i \in Index, i < num_elements + 1
               PROVE  slot[Ahead(next_read_index, i)] = Passed + 1 + i
    BY <1>3 DEF Holds
  <2>1. CASE i < num_elements
    BY <1>1, <2>1, SizeAssumption DEF Waiting, Holds, Index
  <2>2. CASE i = num_elements
    BY <1>1, <1>4, <2>2 DEF Waiting, RingOK
  <2> QED
    BY <2>1, <2>2 DEF RingOK, Index
<1>6. calls' = Passed' + num_elements' /\ num_elements' > 0
  BY <1>3, <1>4 DEF RingOK
<1>7. (next_write_index = Ahead(next_read_index, num_elements - 1))'
  BY <1>1 DEF Waiting, RingOK
<1>8. StageInv(t)'
  BY <1>2, <1>5, <1>6, <1>7 DEF StageInv
<1> QED
  BY <1>2, <1>3, <1>8, OtherStages

LEMMA InsertAdvanceInv ==
    ASSUME Serialized, SettingsInv, NEW t \in Threads, InsertAdvance(t)
    PROVE  SettingsInv'
<1> USE DEF SettingsInv, InsertAdvance
<1>1. /\ pc[t] # "idle"
      /\ calls = Passed + num_elements /\ num_elements > 0
      /\ next_write_index = Ahead(next_read_index, num_elements - 1)
      /\ Holds(0, num_elements)
  BY DEF StageInv
<1>2. ThreadsOK' /\ OneBusy' /\ ~AllIdle' /\ pc'[t] = "report"
      /\ \A u \in Threads : u # t => pc'[u] = "idle"
  BY <1>1, OnlyOne DEF ThreadsOK, Stages
<1>3. num_elements - 1 \in Index
  BY <1>1, SizeAssumption DEF RingOK, Index
<1>4. next_write_index' = Ahead(next_read_index, num_elements)
  BY <1>1, <1>3, NextIsAhead, AheadFacts, SizeAssumption DEF RingOK
<1>5. RingOK' /\ LogOK' /\ Passed' = Passed
  BY <1>4, AheadFacts, SMTT(30) DEF RingOK, LogOK, log, Received, Passed
<1>6. Waiting(calls)'
  BY <1>1, <1>4, <1>5 DEF Waiting, Holds
<1>7. StageInv(t)'
  BY <1>2, <1>6 DEF StageInv
<1> QED
  BY <1>2, <1>5, <1>7, OtherStages

LEMMA ReportInv ==
    ASSUME Serialized, SettingsInv, NEW t \in Threads, Report(t)
    PROVE  SettingsInv'
<1> USE DEF SettingsInv, Report
<1>1. pc[t] # "idle" /\ Waiting(calls)
  BY DEF StageInv
<1>2. ThreadsOK' /\ OneBusy' /\ pc'[t] = "idle"
      /\ \A u \in Threads : u # t => pc'[u] = "idle"
  BY <1>1, OnlyOne DEF ThreadsOK, Stages
<1>3. RingOK' /\ LogOK' /\ Passed' = Passed
  BY DEF RingOK, LogOK, ring, Received, Passed
<1>4. Waiting(calls)'
  BY <1>1, <1>3 DEF Waiting, Holds, ring
<1>5. StageInv(t)'
  BY <1>2 DEF StageInv
<1> QED
  BY <1>2, <1>3, <1>4, <1>5, OtherStages

(***************************************************************************)
(* Remove                                                                  *)
(***************************************************************************)
LEMMA CaptureCallInv ==
    ASSUME Serialized, SettingsInv, CaptureCall PROVE SettingsInv'
<1> DEFINE t == "capture"
<1> USE DEF SettingsInv, CaptureCall
<1>1. AllIdle /\ Waiting(calls) /\ t \in Threads
  BY DEF MayStart, AllIdle, Threads
<1>2. pc'[t] = "remove" /\ \A u \in Threads : u # t => pc'[u] = "idle"
  BY <1>1 DEF Goto, ThreadsOK, AllIdle
<1>3. RingOK' /\ ThreadsOK' /\ OneBusy' /\ ~AllIdle'
  BY <1>1, <1>2 DEF RingOK, ThreadsOK, OneBusy, AllIdle, ring, Goto, Stages
<1>4. LogOK' /\ Passed' = Passed
  BY DEF LogOK, log, Received, Passed
<1>5. Waiting(calls)'
  BY <1>1, <1>4 DEF Waiting, Holds, ring
<1>6. StageInv(t)'
  BY <1>1, <1>2, <1>5 DEF StageInv, MayRemove, Last
<1> QED
  BY <1>1, <1>2, <1>3, <1>4, <1>6, OtherStages

LEMMA RemoveLoadInv ==
    ASSUME Serialized, SettingsInv, NEW t \in Threads, RemoveLoad(t)
    PROVE  SettingsInv'
<1> USE DEF SettingsInv, RemoveLoad
<1>1. /\ pc[t] # "idle" /\ MayRemove(t) /\ Waiting(Last(t))
      /\ t = "capture" \/ num_elements > 0
  BY DEF StageInv
<1>2. RingOK' /\ LogOK' /\ Passed' = Passed
  BY DEF RingOK, LogOK, ring, log, Received, Passed
<1>3. Waiting(Last(t))' /\ MayRemove(t)'
  BY <1>1, <1>2 DEF Waiting, Holds, ring, Last, MayRemove, Enqueuing
<1>4. CASE num_elements # 0
  <2>1. ThreadsOK' /\ OneBusy' /\ ~AllIdle' /\ pc'[t] = "remove_swap"
        /\ \A u \in Threads : u # t => pc'[u] = "idle"
    BY <1>1, <1>4, OnlyOne DEF ThreadsOK, Stages
  <2>2. StageInv(t)'
    BY <1>2, <1>3, <1>4, <2>1, SizeAssumption DEF StageInv, RingOK, ring
  <2> QED
    BY <1>2, <2>1, <2>2, OtherStages
<1>5. CASE num_elements = 0
  <2>1. t = "capture"
    BY <1>1, <1>5
  <2>2. ThreadsOK' /\ OneBusy' /\ pc'[t] = "idle"
        /\ \A u \in Threads : u # t => pc'[u] = "idle"
    BY <1>1, <1>5, <2>1, OnlyOne DEF ThreadsOK, Stages
  <2>3. StageInv(t)' /\ Waiting(calls)'
    BY <1>3, <2>1, <2>2 DEF StageInv, Last
  <2> QED
    BY <1>2, <2>2, <2>3, OtherStages
<1> QED
  BY <1>4, <1>5

LEMMA RemoveSwapInv ==
    ASSUME Serialized, SettingsInv, NEW t \in Threads, RemoveSwap(t)
    PROVE  SettingsInv'
<1> USE DEF SettingsInv, RemoveSwap
<1>1. /\ pc[t] # "idle" /\ MayRemove(t) /\ Waiting(Last(t))
      /\ num_elements > 0
  BY DEF StageInv
<1>2. ThreadsOK' /\ OneBusy' /\ ~AllIdle' /\ pc'[t] = "release"
      /\ \A u \in Threads : u # t => pc'[u] = "idle"
  BY <1>1, OnlyOne DEF ThreadsOK, RingOK, Stages
<1>3. RingOK' /\ LogOK' /\ Passed' = Passed
  BY DEF RingOK, ThreadsOK, LogOK, log, Received, Passed
<1>4. 0 \in Index
  BY SizeAssumption DEF Index
<1>5. slot[next_read_index] = Passed + 1 /\ Passed \in Int
  <2>1. Passed \in Int
    BY FS_CardinalityType DEF Passed, LogOK
  <2>2. Ahead(next_read_index, 0) = next_read_index
    BY AheadFacts DEF RingOK
  <2>3. slot[Ahead(next_read_index, 0)] = Passed + 1 + 0
    BY <1>1, <1>4 DEF Waiting, Holds, RingOK
  <2> QED
    BY <2>1, <2>2, <2>3
<1>6. hand'[t] = Passed + 1
  BY <1>5 DEF ThreadsOK
<1>7. \A i \in Index : i # next_read_index => slot'[i] = slot[i]
  BY DEF RingOK
<1>8. \A i \in Index : 1 <= i => /\ Ahead(next_read_index, i) \in Index
                                /\ Ahead(next_read_index, i) # next_read_index
  BY SizeAssumption DEF Index, Ahead, RingOK
<1>9. Holds(1, num_elements)'
  BY <1>1, <1>3, <1>7, <1>8 DEF Waiting, Holds, Index
<1>10. StageInv(t)'
  BY <1>1, <1>2, <1>3, <1>6, <1>9
     DEF StageInv, Waiting, Last, MayRemove, Enqueuing
<1> QED
  BY <1>2, <1>3, <1>10, OtherStages

LEMMA RemoveReleaseInv ==
    ASSUME Serialized, SettingsInv, NEW t \in Threads, RemoveRelease(t)
    PROVE  SettingsInv'
<1> USE DEF SettingsInv, RemoveRelease
<1>1. /\ pc[t] # "idle"
      /\ MayRemove(t) /\ num_elements > 0 /\ hand[t] = Passed + 1
      /\ Last(t) = Passed + num_elements
      /\ next_write_index = Ahead(next_read_index, num_elements)
      /\ Holds(1, num_elements)
  BY DEF StageInv
<1>2. ThreadsOK' /\ OneBusy' /\ ~AllIdle' /\ pc'[t] = "remove_advance"
      /\ \A u \in Threads : u # t => pc'[u] = "idle"
  BY <1>1, OnlyOne DEF ThreadsOK, Stages
<1>3. RingOK' /\ num_elements' < Size /\ num_elements' + 1 = num_elements
  BY <1>1, SizeAssumption DEF RingOK
<1>4. LogOK' /\ Passed' = Passed /\ Passed \in Int
  BY FS_CardinalityType DEF LogOK, log, Received, Passed
<1>5. (/\ MayRemove(t) /\ hand[t] = Passed + 1
       /\ Last(t) = Passed + 1 + num_elements
       /\ next_write_index = Ahead(next_read_index, num_elements + 1))'
  BY <1>1, <1>3, <1>4 DEF MayRemove, Enqueuing, Last, RingOK
<1>6. Holds(1, num_elements + 1)'
  BY <1>1, <1>3, <1>4 DEF Holds
<1>7. StageInv(t)'
  BY <1>2, <1>3, <1>5, <1>6 DEF StageInv
<1> QED
  BY <1>2, <1>3, <1>4, <1>7, OtherStages

\* Going on to the next setting shifts what the ring still holds.
LEMMA RemainderWaits ==
    ASSUME RingOK, RingOK', Passed \in Int, Holds(1, num_elements + 1),
           num_elements < Size,
           next_write_index = Ahead(next_read_index, num_elements + 1),
           next_read_index' = Next1(next_read_index), Passed' = Passed + 1,
           UNCHANGED <<num_elements, next_write_index, slot>>
    PROVE  /\ next_write_index' = Ahead(next_read_index', num_elements')
           /\ Holds(0, num_elements)'
<1>1. next_read_index' = Ahead(next_read_index, 1)
  BY NextIsAhead DEF RingOK
<1>2. num_elements \in Index
  BY SizeAssumption DEF RingOK, Index
<1>3. next_write_index' = Ahead(next_read_index', num_elements')
  BY <1>1, <1>2, AheadFacts DEF RingOK
<1>4. ASSUME NEW i \in Index, i < num_elements
      PROVE  slot[Ahead(next_read_index', i)] = Passed + 2 + i
  <2>1. i + 1 \in Index /\ 1 <= i + 1 /\ i + 1 < num_elements + 1
    BY <1>2, <1>4, SizeAssumption DEF Index
  <2>2. slot[Ahead(next_read_index, i + 1)] = Passed + 1 + (i + 1)
    BY <2>1 DEF Holds
  <2>3. Ahead(next_read_index', i) = Ahead(next_read_index, i + 1)
    BY <1>1, AheadFacts DEF RingOK
  <2> QED
    BY <2>2, <2>3 DEF Index
<1>5. \A i \in Index : Passed + 2 + i = Passed' + 1 + i
  BY DEF Index
<1> QED
  BY <1>3, <1>4, <1>5 DEF Holds

\* The log after one more setting is received, or discarded.
LEMMA OneMoreReceived ==
    ASSUME LogOK, Passed \in Nat, received' = Append(received, Passed + 1),
           UNCHANGED discarded
    PROVE  LogOK' /\ Passed' = Passed + 1
<1>1. Len(received) \in Nat /\ Cardinality(discarded) \in Nat
  BY FS_CardinalityType DEF LogOK
<1>2. /\ received' \in Seq(Nat) /\ Len(received') = Len(received) + 1
      /\ \A i \in 1 .. Len(received) : received'[i] = received[i]
      /\ received'[Len(received) + 1] = Passed + 1
  BY <1>1 DEF LogOK
<1>3. Passed' = Passed + 1
  BY <1>1, <1>2 DEF Passed
<1>4. Received' = Received \cup {Passed + 1}
  <2>1. 1 .. Len(received') = (1 .. Len(received)) \cup {Len(received) + 1}
    BY <1>1, <1>2
  <2> QED
    BY <1>1, <1>2, <2>1 DEF Received
<1>5. (1 .. Passed) \cup {Passed + 1} = 1 .. Passed + 1
  OBVIOUS
<1>6. (Received \cup discarded)' = (1 .. Passed)'
  BY <1>3, <1>4, <1>5 DEF LogOK
<1>7. \A i \in 1 .. Len(received) : received[i] \in 1 .. Passed
  BY DEF LogOK, Received
<1>8. ASSUME NEW i \in 1 .. Len(received') - 1
      PROVE  received'[i] < received'[i + 1]
  <2>1. CASE i = Len(received)
    BY <1>1, <1>2, <1>7, <2>1
  <2>2. CASE i # Len(received)
    <3>1. i \in 1 .. Len(received) - 1 /\ i \in 1 .. Len(received)
          /\ i + 1 \in 1 .. Len(received)
      BY <1>1, <1>2, <2>2
    <3> QED
      BY <1>2, <3>1 DEF LogOK
  <2> QED
    BY <2>1, <2>2
<1> QED
  BY <1>2, <1>3, <1>6, <1>8 DEF LogOK

LEMMA OneMoreDiscarded ==
    ASSUME LogOK, Passed \in Nat, discarded' = discarded \cup {Passed + 1},
           UNCHANGED received
    PROVE  LogOK' /\ Passed' = Passed + 1
<1>1. Passed + 1 \notin discarded
  BY DEF LogOK
<1>2. /\ IsFiniteSet(discarded')
      /\ Cardinality(discarded') = Cardinality(discarded) + 1
  BY <1>1, FS_AddElement DEF LogOK
<1>3. Passed' = Passed + 1
  BY <1>2, FS_CardinalityType DEF Passed, LogOK
<1>4. (1 .. Passed) \cup {Passed + 1} = 1 .. Passed + 1
  OBVIOUS
<1>5. (Received \cup discarded)' = (1 .. Passed)'
  BY <1>3, <1>4 DEF LogOK, Received
<1> QED
  BY <1>2, <1>3, <1>5 DEF LogOK

LEMMA RemoveAdvanceInv ==
    ASSUME Serialized, SettingsInv, NEW t \in Threads, RemoveAdvance(t)
    PROVE  SettingsInv'
<1> USE DEF SettingsInv, RemoveAdvance
<1>1. /\ pc[t] # "idle"
      /\ MayRemove(t) /\ num_elements < Size /\ hand[t] = Passed + 1
      /\ Last(t) = Passed + 1 + num_elements
      /\ next_write_index = Ahead(next_read_index, num_elements + 1)
      /\ Holds(1, num_elements + 1)
  BY DEF StageInv
<1>2. RingOK' /\ Passed \in Nat
  BY NextIsAhead, AheadFacts, SizeAssumption, FS_CardinalityType, SMTT(30)
     DEF RingOK, Passed, LogOK
<1>3. LogOK' /\ Passed' = Passed + 1
  BY <1>1, <1>2, OneMoreReceived, OneMoreDiscarded
<1>4. Waiting(Last(t))'
  <2>1. /\ next_write_index' = Ahead(next_read_index', num_elements')
        /\ Holds(0, num_elements)'
    BY <1>1, <1>2, <1>3, RemainderWaits
  <2>2. Last(t)' = Passed' + num_elements'
    BY <1>1, <1>2, <1>3 DEF Last, RingOK
  <2> QED
    BY <2>1, <2>2 DEF Waiting
<1>5. CASE t = "capture"
  <2>1. ThreadsOK' /\ OneBusy' /\ ~AllIdle' /\ pc'[t] = "remove"
        /\ \A u \in Threads : u # t => pc'[u] = "idle"
    BY <1>1, <1>5, OnlyOne DEF ThreadsOK, Stages
  <2>2. StageInv(t)'
    BY <1>4, <1>5, <2>1 DEF StageInv, MayRemove
  <2> QED
    BY <1>2, <1>3, <2>1, <2>2, OtherStages
<1>6. CASE t # "capture"
  <2>1. ThreadsOK' /\ OneBusy' /\ ~AllIdle' /\ pc'[t] = "insert"
        /\ \A u \in Threads : u # t => pc'[u] = "idle"
    BY <1>1, <1>6, OnlyOne DEF ThreadsOK, Stages
  <2>2. Enqueuing(t)' /\ Waiting(calls - 1)' /\ (num_elements < Size)'
    BY <1>1, <1>4, <1>6 DEF MayRemove, Enqueuing, Last
  <2>3. StageInv(t)'
    BY <2>1, <2>2 DEF StageInv
  <2> QED
    BY <1>2, <1>3, <2>1, <2>3, OtherStages
<1> QED
  BY <1>5, <1>6

(***************************************************************************)
(* The specification                                                       *)
(***************************************************************************)
LEMMA InitSettingsInv == SettingsInit => SettingsInv
<1> SUFFICES ASSUME SettingsInit PROVE SettingsInv
  OBVIOUS
<1> USE DEF SettingsInit
<1>1. RingOK /\ ThreadsOK /\ OneBusy
  BY SizeAssumption, AttemptsAssumption
     DEF RingOK, ThreadsOK, OneBusy, Index, Stages
<1>2. Passed = 0 /\ IsFiniteSet(discarded)
  BY FS_EmptySet DEF Passed
<1>3. LogOK
  BY <1>2 DEF LogOK, Received
<1>4. Waiting(calls)
  BY <1>2, SizeAssumption DEF Waiting, Holds, Ahead, Index
<1>5. \A t \in Threads : StageInv(t)
  BY DEF StageInv
<1> QED
  BY <1>1, <1>3, <1>4, <1>5 DEF SettingsInv

LEMMA NextSettingsInv ==
    ASSUME Serialized, SettingsInv, [SettingsNext]_settingsvars
    PROVE  SettingsInv'
<1>1. CASE UNCHANGED settingsvars
  <2>1. RingOK' /\ ThreadsOK' /\ LogOK' /\ OneBusy' /\ Passed' = Passed
    BY <1>1 DEF settingsvars, ring, log, SettingsInv, RingOK, ThreadsOK, LogOK,
                OneBusy, Received, Passed
  <2>2. (AllIdle => Waiting(calls))'
    BY <1>1, <2>1 DEF settingsvars, ring, SettingsInv, AllIdle, Waiting, Holds
  <2>3. ASSUME NEW t \in Threads PROVE StageInv(t)'
    <3>1. StageInv(t)
      BY DEF SettingsInv
    <3> QED
      BY <1>1, <2>1, <3>1
         DEF settingsvars, ring, StageInv, Waiting, Holds, Enqueuing, MayRemove,
             Last
  <2> QED
    BY <2>1, <2>2, <2>3 DEF SettingsInv
<1>2. ASSUME NEW t \in Threads, Step(t) PROVE SettingsInv'
  BY <1>2, InsertLoadInv, InsertSwapInv, InsertPublishInv, InsertAdvanceInv,
     ReportInv, RemoveLoadInv, RemoveSwapInv, RemoveReleaseInv,
     RemoveAdvanceInv DEF Step
<1> QED
  BY <1>1, <1>2, CallInv, CaptureCallInv DEF SettingsNext, AllPassed

\* The invariant holds at every step of Insert and Remove when the application
\* makes its calls one at a time.
THEOREM AlwaysSettingsInv ==
    ASSUME Serialized PROVE SettingsSpec => []SettingsInv
<1>1. SettingsInv /\ [SettingsNext]_settingsvars => SettingsInv'
  BY NextSettingsInv
<1> QED
  BY <1>1, InitSettingsInv, PTL DEF SettingsSpec

\* Between calls the queue holds the newest settings, each of them once.
LEMMA QueuedIsInterval ==
    ASSUME SettingsInv, AllIdle
    PROVE  /\ Queued = Passed + 1 .. calls
           /\ Cardinality(Queued) = num_elements
           /\ calls = Passed + num_elements /\ Passed \in Nat
<1>1. /\ calls = Passed + num_elements /\ Holds(0, num_elements)
      /\ num_elements \in 0 .. Size /\ next_read_index \in Index
  BY DEF SettingsInv, Waiting, RingOK
<1>2. Passed \in Nat
  BY FS_CardinalityType DEF SettingsInv, LogOK, Passed
<1>3. ASSUME NEW i \in 0 .. num_elements - 1
      PROVE  slot[(next_read_index + i) % Size] = Passed + 1 + i
  <2>1. i \in Index /\ i \in 0 .. Size /\ 0 <= i /\ i < num_elements
    BY <1>1, SizeAssumption DEF Index
  <2> QED
    BY <1>1, <2>1, AheadIsModulo DEF Holds
<1>4. Queued = {Passed + 1 + i : i \in 0 .. num_elements - 1}
  BY <1>3 DEF Queued
<1>5. {Passed + 1 + i : i \in 0 .. num_elements - 1} = Passed + 1 .. calls
  <2>1. ASSUME NEW s \in Passed + 1 .. calls
        PROVE  \E i \in 0 .. num_elements - 1 : s = Passed + 1 + i
    <3>1. s - Passed - 1 \in 0 .. num_elements - 1
      BY <1>1, <1>2
    <3>2. s = Passed + 1 + (s - Passed - 1)
      BY <1>2
    <3> QED
      BY <3>1, <3>2
  <2>2. ASSUME NEW i \in 0 .. num_elements - 1
        PROVE  Passed + 1 + i \in Passed + 1 .. calls
    BY <1>1, <1>2
  <2> QED
    BY <2>1, <2>2
<1>6. Cardinality(Passed + 1 .. calls) = num_elements
  BY <1>1, <1>2, FS_Interval
<1> QED
  BY <1>1, <1>2, <1>4, <1>5, <1>6

\* When the application makes its calls one at a time, every setting it passed
\* is in exactly one place between two calls: in the queue, with the capture
\* thread, or logged as discarded (RuntimeSettingEnqueuer::Enqueue,
\* HandleCaptureRuntimeSettings).
THEOREM NoSettingIsLost ==
    ASSUME Serialized PROVE SettingsSpec => []SettingsAccountedFor
<1>1. SettingsInv => SettingsAccountedFor
  <2> SUFFICES ASSUME SettingsInv, AllIdle
               PROVE  /\ Queued \cup Received \cup discarded = 1 .. calls
                      /\ Cardinality(Queued) + Len(received)
                         + Cardinality(discarded) = calls
    BY DEF SettingsAccountedFor
  <2>1. Received \cup discarded = 1 .. Passed
    BY DEF SettingsInv, LogOK
  <2>2. (Passed + 1 .. calls) \cup (1 .. Passed) = 1 .. calls
    BY QueuedIsInterval DEF SettingsInv, RingOK
  <2>3. Len(received) \in Nat /\ Cardinality(discarded) \in Nat
    BY FS_CardinalityType DEF SettingsInv, LogOK
  <2>4. Cardinality(Queued) + Len(received) + Cardinality(discarded) = calls
    BY <2>3, QueuedIsInterval DEF Passed, SettingsInv, RingOK
  <2> QED
    BY <2>1, <2>2, <2>4, QueuedIsInterval
<1> QED
  BY <1>1, AlwaysSettingsInv, PTL

\* Then, too, what is discarded or received is older than everything that
\* waits, and the capture thread applies settings in the order of the calls.
THEOREM OldestAreDiscarded ==
    ASSUME Serialized PROVE SettingsSpec => []NewestLast
<1>1. SettingsInv => NewestLast
  <2> SUFFICES ASSUME SettingsInv, AllIdle
               PROVE  /\ \A i \in 1 .. Len(received) - 1 :
                            received[i] < received[i + 1]
                      /\ \A s \in Received \cup discarded, n \in Queued : s < n
    BY DEF NewestLast
  <2>1. Received \cup discarded = 1 .. Passed /\ Queued = Passed + 1 .. calls
    BY QueuedIsInterval DEF SettingsInv, LogOK
  <2>2. \A s \in 1 .. Passed, n \in Passed + 1 .. calls : s < n
    BY QueuedIsInterval
  <2> QED
    BY <2>1, <2>2 DEF SettingsInv, LogOK
<1> QED
  BY <1>1, AlwaysSettingsInv, PTL

\* Then, too, HandleCaptureRuntimeSettings never meets a setting of type
\* kNotSpecified, whatever the threads are doing.
THEOREM NothingUnspecified ==
    ASSUME Serialized PROVE SettingsSpec => []NoUnspecifiedSetting
<1>1. SettingsInv => NoUnspecifiedSetting
  BY DEF SettingsInv, LogOK, NoUnspecifiedSetting
<1> QED
  BY <1>1, AlwaysSettingsInv, PTL

(***************************************************************************)
(* The statistics reporter                                                 *)
(***************************************************************************)
\* The queue holds the first statistics reported since a reader last looked,
\* and what that look found is in the cache; one reader at a time looks.
FirstSince ==
    /\ latest \in Nat /\ polled \in Nat /\ previous \in Nat
    /\ \/ latest = polled /\ pending = <<>>
       \/ latest > polled /\ pending = <<polled + 1>>

OneReader ==
    /\ poll \in [Readers -> {"idle", "remove", "return"}]
    /\ \A r \in Readers : poll[r] # "idle" => mutex = {r}

IndInv == FirstSince /\ OneReader /\ PollIsFresh

LEMMA InitIndInv == StatsInit => IndInv
  BY DEF StatsInit, Queue!Init, IndInv, FirstSince, OneReader, PollIsFresh

\* A report is accepted only by a queue emptied since the last one.
LEMMA UpdateIndInv == IndInv /\ UpdateStatistics => IndInv'
<1> SUFFICES ASSUME IndInv, UpdateStatistics PROVE IndInv'
  OBVIOUS
<1> USE DEF IndInv, FirstSince, OneReader, PollIsFresh, UpdateStatistics, history
<1>1. CASE Queue!Accept(latest')
  <2>1. pending = <<>>
    BY <1>1 DEF Queue!Accept
  <2>2. pending' = <<latest'>>
    BY <1>1, <2>1 DEF Queue!Accept
  <2> QED
    BY <2>1, <2>2
<1>2. CASE Queue!Refuse
  BY <1>2 DEF Queue!Refuse
<1> QED
  BY <1>1, <1>2

\* Looking empties the queue; what it held, if anything, is one report newer
\* than the previous look.
LEMMA RemoveIndInv ==
    ASSUME IndInv, NEW r \in Readers, GetRemove(r) PROVE IndInv'
<1> USE DEF IndInv, FirstSince, OneReader, PollIsFresh, GetRemove
<1>1. CASE Queue!Deliver /\ cached' = pending[1]
  <2>1. latest > polled /\ pending = <<polled + 1>>
    BY <1>1 DEF Queue!Deliver
  <2>2. pending' = <<>>
    BY <1>1, <2>1 DEF Queue!Deliver
  <2>3. cached' = polled + 1
    BY <1>1, <2>1
  <2> QED
    BY <2>1, <2>2, <2>3
<1>2. CASE Queue!Starve /\ UNCHANGED cached
  BY <1>2 DEF Queue!Starve
<1> QED
  BY <1>1, <1>2

LEMMA NextIndInv == IndInv /\ [StatsNext]_statsvars => IndInv'
<1> SUFFICES ASSUME IndInv, [StatsNext]_statsvars PROVE IndInv'
  OBVIOUS
<1> USE DEF IndInv, FirstSince, OneReader, PollIsFresh, history, fifo
<1>1. ASSUME NEW r \in Readers, GetLock(r) PROVE IndInv'
  BY <1>1 DEF GetLock
<1>2. ASSUME NEW r \in Readers, GetReturn(r) PROVE IndInv'
  BY <1>2 DEF GetReturn
<1>3. CASE UNCHANGED statsvars
  BY <1>3 DEF statsvars
<1> QED
  BY <1>1, <1>2, <1>3, UpdateIndInv, RemoveIndInv DEF StatsNext, LastFrame

\* What GetStatistics returns was reported after the call before it looked,
\* whenever anything was.
THEOREM PollsAreFresh == StatsSpec => []PollIsFresh
<1>1. IndInv => PollIsFresh
  BY DEF IndInv
<1> QED
  BY <1>1, InitIndInv, NextIndInv, PTL DEF StatsSpec
=============================================================================
