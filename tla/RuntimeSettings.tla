-------------------------- MODULE RuntimeSettings --------------------------
(***************************************************************************)
(* AudioProcessingImpl::RuntimeSettingEnqueuer: SetRuntimeSetting puts a   *)
(* setting into a SwapQueue and, when the queue is full, removes the       *)
(* oldest setting itself, on the caller's thread; the capture thread       *)
(* removes every setting at the start of a frame.                          *)
(*                                                                         *)
(* The steps are those of the module SwapQueue; here any thread may be at  *)
(* either end.  Settings are numbered in the order of their calls, and 0   *)
(* is the default-constructed RuntimeSetting (type kNotSpecified).         *)
(***************************************************************************)
EXTENDS Integers, Sequences, FiniteSets

CONSTANTS Producers,   \* threads calling SetRuntimeSetting
          Size,        \* kRuntimeSettingQueueSize
          Attempts,    \* Enqueue's remaining_attempts, 10
          MaxSettings, \* bound on the number of calls
          Serialized   \* the application makes its calls one at a time

ASSUME SizeAssumption == Size \in Nat \ {0}
ASSUME AttemptsAssumption == Attempts \in Nat \ {0} /\ MaxSettings \in Nat
ASSUME ThreadAssumption == "capture" \notin Producers /\ Serialized \in BOOLEAN

Threads == Producers \cup {"capture"}
Index == 0 .. Size - 1

VARIABLES
    num_elements, next_write_index, next_read_index,
    slot,      \* the setting in each slot
    pc,        \* the next step of each thread
    setting,   \* Enqueue's argument
    hand,      \* setting_to_discard; HandleCaptureRuntimeSettings' setting
    remaining, \* remaining_attempts
    calls,     \* the number of calls so far
    received,  \* what the capture thread got, in order
    discarded, \* what "Oldest setting discarded." was logged for
    reported,  \* what "Cannot enqueue a new runtime setting." was logged for
    lost       \* what Enqueue gave up on

ring == <<num_elements, next_write_index, next_read_index, slot>>
log == <<received, discarded, reported, lost>>
settingsvars == <<ring, pc, setting, hand, remaining, calls, log>>

SettingsInit ==
    /\ num_elements = 0 /\ next_write_index = 0 /\ next_read_index = 0
    /\ slot = [i \in Index |-> 0]
    /\ pc = [t \in Threads |-> "idle"]
    /\ setting = [t \in Threads |-> 0]
    /\ hand = [t \in Threads |-> 0]
    /\ remaining = [t \in Threads |-> Attempts]
    /\ calls = 0
    /\ received = <<>> /\ discarded = {} /\ reported = {} /\ lost = {}

Goto(t, label) == pc' = [pc EXCEPT ![t] = label]
MayStart == Serialized => \A t \in Threads : pc[t] = "idle"
Next1(i) == (i + 1) % Size

(***************************************************************************)
(* Enqueue                                                                 *)
(***************************************************************************)
EnqueueCall(t) ==
    /\ pc[t] = "idle" /\ MayStart
    /\ calls < MaxSettings
    /\ calls' = calls + 1
    /\ setting' = [setting EXCEPT ![t] = calls']
    /\ remaining' = [remaining EXCEPT ![t] = Attempts]
    /\ Goto(t, "insert")
    /\ UNCHANGED <<ring, hand, log>>

\* Fault: gives up at once when the queue is full.
InsertLoadGivesUp(t) ==
    /\ pc[t] = "insert"
    /\ Goto(t, IF num_elements = Size THEN "idle" ELSE "insert_swap")
    /\ UNCHANGED <<ring, setting, hand, remaining, calls, log>>

\* Insert's load of the count.  When it refuses, "remaining_attempts-- > 0"
\* takes one off even as it ends the loop, and what is left is then huge.
InsertLoad(t) ==
    /\ pc[t] = "insert"
    /\ IF num_elements # Size
       THEN Goto(t, "insert_swap") /\ UNCHANGED <<remaining, hand, lost>>
       ELSE /\ remaining' = [remaining EXCEPT ![t] = @ - 1]
            /\ IF remaining[t] > 0
               THEN /\ Goto(t, "remove")
                    /\ hand' = [hand EXCEPT ![t] = 0]
                    /\ UNCHANGED lost
               ELSE /\ Goto(t, "report")
                    /\ lost' = lost \cup {setting[t]}
                    /\ UNCHANGED hand
    /\ UNCHANGED <<ring, setting, calls, received, discarded, reported>>

InsertSwap(t) ==
    /\ pc[t] = "insert_swap"
    /\ slot' = [slot EXCEPT ![next_write_index] = setting[t]]
    /\ Goto(t, "publish")
    /\ UNCHANGED <<num_elements, next_write_index, next_read_index, setting,
                   hand, remaining, calls, log>>

InsertPublish(t) ==
    /\ pc[t] = "publish"
    /\ num_elements' = num_elements + 1
    /\ Goto(t, "insert_advance")
    /\ UNCHANGED <<next_write_index, next_read_index, slot, setting, hand,
                   remaining, calls, log>>

InsertAdvance(t) ==
    /\ pc[t] = "insert_advance"
    /\ next_write_index' = Next1(next_write_index)
    /\ Goto(t, "report")
    /\ UNCHANGED <<num_elements, next_read_index, slot, setting, hand,
                   remaining, calls, log>>

\* "if (remaining_attempts == 0)", the test for having given up.
Report(t) ==
    /\ pc[t] = "report"
    /\ reported' = IF remaining[t] = 0 THEN reported \cup {setting[t]} ELSE reported
    /\ Goto(t, "idle")
    /\ UNCHANGED <<ring, setting, hand, remaining, calls, received, discarded,
                   lost>>

(***************************************************************************)
(* Remove, by the capture thread or by a producer that found the queue     *)
(* full                                                                    *)
(***************************************************************************)
CaptureCall ==
    /\ pc["capture"] = "idle" /\ MayStart
    /\ num_elements > 0
    /\ hand' = [hand EXCEPT !["capture"] = 0]
    /\ Goto("capture", "remove")
    /\ UNCHANGED <<ring, setting, remaining, calls, log>>

RemoveLoad(t) ==
    /\ pc[t] = "remove"
    /\ Goto(t, IF num_elements # 0 THEN "remove_swap"
               ELSE IF t = "capture" THEN "idle" ELSE "insert")
    /\ UNCHANGED <<ring, setting, hand, remaining, calls, log>>

RemoveSwap(t) ==
    /\ pc[t] = "remove_swap"
    /\ slot' = [slot EXCEPT ![next_read_index] = hand[t]]
    /\ hand' = [hand EXCEPT ![t] = slot[next_read_index]]
    /\ Goto(t, "release")
    /\ UNCHANGED <<num_elements, next_write_index, next_read_index, setting,
                   remaining, calls, log>>

RemoveRelease(t) ==
    /\ pc[t] = "release"
    /\ num_elements' = num_elements - 1
    /\ Goto(t, "remove_advance")
    /\ UNCHANGED <<next_write_index, next_read_index, slot, setting, hand,
                   remaining, calls, log>>

\* Fault: the index stays behind at the end of the ring.
RemoveAdvanceNoWrap(t) ==
    /\ pc[t] = "remove_advance"
    /\ next_read_index' = IF next_read_index < Size - 1 THEN next_read_index + 1
                                                        ELSE next_read_index
    /\ IF t = "capture"
       THEN /\ received' = Append(received, hand[t])
            /\ Goto(t, "remove")
            /\ UNCHANGED discarded
       ELSE /\ discarded' = discarded \cup {hand[t]}
            /\ Goto(t, "insert")
            /\ UNCHANGED received
    /\ UNCHANGED <<num_elements, next_write_index, slot, setting, hand,
                   remaining, calls, reported, lost>>

\* The capture thread goes on until the queue is empty, with the same object
\* in its hands; a producer tries its Insert again.
RemoveAdvance(t) ==
    /\ pc[t] = "remove_advance"
    /\ next_read_index' = Next1(next_read_index)
    /\ IF t = "capture"
       THEN /\ received' = Append(received, hand[t])
            /\ Goto(t, "remove")
            /\ UNCHANGED discarded
       ELSE /\ discarded' = discarded \cup {hand[t]}
            /\ Goto(t, "insert")
            /\ UNCHANGED received
    /\ UNCHANGED <<num_elements, next_write_index, slot, setting, hand,
                   remaining, calls, reported, lost>>

\* Every setting the application wanted to pass has been passed.
AllPassed == /\ calls = MaxSettings /\ num_elements = 0
             /\ \A t \in Threads : pc[t] = "idle"
             /\ UNCHANGED settingsvars

Step(t) == \/ InsertLoad(t) \/ InsertSwap(t) \/ InsertPublish(t)
           \/ InsertAdvance(t) \/ Report(t)
           \/ RemoveLoad(t) \/ RemoveSwap(t) \/ RemoveRelease(t)
           \/ RemoveAdvance(t)

SettingsNext == \/ \E t \in Producers : EnqueueCall(t)
                \/ CaptureCall
                \/ \E t \in Threads : Step(t)
                \/ AllPassed

SettingsSpec == SettingsInit /\ [][SettingsNext]_settingsvars

(***************************************************************************)
(* Properties                                                              *)
(***************************************************************************)
AllIdle == \A t \in Threads : pc[t] = "idle"

Queued == {slot[(next_read_index + i) % Size] : i \in 0 .. num_elements - 1}
Received == {received[i] : i \in 1 .. Len(received)}

\* Between calls every setting passed so far is in exactly one place: waiting
\* in the queue, received by the capture thread, or logged as discarded.
SettingsAccountedFor ==
    AllIdle => /\ Queued \cup Received \cup discarded = 1 .. calls
               /\ Cardinality(Queued) + Len(received) + Cardinality(discarded) = calls

\* Only settings older than everything in the queue are discarded, and the
\* capture thread applies settings in the order of the calls.
NewestLast ==
    AllIdle => /\ \A i \in 1 .. Len(received) - 1 : received[i] < received[i + 1]
               /\ \A s \in Received \cup discarded, n \in Queued : s < n

\* RTC_NOTREACHED() for kNotSpecified in HandleCaptureRuntimeSettings
\* (audio_processing_impl.cc:867).
NoUnspecifiedSetting == 0 \notin Received

=============================================================================
