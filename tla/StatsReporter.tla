--------------------------- MODULE StatsReporter ---------------------------
(***************************************************************************)
(* AudioProcessingImpl::ApmStatsReporter: the capture thread reports its   *)
(* statistics at the end of every frame through a SwapQueue of one slot,   *)
(* any thread reads them through cached_stats_ under mutex_stats_.         *)
(*                                                                         *)
(* The queue is the one SwapQueue is proved to implement (BoundedFifo);    *)
(* statistics are numbered in the order in which they are reported.        *)
(***************************************************************************)
EXTENDS Naturals, Sequences

CONSTANTS Readers,   \* threads calling GetStatistics
          MaxFrames  \* bound on the number of frames

ASSUME FramesAssumption == MaxFrames \in Nat

VARIABLES
    pending, refused, starved, removed, \* stats_message_queue_
    cached,    \* cached_stats_
    mutex,     \* the owner of mutex_stats_, if any
    poll,      \* the next step of each reader
    returned,  \* what each reader's last call returned
    latest,    \* the last statistics reported
    polled,    \* what latest was when a reader last looked in the queue
    previous   \* and when one looked the time before

fifo == <<pending, refused, starved, removed>>
history == <<polled, previous>>
statsvars == <<fifo, cached, mutex, poll, returned, latest, history>>

Queue == INSTANCE BoundedFifo
            WITH Size <- 1, Items <- 1 .. MaxFrames, queue <- pending, received <- removed

StatsInit ==
    /\ Queue!Init
    /\ cached = 0
    /\ mutex = {}
    /\ poll = [r \in Readers |-> "idle"]
    /\ returned = [r \in Readers |-> 0]
    /\ latest = 0 /\ polled = 0 /\ previous = 0

\* UpdateStatistics discards the new statistics when the queue is full.
UpdateStatistics ==
    /\ latest < MaxFrames
    /\ latest' = latest + 1
    /\ Queue!Accept(latest') \/ Queue!Refuse
    /\ UNCHANGED <<cached, mutex, poll, returned, history>>

GetLock(r) ==
    /\ poll[r] = "idle" /\ mutex = {}
    /\ mutex' = {r}
    /\ poll' = [poll EXCEPT ![r] = "remove"]
    /\ UNCHANGED <<fifo, cached, returned, latest, history>>

\* Fault: removes into an object of its own.
GetRemoveElsewhere(r) ==
    /\ poll[r] = "remove"
    /\ Queue!Deliver \/ Queue!Starve
    /\ previous' = polled /\ polled' = latest
    /\ poll' = [poll EXCEPT ![r] = "return"]
    /\ UNCHANGED <<cached, mutex, returned, latest>>

\* The cached statistics change only when there is something in the queue.
GetRemove(r) ==
    /\ poll[r] = "remove"
    /\ \/ Queue!Deliver /\ cached' = pending[1]
       \/ Queue!Starve /\ UNCHANGED cached
    /\ previous' = polled /\ polled' = latest
    /\ poll' = [poll EXCEPT ![r] = "return"]
    /\ UNCHANGED <<mutex, returned, latest>>

GetReturn(r) ==
    /\ poll[r] = "return"
    /\ returned' = [returned EXCEPT ![r] = cached]
    /\ mutex' = {}
    /\ poll' = [poll EXCEPT ![r] = "idle"]
    /\ UNCHANGED <<fifo, cached, latest, history>>

\* The last frame has been processed.
LastFrame == latest = MaxFrames /\ UNCHANGED statsvars

StatsNext == \/ UpdateStatistics
             \/ \E r \in Readers : GetLock(r) \/ GetRemove(r) \/ GetReturn(r)
             \/ LastFrame

StatsSpec == StatsInit /\ [][StatsNext]_statsvars

(***************************************************************************)
(* Properties                                                              *)
(***************************************************************************)

\* What a call returns was reported after the call before it looked, if
\* anything was: a poller never sees statistics older than its own interval.
PollIsFresh ==
    \A r \in Readers : poll[r] = "return" /\ previous < polled => cached > previous
=============================================================================
