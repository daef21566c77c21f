----------------------- MODULE AudioProcessingProofs -----------------------
(***************************************************************************)
(* The locking discipline of AudioProcessingImpl, for any number of API    *)
(* threads, any formats and any queue size.                                *)
(***************************************************************************)
EXTENDS AudioProcessing, TLAPS

(***************************************************************************)
(* Where each thread can be, and which mutexes it owns there.              *)
(***************************************************************************)
CaptureStages == {"idle", "check", "want_render", "want_both", "want_capture",
                  "drain_aecm", "drain_agc", "drain_red", "process"}
RenderStages == {"idle", "want_capture", "queue_red", "empty", "drain_aecm",
                 "drain_agc", "drain_red", "retry", "band",
                 "queue_aecm", "queue_agc", "analyze"}
ApiStages == {"idle", "want_render", "want_both"}

PcOK ==
    /\ DOMAIN pc = Threads
    /\ pc = [t \in Threads |-> pc[t]]
    /\ pc["capture"] \in CaptureStages
    /\ pc["render"] \in RenderStages
    /\ \A t \in Api : pc[t] \in ApiStages

RenderOwner ==
    /\ renderLock \in Threads \cup {Nobody}
    /\ renderLock = "render" <=> pc["render"] # "idle"
    /\ \A t \in Threads \ {"render"} : renderLock = t <=> pc[t] = "want_both"

Holding == {"drain_aecm", "drain_agc", "drain_red", "process"}

CaptureOwner ==
    /\ captureLock \in Threads \cup {Nobody}
    /\ captureLock = "capture" <=> pc["capture"] \in Holding
    /\ captureLock = "render" <=> pc["render"] \in Holding
    /\ \A t \in Api : captureLock # t

LockInv == PcOK /\ RenderOwner /\ CaptureOwner

\* The three kinds of threads are distinct, and nobody is none of them.
LEMMA DistinctThreads ==
    /\ "capture" \in Threads /\ "render" \in Threads /\ Nobody \notin Threads
    /\ Api \subseteq Threads /\ Threads \ {"render"} = {"capture"} \cup Api
    /\ \A t \in Api : t # "capture" /\ t # "render" /\ t # Nobody
  BY ApiAssumption DEF Threads, Nobody

\* Initially every thread is idle and no mutex is owned.
LEMMA InitLockInv == Init => LockInv
<1> SUFFICES ASSUME Init PROVE LockInv
  OBVIOUS
<1>1. \A t \in Threads : pc[t] = "idle"
  BY DEF Init
<1>2. PcOK
  BY <1>1, DistinctThreads DEF Init, PcOK, CaptureStages, RenderStages, ApiStages
<1>3. RenderOwner
  BY <1>1, DistinctThreads DEF Init, RenderOwner, Nobody
<1>4. CaptureOwner
  BY <1>1, DistinctThreads DEF Init, CaptureOwner, Holding, Nobody
<1> QED
  BY <1>2, <1>3, <1>4 DEF LockInv

\* Goto moves one thread and leaves the others where they are.
LEMMA Move == ASSUME PcOK, NEW t \in Threads, NEW l, Goto(t, l)
              PROVE  /\ DOMAIN pc' = Threads
                     /\ pc' = [u \in Threads |-> pc'[u]]
                     /\ pc'[t] = l
                     /\ \A u \in Threads \ {t} : pc'[u] = pc[u]
  BY DEF PcOK, Goto

\* A thread that moves within its own stages keeps every thread in its own.
LEMMA MovePcOK == ASSUME PcOK, NEW t \in Threads, NEW l, Goto(t, l),
                         t = "capture" => l \in CaptureStages,
                         t = "render" => l \in RenderStages,
                         t \in Api => l \in ApiStages
                  PROVE  PcOK'
<1>1. /\ DOMAIN pc' = Threads
      /\ pc' = [u \in Threads |-> pc'[u]]
      /\ pc'[t] = l
      /\ \A u \in Threads \ {t} : pc'[u] = pc[u]
  BY Move
<1> QED
  BY <1>1, DistinctThreads DEF PcOK


\* A step of one thread that leaves it owning what its new stage says, and
\* leaves every other thread owning what it owned.
LEMMA LockStep ==
    ASSUME LockInv, NEW t \in Threads, NEW l, Goto(t, l),
           t = "capture" => l \in CaptureStages,
           t = "render" => l \in RenderStages,
           t \in Api => l \in ApiStages,
           renderLock' = t <=> IF t = "render" THEN l # "idle" ELSE l = "want_both",
           captureLock' = t <=> l \in Holding,
           renderLock' \in {renderLock, t, Nobody},
           captureLock' \in {captureLock, t, Nobody},
           \A u \in Threads \ {t} : /\ renderLock' = u <=> renderLock = u
                                    /\ captureLock' = u <=> captureLock = u
    PROVE  LockInv'
<1> USE DEF LockInv
<1>1. PcOK'
  BY MovePcOK
<1>2. pc'[t] = l /\ \A u \in Threads \ {t} : pc'[u] = pc[u]
  BY Move
<1>3. RenderOwner'
  BY <1>2, DistinctThreads DEF RenderOwner
<1>4. CaptureOwner'
  BY <1>2, DistinctThreads DEF CaptureOwner, PcOK, ApiStages, Holding
<1> QED
  BY <1>1, <1>3, <1>4

\* The steps of ProcessStream.
LEMMA CaptureLockInv ==
    ASSUME LockInv, Capture PROVE LockInv'
<1> USE DistinctThreads
    DEF LockInv, PcOK, RenderOwner, CaptureOwner, locks, CaptureStages, Holding
<1>1. ASSUME NEW f \in CaptureFormats, CaptureCall(f) PROVE LockInv'
  BY <1>1, LockStep DEF CaptureCall
<1>2. CASE CaptureCheck
  BY <1>2, LockStep DEF CaptureCheck
<1>3. CASE CaptureTakesRender
  BY <1>3, LockStep DEF CaptureTakesRender
<1>4. CASE CaptureReinitialize
  BY <1>4, LockStep DEF CaptureReinitialize
<1>5. CASE CaptureTakesCapture
  BY <1>5, LockStep DEF CaptureTakesCapture
<1>6. CASE CaptureProcess
  BY <1>6, LockStep DEF CaptureProcess
<1>7. ASSUME NEW q \in Queues, DrainOne("capture", q) PROVE LockInv'
  BY <1>7 DEF DrainOne
<1>8. ASSUME NEW q \in Queues, DrainDone("capture", q) PROVE LockInv'
  BY <1>8, LockStep DEF DrainDone, DrainStage, Queues
<1> QED
  BY <1>1, <1>2, <1>3, <1>4, <1>5, <1>6, <1>7, <1>8 DEF Capture, Drain

\* The steps of ProcessReverseStream.
LEMMA RenderLockInv ==
    ASSUME LockInv, Render PROVE LockInv'
<1> USE DistinctThreads
    DEF LockInv, PcOK, RenderOwner, CaptureOwner, locks, RenderStages, Holding
<1>1. ASSUME NEW f \in RenderFormats, RenderCall(f) PROVE LockInv'
  BY <1>1, LockStep DEF RenderCall
<1>2. CASE RenderReinitialize
  BY <1>2, LockStep DEF RenderReinitialize
<1>3. ASSUME NEW q \in Queues, RenderInsert(q) PROVE LockInv'
  <2>1. PICK l \in {"empty", "band", "queue_agc", "analyze"} : Goto("render", l)
    BY <1>3 DEF RenderInsert, After
  <2>2. UNCHANGED locks /\ pc["render"] \in {"queue_red", "queue_aecm", "queue_agc"}
    BY <1>3 DEF RenderInsert, QueueStage
  <2> QED
    BY <2>1, <2>2, LockStep
<1>4. CASE RenderEmpty
  BY <1>4, LockStep DEF RenderEmpty
<1>5. CASE RenderRetry
  BY <1>5, LockStep DEF RenderRetry, After
<1>6. CASE RenderBand
  BY <1>6, LockStep DEF RenderBand
<1>7. CASE RenderAnalyze
  BY <1>7, LockStep DEF RenderAnalyze
<1>8. ASSUME NEW q \in Queues, DrainOne("render", q) PROVE LockInv'
  BY <1>8 DEF DrainOne
<1>9. ASSUME NEW q \in Queues, DrainDone("render", q) PROVE LockInv'
  BY <1>9, LockStep DEF DrainDone, DrainStage, Queues
<1> QED
  BY <1>1, <1>2, <1>3, <1>4, <1>5, <1>6, <1>7, <1>8, <1>9 DEF Render, Drain

\* The steps of ApplyConfig and Initialize.
LEMMA OtherLockInv ==
    ASSUME LockInv, NEW t \in Api, Other(t) PROVE LockInv'
<1> USE DistinctThreads
    DEF LockInv, PcOK, RenderOwner, CaptureOwner, locks, ApiStages, Holding
<1>1. CASE ApiCall(t)
  BY <1>1, LockStep DEF ApiCall
<1>2. CASE ApiTakesRender(t)
  BY <1>2, LockStep DEF ApiTakesRender
<1>3. CASE ApiBody(t)
  BY <1>3, LockStep DEF ApiBody
<1> QED
  BY <1>1, <1>2, <1>3 DEF Other

\* No step of any thread breaks the correspondence.
LEMMA NextLockInv == LockInv /\ [Next]_vars => LockInv'
<1>1. ASSUME LockInv, UNCHANGED vars PROVE LockInv'
  BY <1>1 DEF LockInv, PcOK, RenderOwner, CaptureOwner, vars, locks
<1> QED
  BY <1>1, CaptureLockInv, RenderLockInv, OtherLockInv DEF Next

\* Every thread owns exactly the mutexes its stage says.
LEMMA AlwaysLockInv == Spec => []LockInv
  BY InitLockInv, NextLockInv, PTL DEF Spec

(***************************************************************************)
(* What the mutexes give: no deadlock, one consumer, no rebuild in use.    *)
(***************************************************************************)

\* mutex_render_ is never awaited by a thread that holds mutex_capture_, and
\* no thread waits for a mutex it holds.
THEOREM DeadlockFree == Spec => []NoCircularWait
<1>1. LockInv => NoCircularWait
  <2> SUFFICES ASSUME LockInv, NEW t \in Threads, NEW u \in Threads,
                      BlockedBy(t, u), BlockedBy(u, t)
               PROVE  FALSE
    BY DEF NoCircularWait
  <2> USE DistinctThreads DEF LockInv, PcOK, RenderOwner, CaptureOwner, Holding,
        CaptureStages, RenderStages, ApiStages, WaitsForRender, WaitsForCapture
  <2>1. CASE renderLock = u /\ WaitsForRender(t)
    BY <2>1 DEF BlockedBy
  <2>2. CASE captureLock = u /\ WaitsForCapture(t)
    BY <2>2 DEF BlockedBy
  <2> QED
    BY <2>1, <2>2 DEF BlockedBy
<1> QED
  BY <1>1, AlwaysLockInv, PTL

\* The two threads that empty the render queues never do so at once.
THEOREM OneConsumer == Spec => []SingleConsumer
<1>1. LockInv => SingleConsumer
  BY DistinctThreads DEF LockInv, PcOK, CaptureOwner, Holding, ApiStages,
     SingleConsumer, Draining, Threads
<1> QED
  BY <1>1, AlwaysLockInv, PTL

\* When one of the three steps that rebuild is enabled, both streams are outside
\* their processing.
LEMMA RebuildUnused ==
    ASSUME LockInv, \/ CaptureReinitialize \/ RenderReinitialize
                    \/ \E a \in Api : ApiBody(a)
    PROVE  \A t \in Threads : ~ Using(t)
<1>1. CASE CaptureReinitialize
  BY <1>1, DistinctThreads
  DEF CaptureReinitialize, LockInv, PcOK, RenderOwner, ApiStages, Using, Draining, Threads
<1>2. CASE RenderReinitialize
  BY <1>2, DistinctThreads
  DEF RenderReinitialize, LockInv, PcOK, CaptureOwner, CaptureStages, ApiStages,
      Holding, Using, Draining, Threads, Nobody
<1>3. CASE \E a \in Api : ApiBody(a)
  BY <1>3, DistinctThreads
  DEF ApiBody, LockInv, PcOK, RenderOwner, CaptureOwner, CaptureStages, ApiStages,
      Holding, Using, Draining, Threads, Nobody
<1> QED
  BY <1>1, <1>2, <1>3

\* Only those steps touch the formats and the submodules.
LEMMA RebuildAlone ==
    LockInv /\ [Next]_vars =>
        \/ UNCHANGED <<config, api, submodules, captureRate, renderRate>>
        \/ \A t \in Threads : ~ Using(t)
<1> SUFFICES ASSUME LockInv, [Next]_vars
             PROVE  \/ UNCHANGED <<config, api, submodules, captureRate, renderRate>>
                    \/ \A t \in Threads : ~ Using(t)
  OBVIOUS
<1>1. CASE \/ CaptureReinitialize \/ RenderReinitialize \/ \E a \in Api : ApiBody(a)
  BY <1>1, RebuildUnused
<1>2. CASE \E t \in {"capture", "render"} : Drain(t)
  BY <1>2 DEF Drain, DrainOne, DrainDone, setup
<1>3. CASE Capture /\ ~ CaptureReinitialize /\ ~ Drain("capture")
  BY <1>3 DEF Capture, CaptureCall, CaptureCheck, CaptureTakesRender,
     CaptureTakesCapture, CaptureProcess, setup
<1>4. CASE Render /\ ~ RenderReinitialize /\ ~ Drain("render")
  BY <1>4 DEF Render, RenderCall, RenderInsert, RenderEmpty, RenderRetry,
     RenderBand, RenderAnalyze, setup
<1>5. CASE \E a \in Api : ApiCall(a) \/ ApiTakesRender(a)
  BY <1>5 DEF ApiCall, ApiTakesRender, setup
<1>6. CASE UNCHANGED vars
  BY <1>6 DEF vars, setup
<1> QED
  BY <1>1, <1>2, <1>3, <1>4, <1>5, <1>6 DEF Next, Other

\* Formats and submodules are never rebuilt under a thread that uses them.
THEOREM RebuildSafe == Spec => RebuiltOnlyWhenUnused
<1>1. LockInv /\ [Next]_vars =>
        [\/ UNCHANGED <<api, submodules, captureRate, renderRate>>
         \/ \A t \in Threads : ~ Using(t)]_vars
  BY RebuildAlone
<1> QED
  BY <1>1, AlwaysLockInv, PTL DEF Spec, RebuiltOnlyWhenUnused

(***************************************************************************)
(* Types.  The queue lengths need no more than the test of Insert.         *)
(***************************************************************************)

Settings == [aec : {"off", "full", "mobile"}, agc : {"off", "digital", "analog"},
             ns : BOOLEAN, maxRate : {320, 480}]
Streams == [capture : Nat, reverse : Nat]

\* The settings ask for known modules only.
LEMMA KnownModules == ASSUME NEW c PROVE ModulesOf(c) \subseteq Modules
  BY DEF ModulesOf, EchoModules, GainModules, NoiseModules, Modules

SetupOK ==
    /\ config \in Configs
    /\ submodules \subseteq Modules /\ states \subseteq Modules
    /\ api \in Streams
    /\ captureRate \in Nat /\ renderRate \in Nat /\ controllerRate \in Nat
    /\ len \in [Queues -> 0 .. QueueSize]

\* InitializeLocked() leaves everything in its type.
LEMMA ReinitializeOK ==
    ASSUME SetupOK, config' \in Configs, api' \in Streams, captureRate' \in Nat,
           renderRate' \in Nat, NEW mods \in SUBSET Modules, Reinitialize(mods)
    PROVE  SetupOK'
  BY KnownModules, QueueSizeAssumption DEF SetupOK, Reinitialize, Active

\* So does InitializeLocked(config), whether it refuses or not.
LEMMA ReinitializeToOK ==
    ASSUME SetupOK, config' \in Configs, NEW f \in Streams,
           NEW mods \in SUBSET Modules, ReinitializeTo(f, mods)
    PROVE  SetupOK'
<1>1. CASE Refused(f)
  BY <1>1 DEF ReinitializeTo, SetupOK, Active
<1>2. CASE ~ Refused(f)
  <2> DEFINE s == Active(mods)
             splitting == CaptureMultiBandActive(s) \/ RenderMultiBandActive(s)
             capture == SuitableProcessRate(f.capture, config'.maxRate, splitting)
             reverse == SuitableProcessRate(f.reverse, config'.maxRate, splitting)
  <2>1. config'.maxRate \in {320, 480} /\ f.capture \in Nat /\ f.reverse \in Nat
    BY ConfigAssumption DEF Streams
  <2>2. capture \in {160, 320, 480} /\ reverse \in {160, 320, 480}
    BY <2>1 DEF SuitableProcessRate
  <2>3. captureRate' = capture /\ api' = f /\ Reinitialize(mods)
    BY <1>2 DEF ReinitializeTo
  <2>4. \/ renderRate' = Max2(capture, 160) \/ renderRate' = Max2(reverse, 160)
        \/ renderRate' = f.reverse
    BY <1>2 DEF ReinitializeTo
  <2>5. captureRate' \in Nat /\ renderRate' \in Nat
    <3> HIDE DEF capture, reverse
    <3> QED BY <2>1, <2>2, <2>3, <2>4 DEF Max2
  <2> QED
    BY <2>3, <2>5, ReinitializeOK
<1> QED
  BY <1>1, <1>2

LocalsOK ==
    /\ full \in Queues
    /\ captureCall \in Nat /\ renderCall \in Nat
    /\ copy \in Streams

\* The steps that rebuild: a reinitialization by one of the two streams, or
\* the body of ApplyConfig or Initialize.
LEMMA RebuildOK ==
    ASSUME SetupOK, LocalsOK,
           \/ CaptureReinitialize \/ RenderReinitialize
           \/ \E a \in Api : ApiBody(a)
    PROVE  SetupOK'
<1> USE DEF SetupOK, LocalsOK
<1>1. CASE CaptureReinitialize
  BY <1>1, ReinitializeToOK DEF CaptureReinitialize
<1>2. CASE RenderReinitialize
  <2>1. [api EXCEPT !.reverse = renderCall] \in Streams
    BY DEF Streams
  <2> QED
    BY <1>2, <2>1, ReinitializeToOK DEF RenderReinitialize
<1>3. ASSUME NEW c \in Configs, Apply(c) PROVE SetupOK'
  <2> DEFINE mods == (IF c.aec # config.aec THEN EchoModules(c)
                 ELSE submodules \cap {"echo_controller", "echo_control_mobile"})
                \cup (IF GainChanged(c) THEN GainModules(c)
                      ELSE submodules \cap {"gain_control", "agc_manager"})
                \cup (IF c.ns # config.ns THEN NoiseModules(c)
                      ELSE submodules \cap {"noise_suppressor"})
  <2>1. mods \subseteq Modules
    BY DEF Modules, EchoModules, GainModules, NoiseModules
  <2>2. CASE c.maxRate # config.maxRate
    <3>1. config' \in Configs /\ ReinitializeTo(api, mods)
      BY <1>3, <2>2 DEF Apply
    <3> QED
      BY <2>1, <3>1, ReinitializeToOK
  <2>3. CASE c.maxRate = config.maxRate
    BY <1>3, <2>1, <2>3, QueueSizeAssumption DEF Apply
  <2> QED
    BY <2>2, <2>3
<1>4. ASSUME config' = config, UNCHANGED <<api, captureRate, renderRate>>,
             Reinitialize(submodules)
      PROVE  SetupOK'
  BY <1>4, ReinitializeOK
<1>5. ASSUME config' = config, NEW f \in Formats, ReinitializeTo(f, submodules)
      PROVE  SetupOK'
  <2>1. f \in Streams
    BY FormatAssumption DEF Formats, Streams
  <2> QED
    BY <1>5, <2>1, ReinitializeToOK
<1>6. ASSUME NEW a \in Api, ApiBody(a) PROVE SetupOK'
  BY <1>3, <1>4, <1>5, <1>6 DEF ApiBody
<1> QED
  BY <1>1, <1>2, <1>6

\* No other step touches more than the queue lengths and submodule_states_.
LEMMA OtherwiseOK ==
    ASSUME SetupOK, LocalsOK, [Next]_vars,
           ~ CaptureReinitialize, ~ RenderReinitialize, ~ \E a \in Api : ApiBody(a)
    PROVE  SetupOK' /\ LocalsOK'
<1> USE FormatAssumption, QueueSizeAssumption DEF SetupOK, LocalsOK, setup, locals
<1>1. ASSUME NEW f \in CaptureFormats, CaptureCall(f) PROVE SetupOK' /\ LocalsOK'
  BY <1>1 DEF CaptureCall
<1>2. CASE CaptureCheck
  BY <1>2 DEF CaptureCheck, Active, Streams
<1>3. CASE CaptureTakesRender \/ CaptureTakesCapture \/ CaptureProcess
  BY <1>3 DEF CaptureTakesRender, CaptureTakesCapture, CaptureProcess
<1>4. ASSUME NEW t \in {"capture", "render"}, Drain(t) PROVE SetupOK' /\ LocalsOK'
  BY <1>4 DEF Drain, DrainOne, DrainDone
<1>5. ASSUME NEW f \in RenderFormats, RenderCall(f) PROVE SetupOK' /\ LocalsOK'
  BY <1>5 DEF RenderCall
<1>6. ASSUME NEW q \in Queues, RenderInsert(q) PROVE SetupOK' /\ LocalsOK'
  BY <1>6 DEF RenderInsert
<1>7. CASE RenderRetry
  BY <1>7 DEF RenderRetry
<1>8. CASE RenderEmpty \/ RenderBand \/ RenderAnalyze
  BY <1>8 DEF RenderEmpty, RenderBand, RenderAnalyze
<1>9. CASE \E a \in Api : ApiCall(a) \/ ApiTakesRender(a)
  BY <1>9 DEF ApiCall, ApiTakesRender
<1>10. CASE UNCHANGED vars
  BY <1>10 DEF vars
<1> QED
  BY <1>1, <1>2, <1>3, <1>4, <1>5, <1>6, <1>7, <1>8, <1>9, <1>10
  DEF Next, Capture, Render, Other

LEMMA NextDataOK ==
    SetupOK /\ LocalsOK /\ [Next]_vars => SetupOK' /\ LocalsOK'
<1>1. CaptureReinitialize \/ RenderReinitialize \/ (\E a \in Api : ApiBody(a))
        => UNCHANGED locals
  BY DEF CaptureReinitialize, RenderReinitialize, ApiBody
<1>2. LocalsOK /\ UNCHANGED locals => LocalsOK'
  BY DEF LocalsOK, locals
<1> QED
  BY <1>1, <1>2, RebuildOK, OtherwiseOK

LEMMA AlwaysDataOK == Spec => [](SetupOK /\ LocalsOK)
<1>1. Init => SetupOK /\ LocalsOK
  <2> SUFFICES ASSUME Init PROVE SetupOK /\ LocalsOK
    OBVIOUS
  <2>1. len \in [Queues -> 0 .. QueueSize]
    BY QueueSizeAssumption DEF Init
  <2>2. api \in Streams
    BY DEF Init, Streams
  <2> QED
    BY <2>1, <2>2 DEF Init, SetupOK, LocalsOK, Queues
<1> QED
  BY <1>1, NextDataOK, PTL DEF Spec

\* Every variable keeps to its type, and no render queue holds more frames
\* than it was made for.
THEOREM TypeCorrect == Spec => []TypeOK
<1>1. LockInv /\ SetupOK /\ LocalsOK => TypeOK
  <2> SUFFICES ASSUME LockInv, SetupOK, LocalsOK PROVE TypeOK
    OBVIOUS
  <2>1. \A t \in Threads : pc[t] \in Stages
    BY DEF LockInv, PcOK, Threads, Stages, CaptureStages, RenderStages, ApiStages
  <2>2. pc \in [Threads -> Stages]
    BY <2>1 DEF LockInv, PcOK
  <2> QED
    BY <2>2 DEF TypeOK, LockInv, RenderOwner, CaptureOwner, SetupOK, LocalsOK, Streams
<1> QED
  BY <1>1, AlwaysLockInv, AlwaysDataOK, PTL

(***************************************************************************)
(* The formats: a stream's buffers have the format of its own call.        *)
(***************************************************************************)

AllInv == LockInv /\ SetupOK /\ LocalsOK

LEMMA AlwaysAllInv == Spec => []AllInv
  BY AlwaysLockInv, AlwaysDataOK, PTL DEF AllInv

\* A step of the render thread inside its call, or of another thread that
\* leaves the render format alone, or a rebuild while the render thread is
\* outside its call.
LEMMA NextRenderFormat ==
    AllInv /\ RenderSeesItsFormat /\ [Next]_vars => RenderSeesItsFormat'
<1> SUFFICES ASSUME AllInv, RenderSeesItsFormat, [Next]_vars
             PROVE  RenderSeesItsFormat'
  OBVIOUS
<1> USE DistinctThreads
    DEF RenderSeesItsFormat, Using, Draining, AllInv, LockInv, PcOK
<1>1. CASE Capture
  <2>1. pc'["render"] = pc["render"] /\ renderCall' = renderCall
    BY <1>1 DEF Capture, CaptureCall, CaptureCheck, CaptureTakesRender,
       CaptureReinitialize, CaptureTakesCapture, CaptureProcess, Drain,
       DrainOne, DrainDone, locals, Goto
  <2>2. CASE CaptureReinitialize
    BY <2>1, <2>2 DEF CaptureReinitialize, RenderOwner
  <2>3. CASE ~ CaptureReinitialize
    BY <1>1, <2>1, <2>3 DEF Capture, CaptureCall, CaptureCheck, CaptureTakesRender,
       CaptureTakesCapture, CaptureProcess, Drain, DrainOne, DrainDone, setup
  <2> QED
    BY <2>2, <2>3
<1>2. ASSUME NEW f \in RenderFormats, RenderCall(f) PROVE RenderSeesItsFormat'
  BY <1>2 DEF RenderCall, Goto, setup
<1>3. CASE RenderReinitialize
  <2>1. [api EXCEPT !.reverse = renderCall].reverse = renderCall
    BY DEF SetupOK, Streams
  <2> QED
    BY <1>3, <2>1 DEF RenderReinitialize, ReinitializeTo, Goto, locals
<1>4. CASE Render /\ ~ RenderReinitialize /\ ~ \E f \in RenderFormats : RenderCall(f)
  <2>1. UNCHANGED <<api, renderCall>>
    BY <1>4 DEF Render, RenderInsert, RenderEmpty, RenderRetry, RenderBand, RenderAnalyze, Drain, DrainOne, DrainDone, setup, locals
  <2>2. Using("render") \/ ~ Using("render")'
    BY <1>4 DEF Render, RenderInsert, RenderEmpty, RenderRetry, RenderBand, RenderAnalyze, Drain, DrainOne, DrainDone, DrainStage,
       QueueStage, Queues
  <2> QED
    BY <2>1, <2>2
<1>5. ASSUME NEW a \in Api, Other(a) PROVE RenderSeesItsFormat'
  <2>1. pc'["render"] = pc["render"] /\ renderCall' = renderCall
    BY <1>5 DEF Other, ApiCall, ApiTakesRender, ApiBody, Goto, locals
  <2>2. CASE ApiBody(a)
    BY <2>1, <2>2 DEF ApiBody, RenderOwner
  <2>3. CASE ~ ApiBody(a)
    BY <1>5, <2>1, <2>3 DEF Other, ApiCall, ApiTakesRender, setup
  <2> QED
    BY <2>2, <2>3
<1>6. CASE UNCHANGED vars
  BY <1>6 DEF vars, setup, locals
<1> QED
  BY <1>1, <1>2, <1>3, <1>4, <1>5, <1>6 DEF Next

\* The render call works in its own format from the moment it has compared or
\* set it to its return, whatever the other threads reinitialize.
THEOREM RenderFormat == Spec => []RenderSeesItsFormat
<1>1. Init => RenderSeesItsFormat
  BY DistinctThreads DEF Init, RenderSeesItsFormat, Using, Draining
<1> QED
  BY <1>1, NextRenderFormat, AlwaysAllInv, PTL DEF Spec

\* What the capture thread knows in the gap between its two acquisitions: the
\* copy, then the formats, hold the input format of its call.
CaptureFormatInv ==
    /\ pc["capture"] \in {"want_render", "want_both"} => copy.capture = captureCall
    /\ pc["capture"] \in {"want_capture"} \cup Holding => api.capture = captureCall

LEMMA NextCaptureFormat ==
    ASSUME "InitializeTo" \notin ApiCalls
    PROVE  AllInv /\ CaptureFormatInv /\ [Next]_vars => CaptureFormatInv'
<1> SUFFICES ASSUME AllInv, CaptureFormatInv, [Next]_vars
             PROVE  CaptureFormatInv'
  OBVIOUS
<1> USE DistinctThreads DEF CaptureFormatInv, Holding, AllInv, LockInv, PcOK
<1>1. ASSUME NEW f \in CaptureFormats, CaptureCall(f) PROVE CaptureFormatInv'
  BY <1>1 DEF CaptureCall, Goto
<1>2. CASE CaptureCheck
  BY <1>2 DEF CaptureCheck, NeedsReinit, Goto, SetupOK, Streams
<1>3. CASE CaptureReinitialize
  BY <1>3 DEF CaptureReinitialize, ReinitializeTo, Goto, locals
<1>4. CASE CaptureTakesRender \/ CaptureTakesCapture \/ CaptureProcess
  BY <1>4 DEF CaptureTakesRender, CaptureTakesCapture, CaptureProcess, Goto,
     setup, locals
<1>5. CASE Drain("capture")
  BY <1>5 DEF Drain, DrainOne, DrainDone, DrainStage, Queues, Goto, setup, locals
<1>6. ASSUME Render \/ (\E a \in Api : Other(a))
      PROVE  UNCHANGED <<pc["capture"], copy, captureCall>>
  BY <1>6 DEF Render, RenderCall, RenderReinitialize, RenderInsert, RenderEmpty,
     RenderRetry, RenderBand, RenderAnalyze, Drain, DrainOne,
     DrainDone, Other, ApiCall, ApiTakesRender, ApiBody, Goto, locals
<1>7. CASE Render
  <2>1. api'.capture = api.capture
    BY <1>7 DEF Render, RenderCall, RenderReinitialize, ReinitializeTo,
       RenderInsert, RenderEmpty, RenderRetry, RenderBand,
       RenderAnalyze, Drain, DrainOne, DrainDone, setup, SetupOK, Streams
  <2> QED
    BY <1>6, <1>7, <2>1
<1>8. ASSUME NEW a \in Api, Other(a) PROVE CaptureFormatInv'
  <2>1. api' = api
    BY <1>8 DEF Other, ApiCall, ApiTakesRender, ApiBody, Apply, ReinitializeTo, setup
  <2> QED
    BY <1>6, <1>8, <2>1
<1>9. CASE UNCHANGED vars
  BY <1>9 DEF vars, setup, locals
<1> QED
  BY <1>1, <1>2, <1>3, <1>4, <1>5, <1>7, <1>8, <1>9 DEF Next, Capture

\* As long as nobody reinitializes to other formats under its feet, the capture
\* thread processes in the format of its call, although it decided to from a
\* copy of the formats it read under a mutex it had released.
THEOREM CaptureFormat ==
    ASSUME "InitializeTo" \notin ApiCalls PROVE Spec => []CaptureSeesItsFormat
<1>1. Init => CaptureFormatInv
  BY DistinctThreads DEF Init, CaptureFormatInv, Holding
<1>2. CaptureFormatInv => CaptureSeesItsFormat
  BY DEF CaptureFormatInv, CaptureSeesItsFormat, Draining, Holding
<1> QED
  BY <1>1, <1>2, NextCaptureFormat, AlwaysAllInv, PTL DEF Spec

(***************************************************************************)
(* The retried Insert                                                      *)
(***************************************************************************)

\* While a full queue is being emptied the submodule that drains it exists,
\* and the queues already gone through are empty: the render thread is the
\* only one that fills them.
DrainInv ==
    /\ pc["render"] \in {"empty", "drain_aecm", "drain_agc", "drain_red", "retry"}
           => Drainable(full)
    /\ pc["render"] \in {"drain_agc", "drain_red", "retry"} /\ full = "aecm"
           => len["aecm"] = 0
    /\ pc["render"] \in {"drain_red", "retry"} /\ full = "agc" => len["agc"] = 0
    /\ pc["render"] = "retry" /\ full = "red" => len["red"] = 0

\* Reinitialization only empties queues.
LEMMA RebuildEmpties ==
    ASSUME AllInv, \/ CaptureReinitialize \/ RenderReinitialize
                   \/ \E a \in Api : ApiBody(a)
    PROVE  pc'["render"] \in {"idle", "want_capture", "queue_red"}
<1> USE DistinctThreads DEF AllInv, LockInv, PcOK, RenderOwner
<1>1. CASE CaptureReinitialize
  BY <1>1 DEF CaptureReinitialize, Goto
<1>2. CASE RenderReinitialize
  BY <1>2 DEF RenderReinitialize, Goto
<1>3. CASE \E a \in Api : ApiBody(a)
  BY <1>3 DEF ApiBody, Goto
<1> QED
  BY <1>1, <1>2, <1>3

LEMMA NextDrainInv == AllInv /\ DrainInv /\ [Next]_vars => DrainInv'
<1> SUFFICES ASSUME AllInv, DrainInv, [Next]_vars
             PROVE  DrainInv'
  OBVIOUS
<1> USE DistinctThreads, QueueSizeAssumption
    DEF DrainInv, Drainable, AllInv, LockInv, PcOK, SetupOK, LocalsOK, Goto,
        setup, locals
<1>1. CASE \/ CaptureReinitialize \/ RenderReinitialize \/ \E a \in Api : ApiBody(a)
  BY <1>1, RebuildEmpties
<1>2. CASE /\ Capture \/ (\E a \in Api : ApiCall(a) \/ ApiTakesRender(a))
           /\ ~ CaptureReinitialize
  <2>1. UNCHANGED <<pc["render"], submodules, full>>
    BY <1>2 DEF Capture, CaptureCall, CaptureCheck, CaptureTakesRender,
       CaptureTakesCapture, CaptureProcess, Drain, DrainOne, DrainDone, ApiCall,
       ApiTakesRender
  <2>2. \A q \in Queues : len[q] = 0 => len'[q] = 0
    BY <1>2 DEF Capture, CaptureCall, CaptureCheck, CaptureTakesRender,
       CaptureTakesCapture, CaptureProcess, Drain, DrainOne, DrainDone, ApiCall,
       ApiTakesRender
  <2> QED
    BY <2>1, <2>2 DEF Queues
<1>3. ASSUME NEW f \in RenderFormats, RenderCall(f) PROVE DrainInv'
  BY <1>3 DEF RenderCall
<1>4. ASSUME NEW q \in Queues, RenderInsert(q) PROVE DrainInv'
  BY <1>4 DEF RenderInsert, Queues, Fed, QueueStage, After
<1>5. CASE RenderRetry
  BY <1>5 DEF RenderRetry, After
<1>6. CASE RenderEmpty
  BY <1>6 DEF RenderEmpty
<1>7. CASE RenderBand \/ RenderAnalyze
  BY <1>7 DEF RenderBand, RenderAnalyze
<1>8. ASSUME NEW q \in Queues, DrainOne("render", q) PROVE DrainInv'
  BY <1>8 DEF DrainOne, DrainStage, Queues
<1>9. ASSUME NEW q \in Queues, DrainDone("render", q) PROVE DrainInv'
  BY <1>9 DEF DrainDone, DrainStage, Queues
<1>10. CASE UNCHANGED vars
  BY <1>10 DEF vars
<1> QED
  BY <1>1, <1>2, <1>3, <1>4, <1>5, <1>6, <1>7, <1>8, <1>9, <1>10
  DEF Next, Render, Drain, Other

\* "Retry the insert (should always work)" does work.
THEOREM RetryWorks == Spec => []RetryAlwaysInserts
<1>1. Init => DrainInv
  BY DistinctThreads DEF Init, DrainInv
<1>2. AllInv /\ DrainInv => RetryAlwaysInserts
  BY QueueSizeAssumption
  DEF DrainInv, RetryAlwaysInserts, AllInv, SetupOK, LocalsOK, Queues
<1> QED
  BY <1>1, <1>2, NextDrainInv, AlwaysAllInv, PTL DEF Spec

(***************************************************************************)
(* The submodules                                                          *)
(***************************************************************************)

\* ApplyConfig rebuilds each group of submodules it sees change and leaves the
\* others, which were right for the settings they still have.
LEMMA ApplyFollows ==
    ASSUME SetupOK, SubmodulesFollowConfig, NEW c \in Configs, Apply(c)
    PROVE  SubmodulesFollowConfig'
<1> USE DEF SubmodulesFollowConfig, ModulesOf
<1>1. config' = c
  BY DEF Apply
<1>2. CASE c.maxRate # config.maxRate /\ ~ Refused(api)
  BY <1>1, <1>2 DEF Apply, ReinitializeTo, Reinitialize
<1>3. CASE ~ (c.maxRate # config.maxRate /\ ~ Refused(api))
  <2>1. submodules' =
            (IF c.aec # config.aec THEN EchoModules(c)
             ELSE submodules \cap {"echo_controller", "echo_control_mobile"})
            \cup (IF c.agc # config.agc THEN GainModules(c)
                  ELSE submodules \cap {"gain_control", "agc_manager"})
            \cup (IF c.ns # config.ns THEN NoiseModules(c)
                  ELSE submodules \cap {"noise_suppressor"})
    BY <1>3 DEF Apply, ReinitializeTo, GainChanged
  <2>2. c.aec = config.aec => EchoModules(c) = EchoModules(config)
    BY DEF EchoModules
  <2>3. c.agc = config.agc => GainModules(c) = GainModules(config)
    BY DEF GainModules
  <2>4. c.ns = config.ns => NoiseModules(c) = NoiseModules(config)
    BY DEF NoiseModules
  <2>5. /\ EchoModules(config) \subseteq {"echo_controller", "echo_control_mobile"}
        /\ GainModules(config) \subseteq {"gain_control", "agc_manager"}
        /\ NoiseModules(config) \subseteq {"noise_suppressor"}
    BY DEF EchoModules, GainModules, NoiseModules
  <2>6. /\ submodules \cap {"echo_controller", "echo_control_mobile"}
             = EchoModules(config)
        /\ submodules \cap {"gain_control", "agc_manager"} = GainModules(config)
        /\ submodules \cap {"noise_suppressor"} = NoiseModules(config)
    BY <2>5
  <2> QED
    BY <1>1, <2>1, <2>2, <2>3, <2>4, <2>6
<1> QED
  BY <1>2, <1>3

LEMMA NextFollows ==
    SetupOK /\ SubmodulesFollowConfig /\ [Next]_vars => SubmodulesFollowConfig'
<1> SUFFICES ASSUME SetupOK, SubmodulesFollowConfig, [Next]_vars
             PROVE  SubmodulesFollowConfig'
  OBVIOUS
<1> USE DEF SubmodulesFollowConfig
<1>1. ASSUME config' = config, NEW f, ReinitializeTo(f, submodules)
      PROVE  SubmodulesFollowConfig'
  BY <1>1 DEF ReinitializeTo, Reinitialize, ModulesOf
<1>2. CASE CaptureReinitialize
  BY <1>1, <1>2 DEF CaptureReinitialize
<1>3. CASE RenderReinitialize
  BY <1>1, <1>3 DEF RenderReinitialize
<1>4. ASSUME NEW a \in Api, ApiBody(a) PROVE SubmodulesFollowConfig'
  <2>1. ASSUME config' = config, Reinitialize(submodules)
        PROVE  SubmodulesFollowConfig'
    BY <2>1 DEF Reinitialize
  <2> QED
    BY <1>1, <1>4, <2>1, ApplyFollows DEF ApiBody
<1>5. UNCHANGED <<config, submodules>> => SubmodulesFollowConfig'
  BY DEF ModulesOf
<1>6. \/ CaptureReinitialize \/ RenderReinitialize \/ (\E a \in Api : ApiBody(a))
      \/ UNCHANGED <<config, submodules>>
  BY DEF Next, Capture, Render, Other, CaptureCall, CaptureCheck,
     CaptureTakesRender, CaptureTakesCapture, CaptureProcess, RenderCall,
     RenderInsert, RenderEmpty, RenderRetry, RenderBand,
     RenderAnalyze, Drain, DrainOne, DrainDone, ApiCall, ApiTakesRender, vars, setup
<1> QED
  BY <1>2, <1>3, <1>4, <1>5, <1>6

\* The submodules that exist are those the settings in force ask for.
THEOREM SubmodulesCorrect == Spec => []SubmodulesFollowConfig
<1>1. Init => SubmodulesFollowConfig
  BY DEF Init, SubmodulesFollowConfig, ModulesOf, EchoModules, GainModules,
     NoiseModules
<1> QED
  BY <1>1, NextFollows, AlwaysDataOK, PTL DEF Spec

(***************************************************************************)
(* The bands of the render buffer.  submodule_states_ and the rate of the  *)
(* render buffer fit each other unless the capture thread has updated the  *)
(* one and not yet the other.                                              *)
(***************************************************************************)
Reinitializing == pc["capture"] \in {"want_render", "want_both"}
NoneRefused == ~ Refused(api) /\ ~ Refused(copy) /\ captureCall # 0 /\ renderCall # 0
RatesFit == RenderMultiBandActive(states) => SamplesPerBand(renderRate) <= 160

BandInv ==
    /\ NoneRefused
    /\ Reinitializing \/ RatesFit
    /\ pc["render"] = "queue_aecm" => Reinitializing \/ RenderMultiBandActive(states)

\* A format that is not refused sets the rate for the modules then active.
LEMMA ReinitializeFits ==
    ASSUME config' \in Configs, NEW f \in Streams, ~ Refused(f), NEW mods,
           ReinitializeTo(f, mods)
    PROVE  RatesFit' /\ api' = f
<1> DEFINE s == Active(mods)
           splitting == CaptureMultiBandActive(s) \/ RenderMultiBandActive(s)
           capture == SuitableProcessRate(f.capture, config'.maxRate, splitting)
           reverse == SuitableProcessRate(f.reverse, config'.maxRate, splitting)
           render == IF "echo_controller" \in s THEN capture ELSE reverse
<1>1. states' = s /\ api' = f
  BY DEF ReinitializeTo, Reinitialize
<1>2. RenderMultiBandActive(s) => renderRate' = Max2(render, 160)
  BY DEF ReinitializeTo
<1>3. config'.maxRate \in {320, 480} /\ f.capture \in Nat /\ f.reverse \in Nat
  BY ConfigAssumption DEF Streams
<1>4. capture \in {160, 320, 480} /\ reverse \in {160, 320, 480}
  BY <1>3 DEF SuitableProcessRate
<1>5. Max2(render, 160) \in {160, 320, 480}
  <2> HIDE DEF capture, reverse, s
  <2> QED BY <1>4 DEF Max2
<1>6. RenderMultiBandActive(states') => renderRate' \in {160, 320, 480}
  <2> HIDE DEF render, s
  <2> QED BY <1>1, <1>2, <1>5
<1> QED
  BY <1>1, <1>6 DEF RatesFit, SamplesPerBand

LEMMA CaptureBandInv ==
    ASSUME AllInv, BandInv, 0 \notin CaptureFormats, Capture PROVE BandInv'
<1> USE DistinctThreads DEF BandInv, NoneRefused, Refused, AllInv, LockInv
<1>1. pc'["render"] = pc["render"] /\ renderCall' = renderCall
  BY DEF Capture, CaptureCall, CaptureCheck, CaptureTakesRender, PcOK,
     CaptureReinitialize, CaptureTakesCapture, CaptureProcess, Drain,
     DrainOne, DrainDone, locals, Goto
<1>2. ASSUME NEW f \in CaptureFormats, CaptureCall(f) PROVE BandInv'
  BY <1>1, <1>2
  DEF CaptureCall, Goto, PcOK, Reinitializing, RatesFit, setup
<1>3. CASE CaptureCheck
  <2>1. api' = api /\ renderRate' = renderRate /\ captureCall' = captureCall
        /\ copy' = [api EXCEPT !.capture = captureCall]
    BY <1>3 DEF CaptureCheck
  <2>2. NoneRefused'
    BY <1>1, <2>1 DEF SetupOK, Streams
  <2>3. CASE NeedsReinit
    <3>1. Reinitializing'
      BY <1>3, <2>3 DEF CaptureCheck, Goto, PcOK, Reinitializing
    <3> QED
      BY <2>2, <3>1
  <2>4. CASE ~ NeedsReinit
    <3>1. states' = states /\ ~ Reinitializing
      BY <1>3, <2>4 DEF CaptureCheck, NeedsReinit, Reinitializing
    <3> QED
      BY <1>1, <2>1, <2>2, <3>1 DEF RatesFit
  <2> QED
    BY <2>3, <2>4
<1>4. CASE CaptureTakesRender
  BY <1>1, <1>4
  DEF CaptureTakesRender, Goto, PcOK, Reinitializing, setup, locals
<1>5. CASE CaptureReinitialize
  <2>1. RatesFit' /\ api' = copy
    BY <1>5, ReinitializeFits DEF CaptureReinitialize, SetupOK, LocalsOK
  <2>2. pc["render"] = "idle"
    BY <1>5 DEF CaptureReinitialize, RenderOwner
  <2> QED
    BY <1>1, <1>5, <2>1, <2>2 DEF CaptureReinitialize, locals
<1>6. CASE CaptureTakesCapture \/ CaptureProcess
  BY <1>1, <1>6 DEF CaptureTakesCapture, CaptureProcess, Goto, PcOK,
     Reinitializing, RatesFit, setup, locals
<1>7. ASSUME NEW q \in Queues, DrainOne("capture", q) \/ DrainDone("capture", q)
      PROVE  BandInv'
  <2>1. ~ Reinitializing /\ UNCHANGED <<setup, locals>>
    BY <1>7 DEF DrainOne, DrainDone, DrainStage, Queues, Reinitializing
  <2> QED
    BY <1>1, <2>1 DEF RatesFit, setup, locals
<1> QED
  BY <1>2, <1>3, <1>4, <1>5, <1>6, <1>7 DEF Capture, Drain

LEMMA RenderBandInv ==
    ASSUME AllInv, BandInv, 0 \notin RenderFormats, Render PROVE BandInv'
<1> USE DistinctThreads DEF BandInv, NoneRefused, Refused, AllInv, LockInv
<1>1. pc'["capture"] = pc["capture"] /\ UNCHANGED <<captureCall, copy>>
  BY DEF Render, RenderCall, RenderReinitialize, RenderInsert, RenderEmpty,
     RenderRetry, RenderBand, RenderAnalyze, PcOK, Drain, DrainOne, DrainDone,
     locals, Goto
<1>2. ASSUME NEW f \in RenderFormats, RenderCall(f) PROVE BandInv'
  <2>1. pc'["render"] # "queue_aecm" /\ renderCall' = f /\ f # 0
    BY <1>2 DEF RenderCall, Goto, PcOK
  <2> QED
    BY <1>1, <1>2, <2>1 DEF RenderCall, Reinitializing, RatesFit, setup
<1>3. CASE RenderReinitialize
  <2> DEFINE f == [api EXCEPT !.reverse = renderCall]
  <2>1. f \in Streams /\ ~ Refused(f)
    BY DEF SetupOK, LocalsOK, Streams
  <2>2. RatesFit' /\ api' = f
    BY <1>3, <2>1, ReinitializeFits DEF RenderReinitialize, SetupOK
  <2>3. pc'["render"] = "queue_red" /\ UNCHANGED locals
    BY <1>3, <2>1 DEF RenderReinitialize, Goto, PcOK
  <2> QED
    BY <2>1, <2>2, <2>3 DEF locals
<1>4. ASSUME UNCHANGED <<setup, renderCall>>, pc'["render"] # "queue_aecm"
      PROVE  BandInv'
  BY <1>1, <1>4 DEF Reinitializing, RatesFit, setup
<1>5. ASSUME NEW q \in Queues, RenderInsert(q) PROVE BandInv'
  BY <1>4, <1>5 DEF RenderInsert, Goto, After, PcOK, Queues
<1>6. CASE RenderEmpty
  BY <1>4, <1>6 DEF RenderEmpty, Goto, PcOK, locals
<1>7. CASE RenderRetry
  BY <1>4, <1>7 DEF RenderRetry, Goto, After, PcOK, locals
<1>8. CASE RenderAnalyze
  BY <1>4, <1>8 DEF RenderAnalyze, Goto, PcOK
<1>9. CASE RenderBand
  BY <1>1, <1>9 DEF RenderBand, Goto, PcOK, Reinitializing, RatesFit, setup, locals
<1>10. ASSUME NEW q \in Queues, DrainOne("render", q) \/ DrainDone("render", q)
       PROVE  BandInv'
  BY <1>4, <1>10 DEF DrainOne, DrainDone, DrainStage, Queues, Goto, PcOK, locals
<1> QED
  BY <1>2, <1>3, <1>5, <1>6, <1>7, <1>8, <1>9, <1>10 DEF Render, Drain

LEMMA OtherBandInv ==
    ASSUME AllInv, BandInv, 0 \notin CaptureFormats \cup RenderFormats,
           "Initialize" \notin ApiCalls, NEW t \in Api, Other(t)
    PROVE  BandInv'
<1> USE DistinctThreads DEF BandInv, NoneRefused, Refused, AllInv, LockInv
<1>1. /\ pc'["capture"] = pc["capture"] /\ pc'["render"] = pc["render"]
      /\ UNCHANGED <<captureCall, copy, renderCall>>
  BY DEF Other, ApiCall, ApiTakesRender, ApiBody, PcOK, locals, Goto
<1>2. ASSUME UNCHANGED <<api, states, renderRate>> PROVE BandInv'
  BY <1>1, <1>2 DEF Reinitializing, RatesFit
<1>3. CASE ApiCall(t) \/ ApiTakesRender(t)
  BY <1>2, <1>3 DEF ApiCall, ApiTakesRender, setup
<1>4. CASE ApiBody(t)
  <2>1. pc["render"] = "idle" /\ pc'["render"] = "idle"
    BY <1>1, <1>4 DEF ApiBody, RenderOwner
  <2>2. ASSUME NEW f \in Streams, ~ Refused(f), NEW mods, config' \in Configs,
               ReinitializeTo(f, mods)
        PROVE  BandInv'
    <3>1. RatesFit' /\ api' = f
      BY <2>2, ReinitializeFits
    <3> QED
      BY <1>1, <2>1, <2>2, <3>1
  <2>3. ASSUME NEW c \in Configs, Apply(c) PROVE BandInv'
    <3>1. CASE c.maxRate # config.maxRate
      <4>1. \E mods : ReinitializeTo(api, mods)
        BY <2>3, <3>1 DEF Apply
      <4>2. config' \in Configs
        BY <2>3 DEF Apply
      <4> QED
        BY <2>2, <4>1, <4>2 DEF SetupOK
    <3>2. CASE c.maxRate = config.maxRate
      BY <1>2, <2>3, <3>2 DEF Apply
    <3> QED
      BY <3>1, <3>2
  <2>4. ASSUME NEW f \in Formats, config' = config, ReinitializeTo(f, submodules)
        PROVE  BandInv'
    <3>1. f \in Streams /\ ~ Refused(f)
      BY FormatAssumption DEF Formats, Streams
    <3> QED
      BY <2>2, <2>4, <3>1 DEF SetupOK
  <2> QED
    BY <1>4, <2>3, <2>4 DEF ApiBody
<1> QED
  BY <1>3, <1>4 DEF Other

\* While the capture thread is not between its look at the modules and the
\* reinitialization this asks for, QueueBandedRenderAudio has bands of 160
\* samples, if no call Initialize() leaves the rates as they are and no format
\* is refused; so it has when no other call is in progress.
THEOREM BandedInputFits ==
    ASSUME 0 \notin CaptureFormats \cup RenderFormats, "Initialize" \notin ApiCalls
    PROVE  Spec => []QuietBandedInput
<1>1. Init => BandInv
  BY DEF Init, BandInv, NoneRefused, Refused, RatesFit, RenderMultiBandActive,
     Threads
<1>2. AllInv /\ BandInv /\ [Next]_vars => BandInv'
  <2>1. UNCHANGED vars /\ BandInv => BandInv'
    BY DEF vars, setup, locals, BandInv, NoneRefused, Refused, RatesFit,
       Reinitializing
  <2> QED
    BY <2>1, CaptureBandInv, RenderBandInv, OtherBandInv DEF Next
<1>3. BandInv => QuietBandedInput
  BY DistinctThreads
  DEF BandInv, QuietBandedInput, Reinitializing, RatesFit, Idle
<1> QED
  BY <1>1, <1>2, <1>3, AlwaysAllInv, PTL DEF Spec

(***************************************************************************)
(* Progress: what is left to liveness when the mutexes are given fairly.   *)
(***************************************************************************)

\* A thread in a call that no other thread keeps waiting.
GoesOn(t) == ~ Idle(t) /\ \A u \in Threads : ~ BlockedBy(t, u)

\* Chains of waiting threads have at most two links, so they never close into
\* a cycle, and as long as calls are in progress one of them goes on.
SomeCallGoesOn ==
    /\ \A a, b, c, d \in Threads :
          ~ (BlockedBy(a, b) /\ BlockedBy(b, c) /\ BlockedBy(c, d))
    /\ (\E t \in Threads : ~ Idle(t)) => \E t \in Threads : GoesOn(t)

\* Who owns mutex_capture_ waits for nothing.
LEMMA CaptureOwnerRuns ==
    ASSUME LockInv, NEW t \in Threads, captureLock = t
    PROVE  GoesOn(t)
  BY DistinctThreads
  DEF LockInv, CaptureOwner, GoesOn, Idle, Holding, BlockedBy, WaitsForRender,
      WaitsForCapture, Threads

\* Who owns mutex_render_ is in a call and does not wait for mutex_render_.
LEMMA RenderOwnerRuns ==
    ASSUME LockInv, NEW t \in Threads, renderLock = t
    PROVE  ~ Idle(t) /\ ~ WaitsForRender(t)
<1>1. CASE t = "render"
  BY <1>1 DEF LockInv, PcOK, RenderOwner, RenderStages, Idle, WaitsForRender
<1>2. CASE t # "render"
  BY <1>2 DEF LockInv, RenderOwner, Idle, WaitsForRender
<1> QED
  BY <1>1, <1>2

\* A waiting thread waits for the owner of mutex_capture_, or for the owner of
\* mutex_render_, which waits at most for the former.
THEOREM CallsGoOn == Spec => []SomeCallGoesOn
<1> SUFFICES ASSUME LockInv PROVE SomeCallGoesOn
  BY AlwaysLockInv, PTL
<1>1. ASSUME NEW a \in Threads, NEW b \in Threads, NEW c \in Threads,
             BlockedBy(a, b), BlockedBy(b, c)
      PROVE  captureLock = c
  <2>1. ~ (captureLock = b)
    BY <1>1, CaptureOwnerRuns DEF GoesOn
  <2>2. ~ WaitsForRender(b)
    BY <1>1, <2>1, RenderOwnerRuns DEF BlockedBy
  <2> QED
    BY <1>1, <2>2 DEF BlockedBy
<1>2. ASSUME NEW a \in Threads, NEW b \in Threads, NEW c \in Threads,
             NEW d \in Threads, BlockedBy(a, b), BlockedBy(b, c), BlockedBy(c, d)
      PROVE  FALSE
  BY <1>1, <1>2, CaptureOwnerRuns DEF GoesOn
<1>3. ASSUME NEW t \in Threads, ~ Idle(t) PROVE \E u \in Threads : GoesOn(u)
  <2>1. CASE GoesOn(t)
    BY <2>1
  <2>2. ASSUME NEW u \in Threads, BlockedBy(t, u), ~ GoesOn(u)
        PROVE  \E v \in Threads : GoesOn(v)
    <3>1. ~ (captureLock = u) /\ renderLock = u
      BY <2>2, CaptureOwnerRuns DEF BlockedBy
    <3>2. PICK v \in Threads : BlockedBy(u, v)
      BY <2>2, <3>1, RenderOwnerRuns DEF GoesOn
    <3> QED
      BY <1>1, <2>2, <3>2, CaptureOwnerRuns
  <2> QED
    BY <1>3, <2>1, <2>2, CaptureOwnerRuns DEF GoesOn
<1> QED
  BY <1>2, <1>3 DEF SomeCallGoesOn

\* The steps the render thread has left in its call: at most three frames to
\* insert, each of which may have to empty three queues of QueueSize frames.
Queued == len["aecm"] + len["agc"] + len["red"]
InsertWork == 3 * QueueSize + 6
Work(stage) == CASE stage = "idle"         -> 0
                 [] stage = "analyze"      -> 1
                 [] stage = "queue_agc"    -> 1 + InsertWork
                 [] stage = "queue_aecm"   -> 1 + 2 * InsertWork
                 [] stage = "band"         -> 2 + 2 * InsertWork
                 [] stage = "queue_red"    -> 2 + 3 * InsertWork
                 [] stage = "want_capture" -> 3 + 3 * InsertWork
RetryWork(q) == 1 + Work(After(q))
WorkLeft(stage, q, queued) ==
    CASE stage = "empty"      -> RetryWork(q) + 3 * QueueSize + 4
      [] stage = "drain_aecm" -> RetryWork(q) + queued + 3
      [] stage = "drain_agc"  -> RetryWork(q) + queued + 2
      [] stage = "drain_red"  -> RetryWork(q) + queued + 1
      [] stage = "retry"      -> RetryWork(q)
      [] OTHER                -> Work(stage)
RenderWork == WorkLeft(pc["render"], full, Queued)

\* A render call takes a bounded number of steps of the render thread, and no
\* other thread adds to it.
RenderWorkBounded == RenderWork \in 0 .. 9 * QueueSize + 21
RenderCallShortens ==
    [][pc["render"] # "idle" => IF Render THEN RenderWork' < RenderWork
                                ELSE RenderWork' <= RenderWork]_vars

\* What each stage has left, and each queue after its Insert.
LEMMA WorkValues ==
    /\ InsertWork \in Nat /\ InsertWork = 3 * QueueSize + 6
    /\ Work("idle") = 0 /\ Work("analyze") = 1
    /\ Work("queue_agc") = 1 + InsertWork
    /\ Work("queue_aecm") = 1 + 2 * InsertWork
    /\ Work("band") = 2 + 2 * InsertWork
    /\ Work("queue_red") = 2 + 3 * InsertWork
    /\ Work("want_capture") = 3 + 3 * InsertWork
    /\ RetryWork("red") = 3 + 2 * InsertWork
    /\ RetryWork("aecm") = 2 + InsertWork
    /\ RetryWork("agc") = 2
  BY QueueSizeAssumption DEF InsertWork, Work, RetryWork, After

LEMMA RetryWorkNat ==
    ASSUME NEW q \in Queues
    PROVE  /\ RetryWork(q) \in Nat /\ RetryWork(q) >= 2
           /\ RetryWork(q) = Work(After(q)) + 1
           /\ Work(After(q)) \in Nat
           /\ Work(QueueStage(q)) = RetryWork(q) + 3 * QueueSize + 5
<1>1. RetryWork(q) \in Nat /\ RetryWork(q) >= 2
  BY WorkValues DEF Queues
<1>2. Work(After(q)) \in Nat
  BY WorkValues DEF After
<1>3. Work(QueueStage(q)) = RetryWork(q) + InsertWork - 1
  BY WorkValues DEF Queues, QueueStage
<1> QED
  BY <1>1, <1>2, <1>3, WorkValues, QueueSizeAssumption DEF RetryWork

LEMMA QueuedNat == ASSUME SetupOK PROVE Queued \in Nat /\ Queued <= 3 * QueueSize
<1>1. \A q \in Queues : len[q] \in 0 .. QueueSize
  BY DEF SetupOK
<1>2. len["aecm"] \in 0 .. QueueSize /\ len["agc"] \in 0 .. QueueSize
      /\ len["red"] \in 0 .. QueueSize
  BY <1>1 DEF Queues
<1> QED
  BY <1>2, QueueSizeAssumption DEF Queued

\* A stage outside the emptying of a full queue.
LEMMA PlainWork ==
    ASSUME pc["render"] \in {"idle", "analyze", "queue_agc", "queue_aecm", "band",
                              "queue_red", "want_capture"}
    PROVE  RenderWork = Work(pc["render"])
  BY DEF RenderWork, WorkLeft

\* One Remove leaves one frame less in the queues together.
LEMMA RemoveShortens ==
    ASSUME SetupOK, NEW t, NEW q \in Queues, DrainOne(t, q)
    PROVE  Queued' = Queued - 1
<1>1. \A p \in Queues : len[p] \in 0 .. QueueSize
  BY DEF SetupOK
<1>2. len' = [p \in Queues |-> IF p = q THEN len[q] - 1 ELSE len[p]]
  BY DEF DrainOne, SetupOK
<1>3. /\ len["aecm"] \in Int /\ len["agc"] \in Int /\ len["red"] \in Int
      /\ len'["aecm"] = IF q = "aecm" THEN len["aecm"] - 1 ELSE len["aecm"]
      /\ len'["agc"] = IF q = "agc" THEN len["agc"] - 1 ELSE len["agc"]
      /\ len'["red"] = IF q = "red" THEN len["red"] - 1 ELSE len["red"]
  BY <1>1, <1>2 DEF Queues
<1> QED
  BY <1>3 DEF Queued, Queues

LEMMA RenderShortens ==
    ASSUME AllInv, AllInv', pc["render"] # "idle", Render
    PROVE  RenderWork' < RenderWork
<1> DEFINE plain == {"idle", "analyze", "queue_agc", "queue_aecm", "band",
                     "queue_red", "want_capture"}
<1> USE DistinctThreads DEF AllInv, LockInv
<1>01. Queued \in Nat /\ Queued <= 3 * QueueSize
  BY QueuedNat
<1>02. Queued' \in Nat
  <2>1. \A q \in Queues : len'[q] \in 0 .. QueueSize
    BY DEF SetupOK
  <2>2. len'["aecm"] \in Nat /\ len'["agc"] \in Nat /\ len'["red"] \in Nat
    BY <2>1 DEF Queues
  <2> QED
    BY <2>2 DEF Queued
<1>03. full \in Queues
  BY DEF LocalsOK
<1>04. /\ RetryWork(full) \in Nat /\ RetryWork(full) >= 2
       /\ RetryWork(full) = Work(After(full)) + 1 /\ Work(After(full)) \in Nat
  BY <1>03, RetryWorkNat
<1>0. /\ RetryWork(full) \in Nat /\ QueueSize \in Nat /\ InsertWork \in Nat
      /\ Queued \in Nat /\ Queued' \in Nat /\ Queued <= 3 * QueueSize
  BY <1>01, <1>02, <1>04, WorkValues, QueueSizeAssumption
<1>1. CASE RenderReinitialize
  <2>1. pc["render"] = "want_capture" /\ pc'["render"] \in {"idle", "queue_red"}
    BY <1>1 DEF RenderReinitialize, Goto, PcOK
  <2>2. RenderWork = 3 + 3 * InsertWork
    BY <2>1, PlainWork, WorkValues
  <2>3. RenderWork' \in {0, 2 + 3 * InsertWork}
    BY <2>1, WorkValues DEF RenderWork, WorkLeft
  <2> QED
    BY <1>0, <2>2, <2>3
<1>2. ASSUME NEW q \in Queues, RenderInsert(q) PROVE RenderWork' < RenderWork
  <2>0. /\ RetryWork(q) \in Nat /\ RetryWork(q) = Work(After(q)) + 1
        /\ Work(After(q)) \in Nat
        /\ Work(QueueStage(q)) = RetryWork(q) + 3 * QueueSize + 5
    BY RetryWorkNat
  <2>1. RenderWork = Work(QueueStage(q))
    BY <1>2, PlainWork DEF RenderInsert, QueueStage
  <2>2. CASE pc'["render"] = "empty" /\ full' = q
    <3>1. RenderWork' = RetryWork(q) + 3 * QueueSize + 4
      BY <2>2 DEF RenderWork, WorkLeft
    <3> QED
      BY <1>0, <2>0, <2>1, <3>1
  <2>3. CASE pc'["render"] = After(q)
    <3>1. RenderWork' = Work(After(q))
      BY <2>3 DEF RenderWork, WorkLeft, After
    <3> QED
      BY <1>0, <2>0, <2>1, <3>1
  <2> QED
    BY <1>2, <2>2, <2>3 DEF RenderInsert, Goto, PcOK
<1>3. CASE RenderEmpty
  <2>1. /\ pc["render"] = "empty" /\ pc'["render"] = "drain_aecm"
        /\ full' = full /\ Queued' = Queued
    BY <1>3 DEF RenderEmpty, Goto, PcOK, locals, Queued
  <2>2. /\ RenderWork = RetryWork(full) + 3 * QueueSize + 4
        /\ RenderWork' = RetryWork(full) + Queued + 3
    BY <2>1 DEF RenderWork, WorkLeft
  <2> QED
    BY <1>0, <2>2
<1>4. CASE RenderRetry
  <2>1. pc["render"] = "retry" /\ pc'["render"] = After(full)
    BY <1>4 DEF RenderRetry, Goto, PcOK
  <2>2. RenderWork = RetryWork(full) /\ RenderWork' = Work(After(full))
    BY <2>1 DEF RenderWork, WorkLeft, After
  <2> QED
    BY <1>04, <2>2
<1>5. CASE RenderBand
  <2>1. pc["render"] = "band" /\ pc'["render"] \in {"queue_aecm", "analyze"}
    BY <1>5 DEF RenderBand, Goto, PcOK
  <2>2. RenderWork = 2 + 2 * InsertWork
    BY <2>1, PlainWork, WorkValues
  <2>3. RenderWork' \in {1, 1 + 2 * InsertWork}
    BY <2>1, WorkValues DEF RenderWork, WorkLeft
  <2> QED
    BY <1>0, <2>2, <2>3
<1>6. CASE RenderAnalyze
  <2>1. pc["render"] = "analyze" /\ pc'["render"] = "idle"
    BY <1>6 DEF RenderAnalyze, Goto, PcOK
  <2> QED
    BY <2>1, WorkValues DEF RenderWork, WorkLeft
<1>7. ASSUME NEW q \in Queues, DrainOne("render", q) PROVE RenderWork' < RenderWork
  <2>1. /\ pc["render"] \in {"drain_aecm", "drain_agc", "drain_red"}
        /\ pc' = pc /\ full' = full
    BY <1>7 DEF DrainOne, DrainStage, locals
  <2>2. Queued' = Queued - 1
    BY <1>7, RemoveShortens
  <2> QED
    BY <1>0, <2>1, <2>2 DEF RenderWork, WorkLeft
<1>8. ASSUME NEW q \in Queues, DrainDone("render", q) PROVE RenderWork' < RenderWork
  <2>1. /\ full' = full /\ Queued' = Queued
        /\ \/ pc["render"] = "drain_aecm" /\ pc'["render"] = "drain_agc"
           \/ pc["render"] = "drain_agc" /\ pc'["render"] = "drain_red"
           \/ pc["render"] = "drain_red" /\ pc'["render"] = "retry"
    BY <1>8 DEF DrainDone, DrainStage, Queues, Goto, PcOK, locals, Queued
  <2> QED
    BY <1>0, <2>1 DEF RenderWork, WorkLeft
<1> QED
  BY <1>1, <1>2, <1>3, <1>4, <1>5, <1>6, <1>7, <1>8
  DEF Render, RenderCall, Drain

\* The other threads do not move the render thread, and while it is in a call
\* they can only take frames out of the queues.
LEMMA OthersLeaveRender ==
    ASSUME AllInv, pc["render"] # "idle", [Next]_vars, ~ Render
    PROVE  RenderWork' <= RenderWork
<1> USE DistinctThreads DEF AllInv, LockInv
<1>1. UNCHANGED <<pc["render"], full>>
  BY DEF Next, Capture, CaptureCall, CaptureCheck, CaptureTakesRender,
     CaptureReinitialize, CaptureTakesCapture, CaptureProcess, Drain, DrainOne,
     DrainDone, Other, ApiCall, ApiTakesRender, ApiBody, PcOK, Goto, locals, vars
<1>2. (\E q \in Queues : DrainOne("capture", q)) \/ UNCHANGED len
  BY DEF Next, Capture, CaptureCall, CaptureCheck, CaptureTakesRender,
     CaptureReinitialize, CaptureTakesCapture, CaptureProcess, Drain,
     DrainDone, Other, ApiCall, ApiTakesRender, ApiBody, RenderOwner, vars
<1>3. Queued' \in {Queued, Queued - 1}
  BY <1>2, RemoveShortens DEF Queued
<1>4. /\ full \in Queues /\ RetryWork(full) \in Nat /\ Queued \in Nat
      /\ QueueSize \in Nat
  BY QueuedNat, RetryWorkNat, WorkValues, QueueSizeAssumption DEF LocalsOK
<1>5. CASE pc["render"] \in {"drain_aecm", "drain_agc", "drain_red"}
  BY <1>1, <1>3, <1>4, <1>5 DEF RenderWork, WorkLeft
<1>6. CASE pc["render"] \in RenderStages \ {"drain_aecm", "drain_agc", "drain_red"}
  <2>1. RenderWork' = RenderWork
    BY <1>1, <1>6 DEF RenderWork, WorkLeft
  <2>2. RenderWork \in Nat
    BY <1>4, <1>6, WorkValues DEF RenderWork, WorkLeft, RenderStages
  <2> QED
    BY <2>1, <2>2
<1> QED
  BY <1>5, <1>6 DEF PcOK

\* Every step of the render thread in a call brings it nearer to its return,
\* and nothing any other thread does takes it farther away.
THEOREM RenderCallEnds == Spec => []RenderWorkBounded /\ RenderCallShortens
<1>1. AllInv => RenderWorkBounded
  <2> SUFFICES ASSUME AllInv PROVE RenderWorkBounded
    OBVIOUS
  <2>1. full \in Queues /\ SetupOK /\ pc["render"] \in RenderStages
    BY DEF AllInv, LockInv, PcOK, LocalsOK
  <2>2. Queued \in Nat /\ Queued <= 3 * QueueSize /\ QueueSize \in Nat
    BY <2>1, QueuedNat, QueueSizeAssumption
  <2>3. RetryWork(full) \in Nat /\ RetryWork(full) <= 6 * QueueSize + 15
    BY <2>1, WorkValues, QueueSizeAssumption DEF Queues
  <2>4. CASE pc["render"] \in {"empty", "drain_aecm", "drain_agc", "drain_red", "retry"}
    BY <2>2, <2>3, <2>4 DEF RenderWork, WorkLeft, RenderWorkBounded
  <2>5. CASE pc["render"] \in {"idle", "want_capture", "queue_red", "band",
                               "queue_aecm", "queue_agc", "analyze"}
    <3>1. Work(pc["render"]) \in Nat /\ Work(pc["render"]) <= 9 * QueueSize + 21
      BY <2>5, WorkValues, QueueSizeAssumption
    <3>2. RenderWork = Work(pc["render"])
      BY <2>5, PlainWork
    <3> QED
      BY <2>2, <3>1, <3>2 DEF RenderWorkBounded
  <2> QED
    BY <2>1, <2>4, <2>5 DEF RenderStages
<1>2. AllInv /\ AllInv' /\ [Next]_vars =>
        [pc["render"] # "idle" => IF Render THEN RenderWork' < RenderWork
                                  ELSE RenderWork' <= RenderWork]_vars
  <2> SUFFICES ASSUME AllInv, AllInv', [Next]_vars, pc["render"] # "idle"
               PROVE  IF Render THEN RenderWork' < RenderWork
                      ELSE RenderWork' <= RenderWork
    OBVIOUS
  <2>1. RenderWork \in Nat
    BY <1>1, QueueSizeAssumption DEF RenderWorkBounded
  <2> QED
    BY <2>1, RenderShortens, OthersLeaveRender
<1> QED
  BY <1>1, <1>2, AlwaysAllInv, PTL DEF Spec, RenderCallShortens

(***************************************************************************)
(* The contract of SwapQueue: one producer, one consumer, and a Clear only *)
(* while there is neither.                                                 *)
(***************************************************************************)

\* Frames enter a render queue one at a time and by the owner of mutex_render_
\* in a render call; they leave one at a time by the owner of mutex_capture_,
\* or all at once when no stream is in its processing.
UsedAsRequired(q) ==
    /\ len'[q] > len[q] => len'[q] = len[q] + 1 /\ renderLock = "render"
    /\ len'[q] < len[q] =>
          \/ /\ len'[q] = len[q] - 1
             /\ \E t \in Threads : captureLock = t /\ Draining(t)
          \/ len'[q] = 0 /\ \A t \in Threads : ~ Using(t)
QueuesUsedAsRequired == [][\A q \in Queues : UsedAsRequired(q)]_vars

\* InitializeLocked empties every queue, or refuses and touches none;
\* ApplyConfig alone empties at most the queue of the mobile echo canceller.
LEMMA RebuildClears ==
    ASSUME AllInv, \/ CaptureReinitialize \/ RenderReinitialize
                   \/ \E a \in Api : ApiBody(a)
    PROVE  \A q \in Queues : len'[q] \in {0, len[q]}
<1> USE DEF AllInv, SetupOK
<1>1. ASSUME NEW f, NEW mods, ReinitializeTo(f, mods)
      PROVE  \A q \in Queues : len'[q] \in {0, len[q]}
  BY <1>1 DEF ReinitializeTo, Reinitialize
<1>2. CASE CaptureReinitialize
  BY <1>1, <1>2 DEF CaptureReinitialize
<1>3. CASE RenderReinitialize
  BY <1>1, <1>3 DEF RenderReinitialize
<1>4. ASSUME NEW c \in Configs, Apply(c)
      PROVE  \A q \in Queues : len'[q] \in {0, len[q]}
  <2>1. CASE c.maxRate # config.maxRate
    BY <1>1, <1>4, <2>1 DEF Apply
  <2>2. CASE c.maxRate = config.maxRate
    <3>1. len' = [len EXCEPT !["aecm"] = IF c.aec # config.aec THEN 0 ELSE @]
      BY <1>4, <2>2 DEF Apply
    <3> QED
      BY <3>1
  <2> QED
    BY <2>1, <2>2
<1>5. ASSUME NEW a \in Api, ApiBody(a)
      PROVE  \A q \in Queues : len'[q] \in {0, len[q]}
  BY <1>1, <1>4, <1>5 DEF ApiBody, Reinitialize
<1> QED
  BY <1>2, <1>3, <1>5

\* The render queues are used as the thread checks of SwapQueue require.
THEOREM QueueContract == Spec => QueuesUsedAsRequired
<1>1. ASSUME AllInv, [Next]_vars, NEW q \in Queues
      PROVE  UsedAsRequired(q)
  <2> USE <1>1, DistinctThreads, QueueSizeAssumption
  <2>1. len \in [Queues -> 0 .. QueueSize] /\ len[q] \in Nat
    BY DEF AllInv, SetupOK
  <2>2. CASE \/ CaptureReinitialize \/ RenderReinitialize
             \/ \E a \in Api : ApiBody(a)
    <3>1. len'[q] \in {0, len[q]}
      BY <2>2, RebuildClears
    <3>2. \A t \in Threads : ~ Using(t)
      BY <2>2, RebuildUnused DEF AllInv
    <3> QED
      BY <2>1, <3>1, <3>2 DEF UsedAsRequired
  <2>3. ASSUME NEW t \in {"capture", "render"}, NEW p \in Queues, DrainOne(t, p)
        PROVE  /\ len'[q] \in {len[q], len[q] - 1}
               /\ captureLock = t /\ Draining(t)
    <3>1. len'[q] \in {len[q], len[q] - 1}
      BY <2>1, <2>3 DEF DrainOne
    <3>2. Draining(t)
      BY <2>3 DEF DrainOne, DrainStage, Draining, Queues
    <3> QED
      BY <3>1, <3>2 DEF AllInv, LockInv, CaptureOwner, Draining, Holding
  <2>4. ASSUME NEW p \in Queues, RenderInsert(p)
        PROVE  len'[q] \in {len[q], len[q] + 1} /\ renderLock = "render"
    <3>1. len'[q] \in {len[q], len[q] + 1}
      BY <2>1, <2>4 DEF RenderInsert
    <3> QED
      BY <2>4, <3>1
      DEF RenderInsert, QueueStage, AllInv, LockInv, RenderOwner, Queues
  <2>5. ASSUME RenderRetry
        PROVE  len'[q] \in {len[q], len[q] + 1} /\ renderLock = "render"
    <3>1. len'[q] \in {len[q], len[q] + 1}
      BY <2>1, <2>5 DEF RenderRetry
    <3>2. renderLock = "render"
      BY <2>5 DEF RenderRetry, AllInv, LockInv, RenderOwner
    <3> QED
      BY <3>1, <3>2
  <2>6. \/ CaptureReinitialize \/ RenderReinitialize \/ \E a \in Api : ApiBody(a)
        \/ \E t \in {"capture", "render"}, p \in Queues : DrainOne(t, p)
        \/ \E p \in Queues : RenderInsert(p)
        \/ RenderRetry
        \/ UNCHANGED len
    BY DEF Next, Capture, CaptureCall, CaptureCheck, CaptureTakesRender,
       CaptureTakesCapture, CaptureProcess, Render, RenderCall, RenderEmpty,
       RenderBand, RenderAnalyze, Drain, DrainDone, Other, ApiCall,
       ApiTakesRender, vars
  <2>7. CASE \E t \in {"capture", "render"}, p \in Queues : DrainOne(t, p)
    <3>1. PICK t \in {"capture", "render"} : \E p \in Queues : DrainOne(t, p)
      BY <2>7
    <3>2. len'[q] \in {len[q], len[q] - 1} /\ captureLock = t /\ Draining(t)
      BY <2>3, <3>1
    <3> QED
      BY <2>1, <3>2, DistinctThreads DEF UsedAsRequired
  <2>8. CASE RenderRetry \/ \E p \in Queues : RenderInsert(p)
    <3>1. len'[q] \in {len[q], len[q] + 1} /\ renderLock = "render"
      BY <2>4, <2>5, <2>8
    <3> QED
      BY <2>1, <3>1 DEF UsedAsRequired
  <2>9. CASE UNCHANGED len
    BY <2>1, <2>9 DEF UsedAsRequired
  <2> QED
    BY <2>2, <2>6, <2>7, <2>8, <2>9
<1>2. AllInv /\ [Next]_vars => [\A q \in Queues : UsedAsRequired(q)]_vars
  BY <1>1
<1> QED
  BY <1>2, AlwaysAllInv, PTL DEF Spec, QueuesUsedAsRequired

(***************************************************************************)
(* The input of the echo controller's render writer.  Only the settings    *)
(* create the controller without a new look at the rates; from the time    *)
(* the capture thread has seen it, to the time it disappears again, the    *)
(* render buffer has the rate the controller was made for.                 *)
(***************************************************************************)
EchoSettled == "echo_controller" \in states /\ ~ Reinitializing
EchoRatesFit ==
    "echo_controller" \in states =>
        renderRate = captureRate /\ renderRate \in {160, 320, 480}
EchoInv ==
    /\ NoneRefused
    /\ controllerRate = captureRate
    /\ Reinitializing \/ EchoRatesFit

\* A format that is not refused gives the render buffer the capture rate when
\* the echo controller is active.
LEMMA ReinitializeFitsEcho ==
    ASSUME config' \in Configs, NEW f \in Streams, ~ Refused(f), NEW mods,
           ReinitializeTo(f, mods)
    PROVE  EchoRatesFit' /\ controllerRate' = captureRate' /\ api' = f
<1> DEFINE s == Active(mods)
           splitting == CaptureMultiBandActive(s) \/ RenderMultiBandActive(s)
           capture == SuitableProcessRate(f.capture, config'.maxRate, splitting)
           reverse == SuitableProcessRate(f.reverse, config'.maxRate, splitting)
           render == IF "echo_controller" \in s THEN capture ELSE reverse
<1>1. /\ states' = s /\ api' = f /\ captureRate' = capture
      /\ controllerRate' = captureRate'
  BY DEF ReinitializeTo, Reinitialize
<1>2. RenderMultiBandActive(s) => renderRate' = Max2(render, 160)
  BY DEF ReinitializeTo
<1>3. config'.maxRate \in {320, 480} /\ f.capture \in Nat
  BY ConfigAssumption DEF Streams
<1>4. capture \in {160, 320, 480}
  BY <1>3 DEF SuitableProcessRate
<1>5. "echo_controller" \in s => renderRate' = capture
  <2>1. "echo_controller" \in s => RenderMultiBandActive(s)
    BY DEF RenderMultiBandActive, MultiBandModules
  <2>2. Max2(capture, 160) = capture
    <3> HIDE DEF capture
    <3> QED BY <1>4 DEF Max2
  <2> QED
    BY <1>2, <2>1, <2>2
<1>6. EchoRatesFit'
  <2> HIDE DEF capture, s
  <2> QED BY <1>1, <1>4, <1>5 DEF EchoRatesFit
<1> QED
  BY <1>1, <1>6

LEMMA CaptureEchoInv ==
    ASSUME AllInv, EchoInv, 0 \notin CaptureFormats, Capture PROVE EchoInv'
<1> USE DistinctThreads DEF EchoInv, AllInv, LockInv
<1>1. NoneRefused'
  <2> USE DEF NoneRefused, Refused
  <2>1. CASE CaptureCheck
    BY <2>1 DEF CaptureCheck, SetupOK, Streams
  <2>2. CASE CaptureReinitialize
    BY <2>2, ReinitializeFits DEF CaptureReinitialize, SetupOK, LocalsOK, locals
  <2>3. CASE Capture /\ ~ CaptureCheck /\ ~ CaptureReinitialize
    BY <2>3 DEF Capture, CaptureCall, CaptureTakesRender, CaptureTakesCapture,
       CaptureProcess, Drain, DrainOne, DrainDone, setup, locals
  <2> QED
    BY <2>1, <2>2, <2>3
<1>2. CASE CaptureCheck
  <2>1. UNCHANGED <<renderRate, captureRate, controllerRate>>
    BY <1>2 DEF CaptureCheck
  <2>2. CASE NeedsReinit
    <3>1. Reinitializing'
      BY <1>2, <2>2 DEF CaptureCheck, Goto, PcOK, Reinitializing
    <3> QED
      BY <1>1, <2>1, <3>1
  <2>3. CASE ~ NeedsReinit
    <3>1. states' = states /\ ~ Reinitializing
      BY <1>2, <2>3 DEF CaptureCheck, NeedsReinit, Reinitializing
    <3> QED
      BY <1>1, <2>1, <3>1 DEF EchoRatesFit
  <2> QED
    BY <2>2, <2>3
<1>3. CASE CaptureReinitialize
  BY <1>1, <1>3, ReinitializeFitsEcho
  DEF CaptureReinitialize, NoneRefused, SetupOK, LocalsOK
<1>4. ASSUME UNCHANGED setup, Reinitializing => Reinitializing' PROVE EchoInv'
  BY <1>1, <1>4 DEF EchoRatesFit, setup
<1>5. ASSUME NEW f \in CaptureFormats, CaptureCall(f) PROVE EchoInv'
  BY <1>4, <1>5 DEF CaptureCall, Reinitializing
<1>6. CASE CaptureTakesRender
  BY <1>4, <1>6 DEF CaptureTakesRender, Goto, PcOK, Reinitializing
<1>7. CASE CaptureTakesCapture \/ CaptureProcess
  BY <1>4, <1>7 DEF CaptureTakesCapture, CaptureProcess, Reinitializing
<1>8. CASE Drain("capture")
  BY <1>4, <1>8 DEF Drain, DrainOne, DrainDone, DrainStage, Queues, Reinitializing
<1> QED
  BY <1>2, <1>3, <1>5, <1>6, <1>7, <1>8 DEF Capture

LEMMA RenderEchoInv ==
    ASSUME AllInv, EchoInv, 0 \notin RenderFormats, Render PROVE EchoInv'
<1> USE DistinctThreads DEF EchoInv, AllInv, LockInv
<1>1. pc'["capture"] = pc["capture"] /\ UNCHANGED <<captureCall, copy>>
  BY DEF Render, RenderCall, RenderReinitialize, RenderInsert, RenderEmpty,
     RenderRetry, RenderBand, RenderAnalyze, PcOK, Drain, DrainOne, DrainDone,
     locals, Goto
<1>2. CASE RenderReinitialize
  <2> DEFINE f == [api EXCEPT !.reverse = renderCall]
  <2>1. f \in Streams /\ ~ Refused(f)
    BY DEF SetupOK, LocalsOK, Streams, NoneRefused, Refused
  <2>2. EchoRatesFit' /\ controllerRate' = captureRate' /\ api' = f
    BY <1>2, <2>1, ReinitializeFitsEcho DEF RenderReinitialize, SetupOK
  <2>3. UNCHANGED locals
    BY <1>2 DEF RenderReinitialize
  <2> QED
    BY <2>1, <2>2, <2>3 DEF locals, NoneRefused, Refused
<1>3. ASSUME UNCHANGED setup, renderCall' # 0 PROVE EchoInv'
  BY <1>1, <1>3 DEF Reinitializing, EchoRatesFit, setup, NoneRefused, Refused
<1>4. ASSUME NEW f \in RenderFormats, RenderCall(f) PROVE EchoInv'
  BY <1>3, <1>4 DEF RenderCall
<1>5. CASE ~ RenderReinitialize /\ ~ \E f \in RenderFormats : RenderCall(f)
  <2>1. UNCHANGED <<setup, renderCall>>
    BY <1>5 DEF Render, RenderInsert, RenderEmpty, RenderRetry, RenderBand,
       RenderAnalyze, Drain, DrainOne, DrainDone, locals
  <2> QED
    BY <1>3, <2>1 DEF NoneRefused
<1> QED
  BY <1>2, <1>4, <1>5

LEMMA OtherEchoInv ==
    ASSUME AllInv, EchoInv, 0 \notin CaptureFormats \cup RenderFormats,
           "Initialize" \notin ApiCalls, NEW t \in Api, Other(t)
    PROVE  EchoInv'
<1> USE DistinctThreads DEF EchoInv, AllInv, LockInv
<1>1. pc'["capture"] = pc["capture"] /\ UNCHANGED <<captureCall, copy, renderCall>>
  BY DEF Other, ApiCall, ApiTakesRender, ApiBody, PcOK, locals, Goto
<1>2. ASSUME UNCHANGED <<api, states, renderRate, captureRate>>,
             controllerRate' \in {captureRate, controllerRate}
      PROVE  EchoInv'
  BY <1>1, <1>2 DEF Reinitializing, EchoRatesFit, NoneRefused, Refused
<1>3. CASE ApiCall(t) \/ ApiTakesRender(t)
  BY <1>2, <1>3 DEF ApiCall, ApiTakesRender, setup
<1>4. ASSUME NEW f \in Streams, ~ Refused(f), NEW mods, config' \in Configs,
             ReinitializeTo(f, mods)
      PROVE  EchoInv'
  BY <1>1, <1>4, ReinitializeFitsEcho DEF NoneRefused, Refused
<1>5. ASSUME NEW c \in Configs, Apply(c) PROVE EchoInv'
  <2>1. CASE c.maxRate # config.maxRate
    <3>1. \E mods : ReinitializeTo(api, mods)
      BY <1>5, <2>1 DEF Apply
    <3>2. config' \in Configs
      BY <1>5 DEF Apply
    <3> QED
      BY <1>4, <3>1, <3>2 DEF SetupOK, NoneRefused
  <2>2. CASE c.maxRate = config.maxRate
    BY <1>2, <1>5, <2>2 DEF Apply
  <2> QED
    BY <2>1, <2>2
<1>6. ASSUME NEW f \in Formats, config' = config, ReinitializeTo(f, submodules)
      PROVE  EchoInv'
  <2>1. f \in Streams /\ ~ Refused(f)
    BY FormatAssumption DEF Formats, Streams, Refused
  <2> QED
    BY <1>4, <1>6, <2>1 DEF SetupOK
<1> QED
  BY <1>3, <1>5, <1>6 DEF Other, ApiBody

\* The render writer of the echo controller gets the bands it was made for
\* except between the ApplyConfig that creates the controller and the end of
\* the reinitialization the next ProcessStream makes of it: whoever waits for
\* that call to return is safe.
SettledEchoInput == EchoSettled => EchoControllerInput
THEOREM EchoInputFits ==
    ASSUME 0 \notin CaptureFormats \cup RenderFormats, "Initialize" \notin ApiCalls
    PROVE  Spec => []SettledEchoInput
<1>1. Init => EchoInv
  BY DEF Init, EchoInv, NoneRefused, Refused, EchoRatesFit, Threads
<1>2. AllInv /\ EchoInv /\ [Next]_vars => EchoInv'
  <2>1. UNCHANGED vars /\ EchoInv => EchoInv'
    BY DEF vars, setup, locals, EchoInv, NoneRefused, Refused, EchoRatesFit,
       Reinitializing
  <2> QED
    BY <2>1, CaptureEchoInv, RenderEchoInv, OtherEchoInv DEF Next
<1>3. EchoInv => SettledEchoInput
  BY DEF EchoInv, SettledEchoInput, EchoSettled, EchoRatesFit,
     EchoControllerInput, SamplesPerBand
<1> QED
  BY <1>1, <1>2, <1>3, AlwaysAllInv, PTL DEF Spec
=============================================================================
