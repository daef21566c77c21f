-------------------------- MODULE IndependentParts --------------------------
(***************************************************************************)
(* Parts of the library that share no state: the capture stream, called    *)
(* directly and through the C interface; the queue of runtime settings;    *)
(* the reporting of statistics; the arithmetic coder.  A behaviour is one  *)
(* of one part.                                                            *)
(***************************************************************************)
EXTENDS MCCaptureStream, MCApmWrapper, RuntimeSettings, StatsReporter,
        MCEntropyCoder

VARIABLE part

stream == <<vars, hidden, call, started>>
allvars == <<stream, settingsvars, statsvars, codervars, part>>

PartsInit == /\ part \in {"capture", "wrapper", "settings", "statistics", "coder"}
             /\ WrapperInit /\ SettingsInit /\ StatsInit
             /\ CoderInit /\ (part # "coder" => half = "only")

Capture    == part = "capture"  /\ UNCHANGED <<hidden, call, started,
                                               settingsvars, statsvars, codervars, part>>
Wrapper    == part = "wrapper"  /\ UNCHANGED <<settingsvars, statsvars, codervars, part>>
Queueing   == part = "settings" /\ UNCHANGED <<stream, statsvars, codervars, part>>
Statistics == part = "statistics" /\ UNCHANGED <<stream, settingsvars, codervars, part>>
Coding     == part = "coder"    /\ UNCHANGED <<stream, settingsvars, statsvars, part>>

PartsNext == \/ Capture /\ Next
             \/ Wrapper /\ WrapperNext
             \/ Queueing /\ SettingsNext
             \/ Statistics /\ StatsNext
             \/ Coding /\ CoderNext

PartsSpec == PartsInit /\ [][PartsNext]_allvars
=============================================================================
