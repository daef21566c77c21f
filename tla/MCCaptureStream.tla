-------------------------- MODULE MCCaptureStream --------------------------
(***************************************************************************)
(* Settings for model-checking CaptureStream.                              *)
(***************************************************************************)
EXTENDS CaptureStream

Off == [aec |-> "off", export |-> FALSE, agc |-> "off", preamp |-> 0, agc2 |-> 0]

\* Every kind of echo canceller with every kind of gain control.
ModuleConfigs ==
    {[Off EXCEPT !.aec = e, !.agc = g] :
        e \in {"off", "full", "mobile"}, g \in {"off", "digital", "analog", "managed"}}

CaptureConfigs == ModuleConfigs \cup {[Off EXCEPT !.aec = "full", !.preamp = 2, !.agc2 = 2]}

\* The pre-amplifier and the second gain controller beside the echo controller.
GainConfigs ==
    {[Off EXCEPT !.aec = e, !.preamp = p, !.agc2 = g] :
        e \in {"off", "full"}, p \in Gains \cup {0}, g \in Gains \cup {0}}
=============================================================================
