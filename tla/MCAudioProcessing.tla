------------------------- MODULE MCAudioProcessing -------------------------
(***************************************************************************)
(* AudioProcessing with a handful of settings: everything off, the full    *)
(* echo canceller (also with the lower maximum processing rate), the       *)
(* mobile one with the digital gain control, the digital gain control      *)
(* alone, and the analog gain control with noise suppression.              *)
(***************************************************************************)
EXTENDS AudioProcessing

Off    == [aec |-> "off", agc |-> "off", ns |-> FALSE, maxRate |-> 480]
Full   == [Off EXCEPT !.aec = "full"]
Mobile == [Off EXCEPT !.aec = "mobile", !.agc = "digital"]
Analog == [Off EXCEPT !.agc = "analog", !.ns = TRUE]
Low    == [Full EXCEPT !.maxRate = 320]
Gain   == [Off EXCEPT !.agc = "digital"]

CoreConfigs == {Off, Low, Mobile, Analog}
EchoConfigs == {Off, Full}
QuietConfigs == {Off, Full, Gain}
MobileConfigs == {Off, Mobile}
GainConfigs == {Off, Gain}
=============================================================================
