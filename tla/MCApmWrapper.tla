---------------------------- MODULE MCApmWrapper ----------------------------
(***************************************************************************)
(* Settings for model-checking ApmWrapper.                                 *)
(***************************************************************************)
EXTENDS ApmWrapper, TLC

\* No thread of the application differs from another.
Interchangeable == Permutations(Apps)

\* The echo controller with and without its linear output.
ExportSettings == {[Default EXCEPT !.c.aec = "full", !.c.export = x] : x \in BOOLEAN}

\* The application changes the settings only through the C interface.
InitialConfigs == {Default.c}
=============================================================================
