---------------------------- MODULE CaptureBlocks ----------------------------
(***************************************************************************)
(* What echo canceller 3 does for every block of the capture signal once   *)
(* it is formed: the delay control finds the delay, the echo remover works *)
(* with the render audio so aligned.  All that goes from the one to the    *)
(* other is that the delay changed, and the echo remover is explored with  *)
(* such a change in any block; a behaviour is one of one part.             *)
(***************************************************************************)
EXTENDS DelayControl, MCEchoRemover

VARIABLE part
allvars == <<vars, removervars, part>>

BlocksInit == /\ part \in {"delay", "remover"}
              /\ Init /\ RemoverInit
              /\ part = "delay" => frame.long  \* a single value of what stays

Delay   == part = "delay" /\ UNCHANGED <<removervars, part>>
Remover == part = "remover" /\ UNCHANGED <<vars, part>>

BlocksNext == \/ Delay /\ Next
              \/ Remover /\ RemoverNext

\* Capture blocks keep coming.
BlocksSpec == BlocksInit /\ [][BlocksNext]_allvars /\ WF_allvars(Delay /\ CaptureBlock)
=============================================================================
