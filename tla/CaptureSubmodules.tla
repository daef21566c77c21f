-------------------------- MODULE CaptureSubmodules --------------------------
(***************************************************************************)
(* The small components of the capture stream: the mobile echo canceller's *)
(* wrapper, its framing, its channel estimation and the ring buffer under  *)
(* them, and the analog gain controller.  Each drives the next one only    *)
(* one way: the wrapper its core frame by frame, the framing the channel   *)
(* estimation block by block; none looks at the state of the one it        *)
(* drives.  So each is explored on its own, driven in every order, and a   *)
(* behaviour is one of one part.                                           *)
(***************************************************************************)
EXTENDS EchoControlMobile, AecmFrames, AecmChannel, RingBufferMemory, AgcManager

VARIABLE part
vars == <<mvars, fvars, cvars, rvars, avars, part>>

Init == /\ part \in {"wrapper", "framing", "channel", "ring", "gain"}
        /\ MobileInit /\ FramesInit /\ ChannelInit /\ RingInit /\ AgcInit

Wrapper == part = "wrapper" /\ UNCHANGED <<fvars, cvars, rvars, avars, part>>
Framing == part = "framing" /\ UNCHANGED <<mvars, cvars, rvars, avars, part>>
Channel == part = "channel" /\ UNCHANGED <<mvars, fvars, rvars, avars, part>>
Ring    == part = "ring"    /\ UNCHANGED <<mvars, fvars, cvars, avars, part>>
Gain    == part = "gain"    /\ UNCHANGED <<mvars, fvars, cvars, rvars, part>>

Next == \/ Wrapper /\ MobileNext
        \/ Framing /\ FramesNext
        \/ Channel /\ ProcessBlock
        \/ Ring /\ RingNext
        \/ Gain /\ AgcNext

Spec == Init /\ [][Next]_vars

\* Render and capture calls keep coming.
Fairness == /\ WF_vars(Wrapper /\ BufferFarend)
            /\ WF_vars(Wrapper /\ Process)
            /\ WF_vars(Channel /\ ProcessBlock)
            /\ WF_vars(Gain /\ CaptureFrame)

FairSpec == Spec /\ Fairness

\* Values of the instance: a gain of 2 dB a level, errors of either sign.
Gains == [l \in Levels |-> 2 * l]
Errors == {-2, 0, 2, 5}

(* Start up ends, however the reported delays jump, once the canceller is  *)
(* no longer reset.                                                        *)
StartupEnds == (part = "wrapper" /\ <>[][~MobileReset]_mvars) => <>[]~ECstartup

(* Once the loudness asks for the same digital gain for good, the gain     *)
(* gets there and stays, instead of stopping short of it or circling it.   *)
CompressionSettles ==
    (/\ part = "gain"
     /\ <>[]~capture_muted
     /\ <>[][~InitializeManager /\ ~CreateManager /\ agc'.target = agc.target]_avars)
        => <>[](agc.compression = agc.target)
=============================================================================
