---------------------------- MODULE MCEchoRemover ----------------------------
(***************************************************************************)
(* Filters of one partition that grow to two.                              *)
(***************************************************************************)
EXTENDS EchoRemover

OnePartition == [f \in Filters |-> 1]
TwoPartitions == [f \in Filters |-> 2]
=============================================================================
