--------------------------- MODULE MCMasterCollect ---------------------------
(***************************************************************************)
(* Instances of MasterCollect for TLC.                                     *)
(***************************************************************************)
EXTENDS MasterCollect, MCMasterRouting

\* Where nothing is lost, the instance is one in which a flood must reach everybody.
ASSUME InstanceIsReliable == Lossy \/ Reliable
=============================================================================
