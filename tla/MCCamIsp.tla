------------------------------ MODULE MCCamIsp ------------------------------
(***************************************************************************)
(* Instances of CamIsp.                                                    *)
(***************************************************************************)
EXTENDS CamIsp, TLC

Symm == Permutations(Ports)
=============================================================================
