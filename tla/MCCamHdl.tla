------------------------------ MODULE MCCamHdl ------------------------------
(* Instances of CamHdl                                                      *)
EXTENDS CamHdl, TLC

Symm == Permutations(Tags) \cup Permutations(Owners)
=============================================================================
