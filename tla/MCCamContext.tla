---------------------------- MODULE MCCamContext ----------------------------
(* Instances of CamContext                                                  *)
EXTENDS CamContext, TLC

Symm == Permutations(Reqs) \cup Permutations(Fences)
=============================================================================
