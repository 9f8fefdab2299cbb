----------------------------- MODULE MCCamWorkq -----------------------------
(* The instance of CamWorkq in MCCamWorkq.cfg                               *)
EXTENDS CamWorkq
=============================================================================
