----------------------------- MODULE MCCamLink ------------------------------
(* Small links for TLC.                                                     *)
EXTENDS CamLink

Plain == [delay |-> 0, skip_next |-> FALSE]
FlashOn == [delay |-> 1, skip_next |-> FALSE]
FlashOff == [delay |-> 1, skip_next |-> TRUE]

\* A sensor and an image front end, with the delays their drivers report
MCDevs == <<"sensor", "isp">>
MCPD == [d \in {"sensor", "isp"} |-> IF d = "sensor" THEN 2 ELSE 1]
MCAsks == [d \in {"sensor", "isp"} |-> {Plain}]

\* The same with a flash
FlashDevs == <<"sensor", "isp", "flash">>
FlashPD == [d \in {"sensor", "isp", "flash"} |-> IF d = "sensor" THEN 2 ELSE 1]
FlashAsks == [d \in {"sensor", "isp", "flash"} |-> IF d = "flash" THEN {Plain, FlashOn, FlashOff} ELSE {Plain}]
=============================================================================
