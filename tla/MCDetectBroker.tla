--------------------------- MODULE MCDetectBroker ---------------------------
(***************************************************************************)
(* Instances of DetectBroker for TLC: a detector has no topics.            *)
(***************************************************************************)
EXTENDS DetectBroker

DetectStimuli == {"stop", "restart"}
=============================================================================
