--------------------------- MODULE MCSparkplugNode ---------------------------
(***************************************************************************)
(* Instances of SparkplugNode for TLC: which stimuli a run lets happen.    *)
(***************************************************************************)
EXTENDS SparkplugNode

NoStimuli        == {}
LifecycleStimuli == {"stop", "inService", "deviceInService", "deviceStart",
                     "deviceStop"}
HostStimuli      == {"waitOnHostOnline", "hostState"}
OnlyStop         == {"stop"}
=============================================================================
