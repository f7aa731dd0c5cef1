-------------------------- MODULE MCSparkplugInbound --------------------------
(***************************************************************************)
(* Instances of SparkplugInbound for TLC, and what Topic makes of the      *)
(* names in src/test/test_topic.cpp.                                       *)
(***************************************************************************)
EXTENDS SparkplugInbound

\* Two metrics, the first of which changes its value.
MCValues == {<<1, 0>>, <<1, 1>>, <<2, 0>>}

ASSUME NamesOfTestTopic ==
  /\ Topic(NewTopic, <<"spBv1.0", "GroupId", "Message", "NodeId", "DeviceId">>)
       = [space |-> "spBv1.0", group |-> "GroupId", type |-> "Message",
          node |-> "NodeId", device |-> "DeviceId"]
  /\ Topic(NewTopic, <<"spBv1.0", "STATE", "HostId">>)
       = [NewTopic EXCEPT !.type = "STATE", !.node = "HostId"]
  /\ Topic(NewTopic, <<"spBv1.0", "#">>) = [NewTopic EXCEPT !.group = "#"]
=============================================================================
