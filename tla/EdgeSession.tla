----------------------------- MODULE EdgeSession -----------------------------
(***************************************************************************)
(* What an edge node promises to every subscriber of its group, one        *)
(* connection after the other: the node's birth comes before any birth of  *)
(* a device, there is one birth and at most one death of the node, no      *)
(* device is born after the node's death, and a connection that ends takes *)
(* all of it away.  SparkplugNode implements this module.                  *)
(***************************************************************************)
CONSTANTS Devices

VARIABLES
  phase,    \* of the session: no connection, connected, born or dead
  device    \* the last message of each device in this session

vars == <<phase, device>>

Unseen == [d \in Devices |-> "none"]

TypeOK ==
  /\ phase \in {"closed", "open", "born", "dead"}
  /\ device \in [Devices -> {"none", "DBIRTH", "DDEATH"}]

Init ==
  /\ phase = "closed"
  /\ device = Unseen

Open ==
  /\ phase = "closed"
  /\ phase' = "open"
  /\ UNCHANGED device

NodeBirth ==
  /\ phase = "open"
  /\ phase' = "born"
  /\ UNCHANGED device

DeviceBirth(d) ==
  /\ phase = "born"
  /\ device' = [device EXCEPT ![d] = "DBIRTH"]
  /\ UNCHANGED phase

\* A device's death may come late: the application publishes it as well.
DeviceDeath(d) ==
  /\ phase # "closed"
  /\ device' = [device EXCEPT ![d] = "DDEATH"]
  /\ UNCHANGED phase

NodeDeath ==
  /\ phase = "born"
  /\ phase' = "dead"
  /\ UNCHANGED device

Close ==
  /\ phase # "closed"
  /\ phase' = "closed"
  /\ device' = Unseen

Next ==
  \/ Open \/ NodeBirth \/ NodeDeath \/ Close
  \/ \E d \in Devices : DeviceBirth(d) \/ DeviceDeath(d)

Spec == Init /\ [][Next]_vars
=============================================================================
