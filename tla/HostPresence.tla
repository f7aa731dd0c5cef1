----------------------------- MODULE HostPresence -----------------------------
(***************************************************************************)
(* What a SCADA host promises to everyone who reads its retained STATE,    *)
(* one connection after the other: it announces what the application has   *)
(* decided then, nothing without a connection, and nothing once it is      *)
(* leaving, but for the offline of an online host that goes before; what   *)
(* is retained was announced, in order, and a connection that breaks turns *)
(* it to offline.  SparkplugHost implements this module.                   *)
(***************************************************************************)

VARIABLES
  service,      \* what the application decided: TRUE is in service
  connection,   \* "closed", "open", or "leaving": the host disconnects
  said,         \* the last STATE announced in this connection
  retained      \* the STATE a subscriber gets

vars == <<service, connection, said, retained>>

StateMessage == {"none", "offline", "online"}

TypeOK ==
  /\ service \in BOOLEAN
  /\ connection \in {"closed", "open", "leaving"}
  /\ said \in StateMessage
  /\ retained \in StateMessage

Init ==
  /\ service \in BOOLEAN
  /\ connection = "closed"
  /\ said = "none"
  /\ retained = "none"

Decide ==
  /\ service' = ~service
  /\ UNCHANGED <<connection, said, retained>>

Open ==
  /\ connection = "closed"
  /\ connection' = "open"
  /\ UNCHANGED <<service, said, retained>>

Announce ==
  /\ connection = "open"
  /\ said' = IF service THEN "online" ELSE "offline"
  /\ UNCHANGED <<service, connection, retained>>

\* The disconnect, with a last word if the host is online.
Leave ==
  /\ connection = "open"
  /\ connection' = "leaving"
  /\ said' = said \/ (said = "online" /\ said' = "offline")
  /\ UNCHANGED <<service, retained>>

Arrive ==
  /\ connection # "closed" /\ said # "none"
  /\ retained' = said
  /\ UNCHANGED <<service, connection, said>>

\* What is under way arrives, or the broker misses the host first.
Close ==
  /\ connection # "closed"
  /\ connection' = "closed"
  /\ said' = "none"
  /\ retained' \in {IF said = "none" THEN retained ELSE said, "offline"}
  /\ UNCHANGED service

Break ==
  /\ connection = "open"
  /\ connection' = "closed"
  /\ said' = "none"
  /\ retained' = "offline"
  /\ UNCHANGED service

Next == Decide \/ Open \/ Announce \/ Leave \/ Arrive \/ Close \/ Break

Spec == Init /\ [][Next]_vars
=============================================================================
