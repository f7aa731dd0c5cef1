----------------------------- MODULE MetricUpdates -----------------------------
(***************************************************************************)
(* What the metrics of a client promise to the application that writes     *)
(* them: a value is handed over while it is the current one, so that an    *)
(* older value never follows a newer one, and no change is lost: a metric  *)
(* is pending until its value, or a later one, has been handed over.  A    *)
(* value may be handed over twice.  MqttClient implements this module.     *)
(***************************************************************************)
CONSTANTS
  Metrics,
  Values,
  NoValue    \* nothing written, nothing handed over

VARIABLES
  value,     \* what the application wrote last
  pending,   \* there is something to hand over
  taken      \* what was handed over last

vars == <<value, pending, taken>>

Init ==
  /\ value = [m \in Metrics |-> NoValue]
  /\ pending = [m \in Metrics |-> FALSE]
  /\ taken = [m \in Metrics |-> NoValue]

Write(m, v) ==
  /\ value' = [value EXCEPT ![m] = v]
  /\ pending' = [pending EXCEPT ![m] = @ \/ v # value[m]]
  /\ UNCHANGED taken

Take(m) ==
  /\ pending[m]
  /\ taken' = [taken EXCEPT ![m] = value[m]]
  /\ pending' = pending \/ pending' = [pending EXCEPT ![m] = FALSE]
  /\ UNCHANGED value

Next == \E m \in Metrics : Take(m) \/ \E v \in Values : Write(m, v)

Spec == Init /\ [][Next]_vars

=============================================================================
