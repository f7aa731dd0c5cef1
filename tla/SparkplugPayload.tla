---------------------------- MODULE SparkplugPayload ----------------------------
(***************************************************************************)
(* Topic names and payloads of Sparkplug messages, as operators:           *)
(* src/src/itopic.cpp, src/src/payload.cpp and src/src/payloadhelper.cpp.  *)
(*                                                                         *)
(* A topic name is the sequence of its levels.  A payload is a function    *)
(* from the names of its metrics, which are numbered in the order of the   *)
(* sorted metric list, and a protobuf message is the set of the metrics    *)
(* written into it.  Data types, timestamps, properties and metadata are   *)
(* left out.                                                               *)
(***************************************************************************)
EXTENDS Integers, Sequences, FiniteSets

CONSTANT Names   \* the names a metric may have

ASSUME NamesAssumption == IsFiniteSet(Names) /\ Names \subseteq Nat \ {0}

NoName  == 0     \* a protobuf metric without name
NoValue == <<>>  \* the empty value_ of a metric nobody has written

-----------------------------------------------------------------------------
(* Topic names: class ITopic. *)

\* The temporary topic of SparkplugNode::Message.
NewTopic == [space |-> "spBv1.0", group |-> "", type |-> "", node |-> "",
             device |-> ""]

\* AssignLevelName only fills a part that is empty; a name without a slash
\* has no level at all.
AssignLevelName(part, levels, i) ==
  IF part = "" /\ i <= Len(levels) /\ Len(levels) > 1 THEN levels[i] ELSE part

\* ITopic::Topic: the parts of a topic that is given a name.
Topic(topic, levels) ==
  LET space == AssignLevelName(topic.space, levels, 1)
      group == AssignLevelName(topic.group, levels, 2)
      type  == AssignLevelName(topic.type, levels, 3)
      host  == space = "spBv1.0" /\ group = "STATE"
  IN [space  |-> space,
      group  |-> IF host THEN "" ELSE group,
      type   |-> IF host THEN group ELSE type,
      node   |-> IF host THEN type ELSE AssignLevelName(topic.node, levels, 4),
      device |-> AssignLevelName(topic.device, levels, 5)]

-----------------------------------------------------------------------------
(* Metrics: class Metric, and the list of class Payload. *)

NewMetric == [alias |-> 0, value |-> NoValue, valid |-> FALSE, updated |-> FALSE]

\* Payload::AddMetric: an existing metric is kept.
Insert(payload, m, metric) ==
  [k \in DOMAIN payload \union {m} |->
     IF k \in DOMAIN payload THEN payload[k] ELSE metric]

\* Mutant: a value that did not change is not looked at.
SetNewValue(metric, value) ==
  IF metric.value = value THEN metric
  ELSE [metric EXCEPT !.value = value, !.valid = TRUE, !.updated = TRUE]

\* Metric::Value: the value is valid, and updated if it changed.
SetValue(metric, value) ==
  [metric EXCEPT !.value = value, !.valid = TRUE,
                 !.updated = @ \/ metric.value # value]

\* Mutant: by alias first.
GetMetricByAlias(payload, entry) ==
  LET found == {m \in DOMAIN payload : payload[m].alias = entry.alias}
  IN IF found = {} THEN {entry.name} \intersect DOMAIN payload
     ELSE {m \in found : \A k \in found : m <= k}

\* The metrics of a protobuf metric, none or one: by name if it has one, else
\* the first of the list with its alias.
GetMetric(payload, entry) ==
  IF entry.name # NoName
  THEN {entry.name} \intersect DOMAIN payload
  ELSE LET found == {m \in DOMAIN payload : payload[m].alias = entry.alias}
       IN {m \in found : \A k \in found : m <= k}

\* Mutant: metrics with news are spared.
SetOldMetricsInvalid(payload) ==
  [m \in DOMAIN payload |-> [payload[m] EXCEPT !.valid = @ /\ payload[m].updated]]

\* ITopic::SetAllMetricsInvalid
SetAllMetricsInvalid(payload) ==
  [m \in DOMAIN payload |-> [payload[m] EXCEPT !.valid = FALSE]]

\* The numbers of the first list of AssignAliasNumbers, that of the NBIRTH.
Rank(names, m) == Cardinality({k \in names : k <= m})

\* Mutant: the number is not counted up.
AssignSameNumber(payload) ==
  [m \in DOMAIN payload |-> [payload[m] EXCEPT !.alias = 1]]

AssignAliasNumbers(payload) ==
  [m \in DOMAIN payload |->
     [payload[m] EXCEPT !.alias = Rank(DOMAIN payload, m)]]

-----------------------------------------------------------------------------
(* The protobuf codec: class PayloadHelper. *)

WriteMetric(payload, m, writeAll) ==
  [name  |-> IF writeAll \/ payload[m].alias = 0 THEN m ELSE NoName,
   alias |-> payload[m].alias,
   value |-> payload[m].value]

\* The metrics WriteProtobuf includes.
Included(payload, writeAll) ==
  {m \in DOMAIN payload : writeAll \/ payload[m].updated}

WriteProtobuf(payload, writeAll) ==
  {WriteMetric(payload, m, writeAll) : m \in Included(payload, writeAll)}

\* ... and what it leaves of the payload it wrote.
ResetUpdated(payload, writeAll) ==
  [m \in DOMAIN payload |->
     [payload[m] EXCEPT !.updated = @ /\ m \notin Included(payload, writeAll)]]

\* ParseMetric: the alias of a metric is set once, by a message that may
\* create metrics.
ParseMetric(metric, entry, create) ==
  SetValue([metric EXCEPT !.alias = IF @ = 0 /\ create THEN entry.alias ELSE @],
           entry.value)

\* One metric of the loop of ParseProtobuf: found, created or skipped.
ParseEntry(payload, entry, create) ==
  LET found == GetMetric(payload, entry)
      made  == IF found = {} /\ entry.name # NoName /\ create
               THEN {entry.name} ELSE {}
  IN [m \in DOMAIN payload \union made |->
        IF m \in found THEN ParseMetric(payload[m], entry, create)
        ELSE IF m \in made THEN ParseMetric(NewMetric, entry, TRUE)
        ELSE payload[m]]
=============================================================================
