---------------------------- MODULE SparkplugInbound ----------------------------
(***************************************************************************)
(* The Sparkplug messages a host or a node receives: the handlers of       *)
(* SparkplugNode::Message, src/src/sparkplugnode.cpp, and the nodes that   *)
(* send them.                                                              *)
(*                                                                         *)
(* The receiver is a host (own = "") or a node, whose own messages come    *)
(* back to it.  It keeps the birth topics of the remote nodes and devices  *)
(* it has heard of, and brings their metrics up to date.  Handlers run one *)
(* at a time on Paho's thread; a payload is parsed metric by metric, and   *)
(* may be read, and written, in between.                                   *)
(*                                                                         *)
(* The other side is external: a node that numbers its metrics when it is  *)
(* started, gives birth in every connection, sends the metrics it changed, *)
(* and dies, in order or by its will.  What it encodes is what WriteProto- *)
(* buf encodes.  Its messages keep their order; a connection that breaks,  *)
(* at either end, loses what is under way.                                 *)
(*                                                                         *)
(* STATE messages are in SparkplugNode.                                    *)
(***************************************************************************)
EXTENDS SparkplugPayload

CONSTANTS
  Nodes,        \* the names of the nodes of one group
  Devices,      \* the names of the devices of a node
  Values,       \* what is written to the metrics: pairs of a name and a value
  MaxWire,      \* bound: messages of a node under way
  MaxAhead,     \* bound: those under way when a device of the node sends one
  Conforming    \* births carry all metrics with their names, as documented;
                \* otherwise the senders are nodes of this library

ASSUME InboundAssumption ==
  /\ "" \notin Nodes \union Devices
  /\ Values \subseteq Names \X Nat
  /\ MaxWire \in Nat /\ MaxAhead \in Nat
  /\ Conforming \in BOOLEAN

VARIABLES
  own,       \* the receiver's own name, "" for a host
  births,    \* the birth payloads of node_list_ and of the device lists in it
  parsing,   \* the payload Paho's thread parses
  metrics,   \* the NBIRTH payload of each sender; the receiver's own one is
             \* that of the sender with its name
  phase,     \* of each sender: "new", "down" (started, not connected), "up"
  wire,      \* the messages of each sender under way to the receiver
  missed,    \* history: nodes a message of which was lost after their birth
  moved      \* history: nodes a metric of which was given another number

receiverVars == <<own, births, parsing>>
senderVars   == <<metrics, phase, wire, missed, moved>>
vars == <<receiverVars, senderVars>>

-----------------------------------------------------------------------------
(* What the variables hold. *)

\* A value remembers the metric it was written to: <<node, name, value>>.
Value  == {w \in Nodes \X Names \X Nat : <<w[2], w[3]>> \in Values}
Metric == [alias : Nat, value : Value, valid : BOOLEAN, updated : BOOLEAN]
Entry  == [name : Names \union {NoName}, alias : Nat, value : Value]

IsPayload(p) == DOMAIN p \subseteq Names /\ p \in [DOMAIN p -> Metric]

NodeMessageType   == {"NBIRTH", "NDATA", "NDEATH", "NCMD"}
DeviceMessageType == {"DBIRTH", "DDATA", "DDEATH", "DCMD"}

\* The names of namespaces, groups and message types, and of who sends them.
Levels == {"spBv1.0", "spvBv1.0", "Group", ""} \union NodeMessageType
            \union DeviceMessageType \union Nodes \union Devices

\* A birth topic: that of a node has no device name.
Topics == Nodes \X (Devices \union {""})

Idle == [topic |-> <<>>, create |-> FALSE, entries |-> {}, from |-> <<>>]

TypeOK ==
  /\ own \in Nodes \union {""}
  /\ DOMAIN births \subseteq Topics
  /\ \A t \in DOMAIN births : IsPayload(births[t])
  /\ parsing \in [topic : Topics \union {<<>>}, create : BOOLEAN,
                  entries : SUBSET Entry, from : Seq(Levels)]
  /\ parsing = Idle \/ parsing.topic \in DOMAIN births \union {<<own, "">>}
  /\ DOMAIN metrics = Nodes /\ \A n \in Nodes : IsPayload(metrics[n])
  /\ phase \in [Nodes -> {"new", "down", "up"}]
  /\ wire \in [Nodes -> Seq([levels : Seq(Levels), entries : SUBSET Entry])]
  /\ missed \subseteq Nodes
  /\ moved \subseteq Nodes

Init ==
  /\ own \in Nodes \union {""}
  /\ births = <<>>
  /\ parsing = Idle
  /\ metrics = [n \in Nodes |-> <<>>]
  /\ phase = [n \in Nodes |-> "new"]
  /\ wire = [n \in Nodes |-> <<>>]
  /\ missed = {}
  /\ moved = {}

-----------------------------------------------------------------------------
(* Sending. *)

\* A host subscribes to its namespace, a node to its own commands; the
\* application may add more, but "should not subscribe other node NCMD".
Subscribed(levels) ==
  /\ levels[1] = "spBv1.0"
  /\ own # "" => levels[3] # "NCMD" \/ levels[4] = own

\* A sender that encodes and names its messages as documented.
Documented(n) == Conforming /\ n # own

\* The names of the messages.  A node of this library says its births in the
\* right namespace, those of its devices in another one, and does not name
\* itself in its death.  Commands come from elsewhere.
DeviceSpace(n, type) ==
  IF Documented(n) \/ type = "DCMD" THEN "spBv1.0" ELSE "spvBv1.0"

NameOf(n, type, d) ==
  CASE d # ""  -> <<DeviceSpace(n, type), "Group", type, n, d>>
    [] type = "NDEATH" /\ ~Documented(n) -> <<"spvBv1.0", "", type, "">>
    [] OTHER -> <<"spBv1.0", "Group", type, n>>

Message(n, type, d, entries) ==
  [levels |-> NameOf(n, type, d), entries |-> entries]

\* The metrics of a device: always the same, since no receiver takes them.
DeviceEntries(n) ==
  {[name |-> v[1], alias |-> 0, value |-> <<n, v[1], v[2]>>] : v \in Values}

\* The broker forwards what the receiver subscribed to.
Forwarded(queue, message) ==
  IF Subscribed(message.levels) THEN Append(queue, message) ELSE queue

Send(n, message) ==
  /\ Len(wire[n]) < MaxWire
  /\ wire' = [wire EXCEPT ![n] = Forwarded(@, message)]

\* The application adds a metric to its node and gives it a value.
AddMetric(n, v) ==
  /\ phase[n] # "up"
  /\ v[1] \notin DOMAIN metrics[n]
  /\ metrics' = [metrics EXCEPT ![n] =
                   Insert(@, v[1], SetValue(NewMetric, <<n, v[1], v[2]>>))]
  /\ UNCHANGED <<receiverVars, phase, wire, missed, moved>>

WriteMetricValue(n, v) ==
  /\ v[1] \in DOMAIN metrics[n]
  /\ metrics' = [metrics EXCEPT ![n][v[1]] = SetValue(@, <<n, v[1], v[2]>>)]
  /\ UNCHANGED <<receiverVars, phase, wire, missed, moved>>

\* Some metric of p has another number in q.
Renumbered(p, q) == \E m \in DOMAIN p : p[m].alias \notin {0, q[m].alias}

\* SparkplugNode::Start numbers the metrics, those it has numbered before and
\* those that were added since ...  A receiver that starts has no connection,
\* and nothing of the last one comes any more.
NodeStart(n) ==
  /\ phase[n] # "up"
  /\ n = own => parsing = Idle /\ \A k \in Nodes : wire[k] = <<>>
  /\ metrics' = [metrics EXCEPT ![n] = AssignAliasNumbers(@)]
  /\ phase' = [phase EXCEPT ![n] = "down"]
  /\ moved' = IF Renumbered(metrics[n], metrics'[n]) THEN moved \union {n} ELSE moved
  /\ UNCHANGED <<receiverVars, wire, missed>>

\* ... and every connection begins with the birth.
NodeBirth(n) ==
  /\ phase[n] = "down"
  /\ Send(n, Message(n, "NBIRTH", "", WriteProtobuf(metrics[n], Documented(n))))
  /\ metrics' = [metrics EXCEPT ![n] = ResetUpdated(@, Documented(n))]
  /\ phase' = [phase EXCEPT ![n] = "up"]
  /\ UNCHANGED <<receiverVars, missed, moved>>

\* The changed metrics of a node.  This library sends none yet.
NodeData(n) ==
  /\ phase[n] = "up" /\ Documented(n)
  /\ Included(metrics[n], FALSE) # {}
  /\ Send(n, Message(n, "NDATA", "", WriteProtobuf(metrics[n], FALSE)))
  /\ metrics' = [metrics EXCEPT ![n] = ResetUpdated(@, FALSE)]
  /\ UNCHANGED <<receiverVars, phase, missed, moved>>

NodeDeath(n) ==
  /\ phase[n] = "up"
  /\ Send(n, Message(n, "NDEATH", "", {}))
  /\ phase' = [phase EXCEPT ![n] = "down"]
  /\ UNCHANGED <<receiverVars, metrics, missed, moved>>

\* The node's connection breaks: its last messages are lost, and the broker
\* publishes its will.
ConnectionBreaks(n) ==
  /\ phase[n] = "up"
  /\ \E i \in 0..Len(wire[n]) :
       /\ i < MaxWire
       /\ wire' = [wire EXCEPT ![n] = Forwarded(SubSeq(@, 1, i),
                                                Message(n, "NDEATH", "", {}))]
  /\ phase' = [phase EXCEPT ![n] = "down"]
  /\ UNCHANGED <<receiverVars, metrics, missed, moved>>

\* A device of a node in session: what it writes are some metrics of its own.
DeviceMessage(n, d, type) ==
  /\ phase[n] = "up"
  /\ Len(wire[n]) <= MaxAhead
  /\ Send(n, Message(n, type, d, DeviceEntries(n)))
  /\ UNCHANGED <<receiverVars, metrics, phase, missed, moved>>

\* A host writes a metric of the node, by its alias if it has one.
NodeCommand(n, v) ==
  /\ v[1] \in DOMAIN metrics[n]
  /\ Send(n, Message(n, "NCMD", "",
            {[WriteMetric(metrics[n], v[1], FALSE) EXCEPT
                !.value = <<n, v[1], v[2]>>]}))
  /\ UNCHANGED <<receiverVars, metrics, phase, missed, moved>>

\* The receiver's connection breaks.
MessagesLost(n) ==
  /\ wire[n] # <<>>
  /\ wire' = [wire EXCEPT ![n] = <<>>]
  /\ missed' = missed \union {n}
  /\ UNCHANGED <<receiverVars, metrics, phase, moved>>

-----------------------------------------------------------------------------
(* Receiving: SparkplugNode::Message and the handlers. *)

\* Mutant: a started node does not mark its birth topic as published.
PublishNotOwn(t) == t[2] # ""

\* ITopic::Publish of a birth topic: SparkplugNode::Start sets it on its own,
\* and SparkplugDevice sets it on those of every device.
Publish(t) == t[1] = own \/ t[2] # ""

\* The birth topics there are, GetNode and GetDevice.
Known(t) == t \in DOMAIN births \/ (own # "" /\ t = <<own, "">>)

\* Mutant: nobody makes the birth topics.
NoneCreated(topics) == births

\* PubSubFactory and CreateDevice make the birth topics that are missing.
Created(topics) ==
  [t \in DOMAIN births \union {x \in topics : ~Known(x)} |->
     IF t \in DOMAIN births THEN births[t] ELSE <<>>]

\* Parse the message into a birth topic.
Parse(t, create, message) ==
  parsing' = IF message.entries = {} THEN Idle
             ELSE [topic |-> t, create |-> create, entries |-> message.entries,
                   from |-> message.levels]

\* The message that arrives and the parts of its name.
Arrives(n, type) ==
  /\ parsing = Idle
  /\ wire[n] # <<>>
  /\ wire' = [wire EXCEPT ![n] = Tail(@)]
  /\ Topic(NewTopic, Head(wire[n]).levels).type = type
  /\ UNCHANGED <<own, metrics, phase, moved>>

Parts(n)      == Topic(NewTopic, Head(wire[n]).levels)
NodeTopic(n)  == <<Parts(n).node, "">>
DeviceTopic(n) == <<Parts(n).node, Parts(n).device>>

HandleNodeBirthMessage(n) ==
  LET t == NodeTopic(n) IN
  /\ Arrives(n, "NBIRTH")
  /\ births' = Created({t})
  /\ IF Publish(t) THEN UNCHANGED parsing ELSE Parse(t, TRUE, Head(wire[n]))
  /\ missed' = missed \ {n}

\* bdSeq is not compared; the metrics of the node's devices are left alone.
HandleNodeDeathMessage(n) ==
  LET t == NodeTopic(n) IN
  /\ Arrives(n, "NDEATH")
  /\ births' = IF Known(t) /\ ~Publish(t)
               THEN [births EXCEPT ![t] = SetAllMetricsInvalid(@)] ELSE births
  /\ UNCHANGED <<parsing, missed>>

\* The command is for the receiver's own birth topic, whoever is named; a host
\* has none.
HandleNodeCommandMessage(n) ==
  /\ Arrives(n, "NCMD")
  /\ IF Known(NodeTopic(n)) /\ own # ""
     THEN Parse(<<own, "">>, FALSE, Head(wire[n])) ELSE UNCHANGED parsing
  /\ UNCHANGED <<births, missed>>

HandleNodeDataMessage(n) ==
  LET t == NodeTopic(n) IN
  /\ Arrives(n, "NDATA")
  /\ IF Known(t) /\ ~Publish(t)
     THEN Parse(t, FALSE, Head(wire[n])) ELSE UNCHANGED parsing
  /\ UNCHANGED <<births, missed>>

HandleDeviceBirthMessage(n) ==
  LET t == NodeTopic(n)
      d == DeviceTopic(n) IN
  /\ Arrives(n, "DBIRTH")
  /\ births' = Created(IF Publish(t) THEN {t} ELSE {t, d})
  /\ IF Publish(t) \/ Publish(d) THEN UNCHANGED parsing
     ELSE Parse(d, TRUE, Head(wire[n]))
  /\ UNCHANGED missed

HandleDeviceDeathMessage(n) ==
  LET d == DeviceTopic(n) IN
  /\ Arrives(n, "DDEATH")
  /\ births' = IF d \in DOMAIN births /\ ~Publish(d)
               THEN [births EXCEPT ![d] = SetAllMetricsInvalid(@)] ELSE births
  /\ UNCHANGED <<parsing, missed>>

\* The two have the same code, and make the node, not the device.
HandleDeviceWrite(n) ==
  LET d == DeviceTopic(n) IN
  /\ births' = Created({NodeTopic(n)})
  /\ IF d \in DOMAIN births /\ ~Publish(d)
     THEN Parse(d, TRUE, Head(wire[n])) ELSE UNCHANGED parsing
  /\ UNCHANGED missed

HandleDeviceCommandMessage(n) == Arrives(n, "DCMD") /\ HandleDeviceWrite(n)
HandleDeviceDataMessage(n)    == Arrives(n, "DDATA") /\ HandleDeviceWrite(n)

\* One metric of the loop of ParseProtobuf; their order makes no difference.
ParseProtobuf ==
  \E e \in parsing.entries :
    LET t == parsing.topic IN
    /\ parsing' = IF parsing.entries = {e} THEN Idle
                  ELSE [parsing EXCEPT !.entries = @ \ {e}]
    /\ IF t[1] = own
       THEN /\ metrics' = [metrics EXCEPT ![own] = ParseEntry(@, e, parsing.create)]
            /\ UNCHANGED births
       ELSE /\ births' = [births EXCEPT ![t] = ParseEntry(@, e, parsing.create)]
            /\ UNCHANGED metrics
    /\ UNCHANGED <<own, phase, wire, missed, moved>>

-----------------------------------------------------------------------------
Sender(n) ==
  \/ NodeStart(n) \/ NodeBirth(n) \/ NodeData(n) \/ NodeDeath(n)
  \/ ConnectionBreaks(n)
  \/ \E v \in Values :
       AddMetric(n, v) \/ WriteMetricValue(n, v) \/ NodeCommand(n, v)
  \/ \E d \in Devices, type \in DeviceMessageType :
       DeviceMessage(n, d, type)

Receive(n) ==
  \/ HandleNodeBirthMessage(n) \/ HandleNodeDeathMessage(n)
  \/ HandleNodeCommandMessage(n) \/ HandleNodeDataMessage(n)
  \/ HandleDeviceBirthMessage(n) \/ HandleDeviceDeathMessage(n)
  \/ HandleDeviceCommandMessage(n) \/ HandleDeviceDataMessage(n)

Next ==
  \/ \E n \in Nodes : Sender(n) \/ Receive(n) \/ MessagesLost(n)
  \/ ParseProtobuf

Spec == Init /\ [][Next]_vars

\* Paho's thread handles what has arrived, from every node.
FairSpec == Spec /\ \A n \in Nodes : WF_vars(Receive(n) \/ ParseProtobuf)

-----------------------------------------------------------------------------
(* Properties. *)

\* The values a node and its receiver keep are those of the metrics that have
\* them, and of that node.
SenderKeeps(n) ==
  \A m \in DOMAIN metrics[n] :
    metrics[n][m].value[1] = n /\ metrics[n][m].value[2] = m

ReceiverKeeps(t) ==
  \A m \in DOMAIN births[t] :
    births[t][m].value[1] = t[1] /\ births[t][m].value[2] = m

\* A value never lands on another metric than the one it was written to, at the
\* sender or at the receiver, though data and commands name metrics by alias:
\* "you cannot change name, alias and data type on existing metrics".
ValuesStayWithTheirMetric ==
  (\A n \in Nodes : SenderKeeps(n)) /\ (\A t \in DOMAIN births : ReceiverKeeps(t))

\* It takes a Start that gives a metric another number to mix values up: until
\* then no value of the node lands on another metric, whatever is added, lost,
\* half parsed or commanded meanwhile, and whatever the other nodes do.
OnlyRenumberingMixesUp ==
  /\ \A n \in Nodes \ moved : SenderKeeps(n)
  /\ \A t \in DOMAIN births : t[1] \notin moved => ReceiverKeeps(t)

-----------------------------------------------------------------------------
(* The inductive invariant behind OnlyRenumberingMixesUp and               *)
(* OwnMetricsObeyCommands.                                                  *)

\* The number is that of the metric, or none.
Numbered(p, m, alias) == alias \in {0, p[m].alias}

\* What is said of a node with the metrics p: a value of one of them, which is
\* meant by its name or by its number.
SaidOf(n, p, e) ==
  /\ e.value[1] = n
  /\ e.value[2] \in DOMAIN p
  /\ e.name \in {NoName, e.value[2]}
  /\ Numbered(p, e.value[2], e.alias)
  /\ e.name = NoName => e.alias # 0

AllSaidOf(n, es) == n \notin moved => \A e \in es : SaidOf(n, metrics[n], e)

\* A number is that of one metric, and what the receiver knows are metrics of
\* the node by their numbers.
AliasPart ==
  /\ \A n \in Nodes : \A m, k \in DOMAIN metrics[n] :
       metrics[n][m].alias = metrics[n][k].alias => m = k \/ metrics[n][m].alias = 0
  /\ \A n \in Nodes \ moved : <<n, "">> \in DOMAIN births =>
       /\ DOMAIN births[<<n, "">>] \subseteq DOMAIN metrics[n]
       /\ \A m \in DOMAIN births[<<n, "">>] :
            Numbered(metrics[n], m, births[<<n, "">>][m].alias)

\* A message of a node, or a command for the receiver, that speaks of the
\* node's metrics; or a message of one of its devices.
NodeSaid(n, message) ==
  /\ \E type \in NodeMessageType :
       /\ message.levels = <<"spBv1.0", "Group", type, n>>
       /\ type = "NCMD" /\ own # "" => own = n
  /\ AllSaidOf(n, message.entries)

DeviceSaid(n, message) ==
  \E type \in DeviceMessageType, d \in Devices :
    message.levels = <<"spBv1.0", "Group", type, n, d>>

WirePart ==
  \A n \in Nodes : \A i \in 1..Len(wire[n]) :
    NodeSaid(n, wire[n][i]) \/ DeviceSaid(n, wire[n][i])

\* Only the payloads of nodes are parsed, the own one only for a command.
ParsingPart ==
  parsing # Idle =>
    \E n \in Nodes :
      /\ parsing.topic = <<n, "">>
      /\ AllSaidOf(n, parsing.entries)
      /\ n = own => /\ ~parsing.create
                    /\ parsing.from = <<"spBv1.0", "Group", "NCMD", own>>
      /\ n # own => <<n, "">> \in DOMAIN births

\* The receiver's own birth topic is not in its lists, and no payload of a
\* device has ever been parsed.
BirthsPart ==
  \A t \in DOMAIN births : t[1] # own /\ (t[2] # "" => DOMAIN births[t] = {})

\* All of it: numbers, messages, the payload under the parser and the births
\* of a node agree on which metric is meant, until its numbers move.
IInv == TypeOK /\ AliasPart /\ WirePart /\ ParsingPart /\ BirthsPart
             /\ OnlyRenumberingMixesUp

-----------------------------------------------------------------------------
(* The inductive invariant behind ViewIsCurrent: what the receiver will     *)
(* know of a node when it has read everything that is under way.  The       *)
(* operators speak of the metrics p of the node, its messages q, the        *)
(* entries es still to be parsed, by a parser that may create metrics or    *)
(* not, and the receiver's payload b.                                       *)

\* Messages of some types, by their place.
Of(q, types) == {i \in 1..Len(q) : q[i].levels[3] \in types}
BirthsIn(q)  == Of(q, {"NBIRTH"})
DeathsIn(q)  == Of(q, {"NDEATH"})
NewsIn(q)    == Of(q, {"NBIRTH", "NDATA"})

About(es, m)  == {e \in es : e.value[2] = m}
NewsOf(q, m)  == {i \in NewsIn(q) : About(q[i].entries, m) # {}}
WordsOn(q, m) == NewsOf(q, m) \union DeathsIn(q)

\* Entries that give every metric one value.
Faithful(es) == \A e \in es : About(es, e.value[2]) = {e}

\* The receiver knows the metric by name, and by its number if it has one, or
\* is going to.
Teaches(p, m, es) ==
  \E e \in es : e.name = m /\ p[m].alias \in {0, e.alias}

IsKnown(p, q, es, create, b, m) ==
  \/ \E i \in BirthsIn(q) : Teaches(p, m, q[i].entries)
  \/ create /\ Teaches(p, m, es)
  \/ m \in DOMAIN b /\ p[m].alias \in {0, b[m].alias}

\* The last word on the metric is its value: that of a message under way, or
\* of the one being parsed, or what the receiver has.
Says(p, m, es) == \E e \in es : e.value = p[m].value

IsCurrent(p, q, es, b, m) ==
  \/ p[m].updated
  \/ \E i \in NewsOf(q, m) : /\ Says(p, m, q[i].entries)
                            /\ \A j \in WordsOn(q, m) : j <= i
  \/ WordsOn(q, m) = {} /\ Says(p, m, es)
  \/ /\ WordsOn(q, m) = {} /\ About(es, m) = {}
     /\ m \in DOMAIN b /\ b[m].valid /\ b[m].value = p[m].value

\* A death is the last word on all metrics.
IsStale(q, es, b) ==
  \/ \E i \in DeathsIn(q) : \A j \in NewsIn(q) : j < i
  \/ NewsIn(q) = {} /\ es = {} /\ \A m \in DOMAIN b : ~b[m].valid

ToParse(n) == IF parsing.topic = <<n, "">> THEN parsing.entries ELSE {}
Seen(n)    == IF <<n, "">> \in DOMAIN births THEN births[<<n, "">>] ELSE <<>>
Heard(n)   == n \notin missed \/ BirthsIn(wire[n]) # {}

FaithfulPart(n) ==
  /\ Faithful(ToParse(n))
  /\ \A i \in NewsIn(wire[n]) : Faithful(wire[n][i].entries)

LivingPart(n) ==
  Heard(n) /\ phase[n] = "up" =>
    /\ BirthsIn(wire[n]) # {} \/ <<n, "">> \in DOMAIN births
    /\ \A m \in DOMAIN metrics[n] :
         /\ IsKnown(metrics[n], wire[n], ToParse(n), parsing.create, Seen(n), m)
         /\ IsCurrent(metrics[n], wire[n], ToParse(n), Seen(n), m)

DeadPart(n) ==
  Heard(n) /\ phase[n] # "up" => IsStale(wire[n], ToParse(n), Seen(n))

\* Whatever is still under way or under the parser, it will make the view of
\* every node current: of the metrics of a living one, the last word is the
\* value it sent last, and will be understood as long as its numbers have not
\* moved; of a dead one, its death.
ViewInv ==
  \A n \in Nodes \ {own} :
    /\ n \notin moved => FaithfulPart(n) /\ LivingPart(n)
    /\ DeadPart(n)

-----------------------------------------------------------------------------
Quiet(n) == wire[n] = <<>> /\ parsing = Idle /\ n \notin missed /\ n # own

\* A receiver that heard the last birth of a node and all that followed trusts
\* no metric of a dead node, and knows every metric of a living one with the
\* value it last sent, as long as the numbers of its metrics have not moved.
ViewIsCurrent ==
  \A n \in Nodes : Quiet(n) =>
    /\ phase[n] = "up" /\ n \notin moved =>
         /\ <<n, "">> \in DOMAIN births
         /\ \A m \in DOMAIN metrics[n] :
              /\ m \in DOMAIN births[<<n, "">>]
              /\ metrics[n][m].updated \/
                   /\ births[<<n, "">>][m].valid
                   /\ births[<<n, "">>][m].value = metrics[n][m].value
    /\ phase[n] = "down" /\ <<n, "">> \in DOMAIN births =>
         \A m \in DOMAIN births[<<n, "">>] : ~births[<<n, "">>][m].valid

\* A birth names all metrics of the node, so that who hears it knows them all.
BirthTellsAll ==
  \A n \in Nodes : Quiet(n) /\ phase[n] = "up" /\ <<n, "">> \in DOMAIN births =>
    DOMAIN metrics[n] \subseteq DOMAIN births[<<n, "">>]

\* A node's own metrics are its application's: what comes back of its own
\* messages, and whatever others send, does not overwrite them; only a command
\* that names the node does.
OwnMetricsObeyCommands ==
  [][own # "" /\ parsing' # parsing /\ metrics'[own] # metrics[own]
       => parsing.from = <<"spBv1.0", "Group", "NCMD", own>>]_vars

Dies(n) == \E i \in 1..Len(wire[n]) : wire[n][i].levels[3] \in {"NDEATH", "NBIRTH"}

\* The death of a node is shown: unless it comes back or its messages are lost,
\* its metrics are stale once its death has arrived, and it does arrive.
DeathIsShown ==
  \A n \in Nodes :
    phase[n] = "down" ~>
      \/ phase[n] = "up" \/ n \in missed \/ n = own
      \/ /\ ~Dies(n)
         /\ <<n, "">> \in DOMAIN births =>
              \A m \in DOMAIN births[<<n, "">>] : ~births[<<n, "">>][m].valid
=============================================================================
