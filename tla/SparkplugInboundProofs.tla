------------------------- MODULE SparkplugInboundProofs -------------------------
(***************************************************************************)
(* Proofs about SparkplugInbound, for every set of nodes, devices, metric  *)
(* names and values, every bound, and senders of either kind.              *)
(*                                                                         *)
(* Two metrics of a node never have the same number, and until a Start     *)
(* moves one, a number that was given stays.  So what a message, a payload *)
(* under the parser or a birth says by number agrees with the numbers the  *)
(* node has now, is about one metric only, and ParseEntry keeps the        *)
(* payload one of its node.  Of a node with a moved number only the types  *)
(* are known.                                                              *)
(***************************************************************************)
EXTENDS SparkplugInbound, FiniteSetTheorems, SequenceTheorems, TLAPS

-----------------------------------------------------------------------------
(* Alias numbers. *)

\* The numbers are natural, and not the 0 that means none.
LEMMA RankPositive ==
  ASSUME NEW S \in SUBSET Names, NEW m \in S
  PROVE  Rank(S, m) \in Nat \ {0}
  <1> DEFINE T == {k \in S : k <= m}
  <1>1. IsFiniteSet(T)
    BY NamesAssumption, FS_Subset
  <1>2. m \in T
    BY NamesAssumption
  <1>3. Cardinality(T) \in Nat /\ Cardinality(T) # 0
    BY <1>1, <1>2, FS_CardinalityType, FS_EmptySet
  <1> QED
    BY <1>3 DEF Rank

LEMMA RankGrows ==
  ASSUME NEW S \in SUBSET Names, NEW m \in S, NEW k \in S, m < k
  PROVE  Rank(S, m) # Rank(S, k)
  <1> DEFINE T == {x \in S : x <= m}
             U == {x \in S : x <= k}
  <1>1. IsFiniteSet(U)
    BY NamesAssumption, FS_Subset
  <1>2. T \subseteq U /\ k \in U /\ k \notin T
    <2>1. \A x \in S : x \in Nat
      BY NamesAssumption
    <2>2. \A x \in S : x <= m => x <= k
      BY <2>1
    <2>3. k <= k /\ ~(k <= m)
      BY <2>1
    <2> QED
      BY <2>2, <2>3
  <1>3. Cardinality(T) < Cardinality(U)
    BY <1>1, <1>2, FS_Subset, FS_CardinalityType
  <1> QED
    BY <1>1, <1>2, <1>3, FS_Subset, FS_CardinalityType DEF Rank

\* Two metrics of a payload have different numbers.
LEMMA RankInjective ==
  ASSUME NEW S \in SUBSET Names, NEW m \in S, NEW k \in S,
         Rank(S, m) = Rank(S, k)
  PROVE  m = k
  <1>1. m \in Nat /\ k \in Nat
    BY NamesAssumption
  <1>2. ~(m < k) /\ ~(k < m)
    BY RankGrows
  <1> QED
    BY <1>1, <1>2

\* No number is that of two metrics.
Distinct(p) ==
  \A m, k \in DOMAIN p : p[m].alias = p[k].alias => m = k \/ p[m].alias = 0

\* More metrics, and more numbers, but the numbers that were given are the same.
Extends(p, q) ==
  /\ DOMAIN p \subseteq DOMAIN q
  /\ \A m \in DOMAIN p : p[m].alias \in {0, q[m].alias}

LEMMA SaidExtends ==
  ASSUME NEW p, NEW q, Extends(p, q), NEW n, NEW e, SaidOf(n, p, e)
  PROVE  SaidOf(n, q, e)
  BY DEF Extends, SaidOf, Numbered

-----------------------------------------------------------------------------
(* Payloads. *)

\* A payload b of node n, which has the metrics p: metrics of the node, with
\* their own values, and their numbers or none.
PayloadOf(n, p, b) ==
  /\ IsPayload(b) /\ DOMAIN b \subseteq DOMAIN p
  /\ \A m \in DOMAIN b : /\ Numbered(p, m, b[m].alias)
                         /\ b[m].value[1] = n /\ b[m].value[2] = m

LEMMA PayloadExtends ==
  ASSUME NEW p, NEW q, Extends(p, q), NEW n, NEW b, PayloadOf(n, p, b)
  PROVE  PayloadOf(n, q, b)
  BY DEF Extends, PayloadOf, Numbered

\* What is said of a node is about one metric at most, by name and by alias.
LEMMA FoundIsMeant ==
  ASSUME NEW n, NEW p, Distinct(p), NEW b, PayloadOf(n, p, b),
         NEW e \in Entry, SaidOf(n, p, e)
  PROVE  GetMetric(b, e) \subseteq {e.value[2]} \intersect DOMAIN b
  <1>1. CASE e.name # NoName
    BY <1>1 DEF GetMetric, SaidOf
  <1>2. CASE e.name = NoName
    <2> SUFFICES ASSUME NEW m \in DOMAIN b, b[m].alias = e.alias
                 PROVE  m = e.value[2]
      BY <1>2 DEF GetMetric
    <2> DEFINE k == e.value[2]
    <2>1. e.alias # 0 /\ k \in DOMAIN p /\ e.alias = p[k].alias
      BY <1>2 DEF SaidOf, Numbered
    <2>2. b[m].alias = p[m].alias /\ m \in DOMAIN p
      BY <2>1 DEF PayloadOf, Numbered
    <2> QED
      BY <2>1, <2>2 DEF Distinct
  <1> QED
    BY <1>1, <1>2

\* Writing a metric, and adding one.
LEMMA SetValueType ==
  ASSUME NEW metric \in [alias : Nat, value : Value \union {NoValue},
                         valid : BOOLEAN, updated : BOOLEAN],
         NEW value \in Value
  PROVE  /\ SetValue(metric, value) \in Metric
         /\ SetValue(metric, value).alias = metric.alias
         /\ SetValue(metric, value).value = value
  BY DEF SetValue, Metric

LEMMA ParseMetricType ==
  ASSUME NEW metric \in [alias : Nat, value : Value \union {NoValue},
                         valid : BOOLEAN, updated : BOOLEAN],
         NEW e \in Entry, NEW create \in BOOLEAN
  PROVE  /\ ParseMetric(metric, e, create) \in Metric
         /\ ParseMetric(metric, e, create).alias \in {metric.alias, e.alias}
         /\ ~create => ParseMetric(metric, e, create).alias = metric.alias
         /\ ParseMetric(metric, e, create).value = e.value
  <1> DEFINE given == [metric EXCEPT !.alias = IF @ = 0 /\ create THEN e.alias
                                               ELSE @]
  <1>1. /\ given \in [alias : Nat, value : Value \union {NoValue},
                      valid : BOOLEAN, updated : BOOLEAN]
        /\ given.alias \in {metric.alias, e.alias}
        /\ ~create => given.alias = metric.alias
        /\ e.value \in Value
    BY DEF Entry
  <1> HIDE DEF given
  <1>2. /\ SetValue(given, e.value) \in Metric
        /\ SetValue(given, e.value).alias = given.alias
        /\ SetValue(given, e.value).value = e.value
    BY <1>1, SetValueType
  <1> QED
    BY <1>1, <1>2 DEF ParseMetric, given

\* Whatever entry is parsed, a payload stays one; without "create" it has the
\* metrics and the numbers it had.
LEMMA ParsedType ==
  ASSUME NEW b, IsPayload(b), NEW e \in Entry, NEW create \in BOOLEAN
  PROVE  LET q == ParseEntry(b, e, create) IN
         /\ IsPayload(q)
         /\ DOMAIN b \subseteq DOMAIN q
         /\ \A m \in DOMAIN q :
              \/ m \in GetMetric(b, e) /\ m \in DOMAIN b
                 /\ q[m].alias \in {b[m].alias, e.alias} /\ q[m].value = e.value
              \/ m = e.name /\ q[m].alias \in {0, e.alias} /\ q[m].value = e.value
              \/ m \in DOMAIN b /\ q[m] = b[m]
         /\ ~create => /\ DOMAIN q = DOMAIN b
                       /\ \A m \in DOMAIN b : q[m].alias = b[m].alias
  <1> DEFINE found == GetMetric(b, e)
             made  == IF found = {} /\ e.name # NoName /\ create
                      THEN {e.name} ELSE {}
             q     == ParseEntry(b, e, create)
  <1>1. found \subseteq DOMAIN b
    BY DEF GetMetric
  <1>2. /\ made \subseteq {e.name} /\ made \subseteq Names
        /\ ~create => made = {}
        /\ made # {} => found = {}
    BY DEF Entry
  <1>3. made \intersect DOMAIN b = {}
    BY DEF GetMetric
  <1> HIDE DEF found
  <1>4. q = [m \in DOMAIN b \union made |->
               IF m \in found THEN ParseMetric(b[m], e, create)
               ELSE IF m \in made THEN ParseMetric(NewMetric, e, TRUE)
               ELSE b[m]]
    BY DEF ParseEntry, found
  <1> HIDE DEF made, q
  <1>5. DOMAIN q = DOMAIN b \union made /\ DOMAIN q \subseteq Names
    <2>1. DOMAIN b \subseteq Names
      BY DEF IsPayload
    <2>2. DOMAIN q = DOMAIN b \union made
      BY <1>4
    <2> QED
      BY <1>2, <2>1, <2>2
  <1>6. ASSUME NEW m \in DOMAIN q
        PROVE  /\ q[m] \in Metric
               /\ m \in found => /\ q[m].alias \in {b[m].alias, e.alias}
                                 /\ q[m].value = e.value
               /\ m \notin DOMAIN b => /\ m = e.name /\ q[m].alias \in {0, e.alias}
                                       /\ q[m].value = e.value
               /\ m \in DOMAIN b /\ m \notin found => q[m] = b[m]
               /\ m \in DOMAIN b /\ ~create => q[m].alias = b[m].alias
    <2>1. CASE m \in found
      <3>1. q[m] = ParseMetric(b[m], e, create) /\ m \in DOMAIN b
        BY <1>1, <1>4, <1>5, <2>1
      <3>2. b[m] \in [alias : Nat, value : Value \union {NoValue},
                     valid : BOOLEAN, updated : BOOLEAN]
        BY <3>1 DEF IsPayload, Metric
      <3> QED
        BY <2>1, <3>1, <3>2, ParseMetricType
    <2>2. CASE m \notin DOMAIN b
      <3>1. q[m] = ParseMetric(NewMetric, e, TRUE) /\ m = e.name
        <4>1. m \in made /\ m \notin found
          BY <1>1, <1>5, <2>2
        <4>2. q[m] = ParseMetric(NewMetric, e, TRUE)
          BY <1>4, <1>5, <4>1
        <4> QED
          BY <1>2, <4>1, <4>2
      <3>2. NewMetric \in [alias : Nat, value : Value \union {NoValue},
                           valid : BOOLEAN, updated : BOOLEAN]
            /\ NewMetric.alias = 0
        BY DEF NewMetric
      <3>3. /\ q[m] \in Metric /\ q[m].alias \in {0, e.alias}
            /\ q[m].value = e.value
        BY <3>1, <3>2, ParseMetricType
      <3> QED
        BY <1>1, <2>2, <3>1, <3>3
    <2>3. CASE m \in DOMAIN b /\ m \notin found
      <3>1. q[m] = b[m]
        BY <1>3, <1>4, <1>5, <2>3
      <3> QED
        BY <2>3, <3>1 DEF IsPayload
    <2> QED
      BY <2>1, <2>2, <2>3
  <1>7. IsPayload(q)
    <2>1. q = [m \in DOMAIN q |-> q[m]]
      BY <1>4
    <2> QED
      BY <1>5, <1>6, <2>1 DEF IsPayload
  <1>8. ~create => /\ DOMAIN q = DOMAIN b
                   /\ \A m \in DOMAIN b : q[m].alias = b[m].alias
    BY <1>2, <1>5, <1>6
  <1>9. \A m \in DOMAIN q :
          \/ m \in found /\ m \in DOMAIN b
             /\ q[m].alias \in {b[m].alias, e.alias} /\ q[m].value = e.value
          \/ m = e.name /\ q[m].alias \in {0, e.alias} /\ q[m].value = e.value
          \/ m \in DOMAIN b /\ q[m] = b[m]
    BY <1>1, <1>6
  <1>10. DOMAIN b \subseteq DOMAIN q
    BY <1>5
  <1> QED
    BY <1>7, <1>8, <1>9, <1>10, Zenon DEF q, found

\* A metric of a message that is about the node keeps the payload one of the
\* node.
LEMMA ParsedPayload ==
  ASSUME NEW n, NEW p, Distinct(p), NEW b, PayloadOf(n, p, b),
         NEW e \in Entry, SaidOf(n, p, e), NEW create \in BOOLEAN
  PROVE  PayloadOf(n, p, ParseEntry(b, e, create))
  <1> DEFINE q == ParseEntry(b, e, create)
             found == GetMetric(b, e)
  <1>1. found \subseteq {e.value[2]}
    BY FoundIsMeant
  <1>2. /\ IsPayload(q)
        /\ \A m \in DOMAIN q :
             \/ m \in found /\ m \in DOMAIN b /\ q[m].value = e.value
                           /\ q[m].alias \in {b[m].alias, e.alias}
             \/ m = e.name /\ q[m].value = e.value /\ q[m].alias \in {0, e.alias}
             \/ m \in DOMAIN b /\ q[m] = b[m]
    BY ParsedType DEF PayloadOf
  <1> HIDE DEF q, found
  <1>3. ASSUME NEW m \in DOMAIN q
        PROVE  /\ m \in DOMAIN p /\ Numbered(p, m, q[m].alias)
               /\ q[m].value[1] = n /\ q[m].value[2] = m
    <2>1. CASE m \in found /\ m \in DOMAIN b /\ q[m].value = e.value
                 /\ q[m].alias \in {b[m].alias, e.alias}
      BY <1>1, <2>1 DEF PayloadOf, SaidOf, Numbered
    <2>2. CASE m = e.name /\ q[m].value = e.value /\ q[m].alias \in {0, e.alias}
      <3>1. m \in Names /\ m # NoName
        BY <1>2, NamesAssumption DEF IsPayload, NoName
      <3> QED
        BY <2>2, <3>1 DEF SaidOf, Numbered
    <2>3. CASE m \in DOMAIN b /\ q[m] = b[m]
      BY <2>3 DEF PayloadOf
    <2> QED
      BY <1>2, <2>1, <2>2, <2>3
  <1> QED
    BY <1>2, <1>3 DEF PayloadOf, q

\* The same metrics, values and numbers, and other flags.
Like(p, q) ==
  /\ IsPayload(q) /\ DOMAIN q = DOMAIN p
  /\ \A m \in DOMAIN p : q[m].alias = p[m].alias /\ q[m].value = p[m].value

LEMMA LikePayload ==
  ASSUME NEW p, NEW q, Like(p, q)
  PROVE  /\ Extends(p, q)
         /\ Distinct(p) => Distinct(q)
         /\ \A n, r : PayloadOf(n, r, p) => PayloadOf(n, r, q)
         /\ \A n : PayloadOf(n, p, p) => PayloadOf(n, q, q)
  BY DEF Like, Extends, Distinct, PayloadOf, Numbered

LEMMA SameMetrics ==
  ASSUME NEW p, IsPayload(p), NEW q, q = [m \in DOMAIN p |-> q[m]],
         \A m \in DOMAIN p : /\ q[m] \in Metric /\ q[m].alias = p[m].alias
                             /\ q[m].value = p[m].value
  PROVE  Like(p, q)
  BY DEF Like, IsPayload

LEMMA InvalidPayload ==
  ASSUME NEW p, IsPayload(p)
  PROVE  Like(p, SetAllMetricsInvalid(p))
  <1> DEFINE q == SetAllMetricsInvalid(p)
  <1>1. q = [m \in DOMAIN p |-> [p[m] EXCEPT !.valid = FALSE]]
    BY DEF SetAllMetricsInvalid
  <1> HIDE DEF q
  <1>2. ASSUME NEW m \in DOMAIN p
        PROVE  q[m] \in Metric /\ q[m].alias = p[m].alias /\ q[m].value = p[m].value
    <2>1. p[m] \in Metric
      BY DEF IsPayload
    <2>2. q[m] = [p[m] EXCEPT !.valid = FALSE]
      BY <1>1
    <2> QED
      BY <2>1, <2>2 DEF Metric
  <1>3. q = [m \in DOMAIN p |-> q[m]]
    BY <1>1
  <1> QED
    BY <1>2, <1>3, SameMetrics DEF q

LEMMA ResetPayload ==
  ASSUME NEW p, IsPayload(p), NEW all \in BOOLEAN
  PROVE  Like(p, ResetUpdated(p, all))
  <1> DEFINE q == ResetUpdated(p, all)
             kept(m) == m \notin Included(p, all)
  <1>1. q = [m \in DOMAIN p |-> [p[m] EXCEPT !.updated = @ /\ kept(m)]]
    BY DEF ResetUpdated
  <1>2. \A m \in DOMAIN p : kept(m) \in BOOLEAN
    OBVIOUS
  <1> HIDE DEF kept, q
  <1>3. ASSUME NEW m \in DOMAIN p
        PROVE  q[m] \in Metric /\ q[m].alias = p[m].alias /\ q[m].value = p[m].value
    <2>1. p[m] \in Metric
      BY DEF IsPayload
    <2>2. q[m] = [p[m] EXCEPT !.updated = p[m].updated /\ kept(m)]
      BY <1>1
    <2> QED
      BY <2>1, <2>2 DEF Metric
  <1>4. q = [m \in DOMAIN p |-> q[m]]
    BY <1>1
  <1> QED
    BY <1>3, <1>4, SameMetrics DEF q

-----------------------------------------------------------------------------
(* Messages. *)

Messages == [levels : Seq(Levels), entries : SUBSET Entry]

LEMMA FourLevels ==
  ASSUME NEW S, NEW a \in S, NEW b \in S, NEW c \in S, NEW d \in S
  PROVE  <<a, b, c, d>> \in Seq(S)
  OBVIOUS

LEMMA FiveLevels ==
  ASSUME NEW S, NEW a \in S, NEW b \in S, NEW c \in S, NEW d \in S, NEW e \in S
  PROVE  <<a, b, c, d, e>> \in Seq(S)
  OBVIOUS

\* What a node encodes of its metrics are entries, and said of it.
LEMMA WrittenIsEntry ==
  ASSUME NEW p, IsPayload(p), NEW m \in DOMAIN p, NEW all \in BOOLEAN
  PROVE  WriteMetric(p, m, all) \in Entry
  <1>1. p[m] \in Metric /\ m \in Names
    BY DEF IsPayload
  <1> QED
    BY <1>1 DEF WriteMetric, Entry, Metric

LEMMA WrittenIsSaid ==
  ASSUME NEW n, NEW p, PayloadOf(n, p, p), NEW m \in DOMAIN p, NEW all \in BOOLEAN
  PROVE  SaidOf(n, p, WriteMetric(p, m, all))
  <1>1. m # NoName /\ p[m].value[1] = n /\ p[m].value[2] = m
    BY NamesAssumption DEF PayloadOf, IsPayload, NoName
  <1> QED
    BY <1>1 DEF WriteMetric, SaidOf, Numbered

LEMMA EncodedIsSaid ==
  ASSUME NEW n, NEW p, IsPayload(p), NEW all \in BOOLEAN
  PROVE  /\ WriteProtobuf(p, all) \subseteq Entry
         /\ PayloadOf(n, p, p) => \A e \in WriteProtobuf(p, all) : SaidOf(n, p, e)
  BY WrittenIsEntry, WrittenIsSaid DEF WriteProtobuf, Included

\* The names of the messages that are forwarded.
LEMMA NodeNames ==
  ASSUME NEW n \in Nodes, NEW type \in NodeMessageType,
         NEW entries \in SUBSET Entry
  PROVE  /\ Message(n, type, "", entries) \in Messages
         /\ Message(n, type, "", entries).entries = entries
         /\ Subscribed(Message(n, type, "", entries).levels) =>
              /\ Message(n, type, "", entries).levels =
                   <<"spBv1.0", "Group", type, n>>
              /\ type = "NCMD" /\ own # "" => own = n
  <1>1. {n, type, "spBv1.0", "spvBv1.0", "Group", ""} \subseteq Levels
    BY DEF Levels
  <1>2. NameOf(n, type, "") \in {<<"spvBv1.0", "", type, "">>,
                                <<"spBv1.0", "Group", type, n>>}
    BY DEF NameOf
  <1>3. NameOf(n, type, "") \in Seq(Levels)
    <2>1. /\ <<"spvBv1.0", "", type, "">> \in Seq(Levels)
          /\ <<"spBv1.0", "Group", type, n>> \in Seq(Levels)
      BY <1>1, FourLevels
    <2> QED
      BY <1>2, <2>1
  <1>4. Subscribed(NameOf(n, type, "")) =>
          NameOf(n, type, "") = <<"spBv1.0", "Group", type, n>>
    <2>1. ~Subscribed(<<"spvBv1.0", "", type, "">>)
      BY DEF Subscribed
    <2> QED
      BY <1>2, <2>1
  <1>5. Subscribed(<<"spBv1.0", "Group", type, n>>) /\ type = "NCMD" /\ own # ""
          => own = n
    BY DEF Subscribed
  <1> QED
    BY <1>3, <1>4, <1>5 DEF Message, Messages

LEMMA DeviceNames ==
  ASSUME NEW n \in Nodes, NEW type \in DeviceMessageType, NEW d \in Devices,
         NEW entries \in SUBSET Entry
  PROVE  /\ Message(n, type, d, entries) \in Messages
         /\ Subscribed(Message(n, type, d, entries).levels) =>
              DeviceSaid(n, Message(n, type, d, entries))
  <1>1. {n, type, d, "spBv1.0", "spvBv1.0", "Group"} \subseteq Levels /\ d # ""
    BY InboundAssumption DEF Levels
  <1>2. NameOf(n, type, d) \in {<<"spvBv1.0", "Group", type, n, d>>,
                               <<"spBv1.0", "Group", type, n, d>>}
    <2>1. NameOf(n, type, d) = <<DeviceSpace(n, type), "Group", type, n, d>>
      BY <1>1 DEF NameOf, DeviceMessageType
    <2>2. DeviceSpace(n, type) \in {"spBv1.0", "spvBv1.0"}
      BY DEF DeviceSpace
    <2> QED
      BY <2>1, <2>2
  <1>3. NameOf(n, type, d) \in Seq(Levels)
    <2>1. /\ <<"spvBv1.0", "Group", type, n, d>> \in Seq(Levels)
          /\ <<"spBv1.0", "Group", type, n, d>> \in Seq(Levels)
      BY <1>1, FiveLevels
    <2> QED
      BY <1>2, <2>1
  <1>4. Subscribed(NameOf(n, type, d)) =>
          NameOf(n, type, d) = <<"spBv1.0", "Group", type, n, d>>
    <2>1. ~Subscribed(<<"spvBv1.0", "Group", type, n, d>>)
      BY DEF Subscribed
    <2> QED
      BY <1>2, <2>1
  <1> QED
    BY <1>3, <1>4 DEF Message, Messages, DeviceSaid

\* The parts that ITopic::Topic finds in these names.
LEMMA PartsOfNode ==
  ASSUME NEW type, NEW n
  PROVE  /\ Topic(NewTopic, <<"spBv1.0", "Group", type, n>>).type = type
         /\ Topic(NewTopic, <<"spBv1.0", "Group", type, n>>).node = n
  BY DEF Topic, NewTopic, AssignLevelName

LEMMA PartsOfDevice ==
  ASSUME NEW type, NEW n, NEW d
  PROVE  /\ Topic(NewTopic, <<"spBv1.0", "Group", type, n, d>>).type = type
         /\ Topic(NewTopic, <<"spBv1.0", "Group", type, n, d>>).node = n
         /\ Topic(NewTopic, <<"spBv1.0", "Group", type, n, d>>).device = d
  BY DEF Topic, NewTopic, AssignLevelName

-----------------------------------------------------------------------------
(* The inductive invariant, by variable. *)

NodesCore ==
  /\ own \in Nodes \union {""}
  /\ phase \in [Nodes -> {"new", "down", "up"}]
  /\ missed \subseteq Nodes /\ moved \subseteq Nodes
  /\ DOMAIN metrics = Nodes
  /\ \A n \in Nodes :
       /\ IsPayload(metrics[n]) /\ Distinct(metrics[n])
       /\ n \notin moved => PayloadOf(n, metrics[n], metrics[n])

BirthsCore ==
  /\ DOMAIN births \subseteq Topics
  /\ \A t \in DOMAIN births :
       /\ t[1] # own
       /\ t[2] # "" => DOMAIN births[t] = {}
       /\ IsPayload(births[t])
       /\ t[1] \notin moved => PayloadOf(t[1], metrics[t[1]], births[t])

WireCore == wire \in [Nodes -> Seq(Messages)] /\ WirePart

ParsingCore ==
  /\ parsing \in [topic : Topics \union {<<>>}, create : BOOLEAN,
                 entries : SUBSET Entry, from : Seq(Levels)]
  /\ parsing = Idle \/ parsing.topic \in DOMAIN births \union {<<own, "">>}
  /\ ParsingPart

Core == NodesCore /\ BirthsCore /\ WireCore /\ ParsingCore

LEMMA Pair ==
  ASSUME NEW a, NEW b
  PROVE  <<a, b>>[1] = a /\ <<a, b>>[2] = b
  OBVIOUS

LEMMA PairParts ==
  ASSUME NEW A, NEW B, NEW t \in A \X B
  PROVE  t[1] \in A /\ t[2] \in B /\ t = <<t[1], t[2]>>
  OBVIOUS

LEMMA TopicParts ==
  ASSUME NEW t \in Topics
  PROVE  /\ t[1] \in Nodes /\ t[2] \in Devices \union {""}
         /\ t = <<t[1], t[2]>>
  <1>1. t \in Nodes \X (Devices \union {""})
    BY DEF Topics
  <1> HIDE DEF Topics
  <1> QED
    BY <1>1, PairParts

LEMMA CoreIsIInv == Core => IInv
  <1> SUFFICES ASSUME Core PROVE IInv
    OBVIOUS
  <1>1. TypeOK
    BY DEF Core, NodesCore, BirthsCore, WireCore, ParsingCore, Messages, TypeOK
  <1>2. AliasPart
    <2>1. ASSUME NEW n \in Nodes \ moved, <<n, "">> \in DOMAIN births
          PROVE  PayloadOf(n, metrics[n], births[<<n, "">>])
      <3>1. <<n, "">>[1] = n
        BY Pair
      <3> QED
        BY <2>1, <3>1 DEF Core, BirthsCore
    <2>2. \A n \in Nodes : Distinct(metrics[n])
      BY DEF Core, NodesCore
    <2> QED
      BY <2>1, <2>2 DEF AliasPart, PayloadOf, Distinct
  <1>3. BirthsPart
    BY DEF Core, BirthsCore, BirthsPart
  <1>4. OnlyRenumberingMixesUp
    <2>1. \A n \in Nodes \ moved : SenderKeeps(n)
      BY DEF Core, NodesCore, PayloadOf, SenderKeeps
    <2>2. \A t \in DOMAIN births : t[1] \notin moved => ReceiverKeeps(t)
      BY DEF Core, BirthsCore, PayloadOf, ReceiverKeeps
    <2> QED
      BY <2>1, <2>2 DEF OnlyRenumberingMixesUp
  <1> QED
    BY <1>1, <1>2, <1>3, <1>4 DEF Core, WireCore, ParsingCore, IInv

LEMMA NoPayload ==
  ASSUME NEW n, NEW p
  PROVE  /\ PayloadOf(n, p, <<>>) /\ IsPayload(<<>>) /\ Distinct(<<>>)
         /\ DOMAIN <<>> = {}
  BY DEF PayloadOf, IsPayload, Distinct

LEMMA IdleType ==
  /\ Idle \in [topic : Topics \union {<<>>}, create : BOOLEAN,
               entries : SUBSET Entry, from : Seq(Levels)]
  /\ Idle.entries = {}
  <1>1. <<>> \in Seq(Levels) /\ <<>> \in Topics \union {<<>>}
    BY EmptySeq
  <1> QED
    BY <1>1 DEF Idle

LEMMA InitCore == Init => Core
  <1> SUFFICES ASSUME Init PROVE Core
    OBVIOUS
  <1>1. NodesCore
    BY NoPayload DEF Init, NodesCore
  <1>2. BirthsCore
    <2>1. DOMAIN births = {}
      BY NoPayload DEF Init
    <2> QED
      BY <2>1 DEF BirthsCore
  <1>3. WireCore
    <2>1. <<>> \in Seq(Messages) /\ Len(<<>>) = 0 /\ 1..0 = {}
      OBVIOUS
    <2>2. \A n \in Nodes : wire[n] = <<>>
      BY DEF Init
    <2>3. WirePart
      BY <2>1, <2>2 DEF WirePart
    <2>4. wire \in [Nodes -> Seq(Messages)]
      BY <2>1 DEF Init
    <2> QED
      BY <2>3, <2>4 DEF WireCore
  <1>4. ParsingCore
    BY IdleType DEF Init, ParsingCore, ParsingPart
  <1> QED
    BY <1>1, <1>2, <1>3, <1>4 DEF Core

-----------------------------------------------------------------------------
(* What a step keeps as long as it moves no number. *)

\* The numbers that were given stay, but for the nodes said to have moved one.
Keeps ==
  /\ moved \subseteq moved'
  /\ \A k \in Nodes \ moved' : Extends(metrics[k], metrics'[k])

LEMMA SameKeeps ==
  ASSUME UNCHANGED <<metrics, moved>>
  PROVE  Keeps
  BY DEF Keeps, Extends

LEMMA SaidStays ==
  ASSUME Keeps, NEW n \in Nodes, NEW es, AllSaidOf(n, es)
  PROVE  AllSaidOf(n, es)'
  <1> SUFFICES ASSUME n \notin moved', NEW e \in es
               PROVE  SaidOf(n, metrics'[n], e)
    BY DEF AllSaidOf
  <1>1. Extends(metrics[n], metrics'[n]) /\ SaidOf(n, metrics[n], e)
    BY DEF Keeps, AllSaidOf
  <1> QED
    BY <1>1, SaidExtends

LEMMA NodeSaidStays ==
  ASSUME Keeps, own' = own, NEW n \in Nodes, NEW message, NodeSaid(n, message)
  PROVE  NodeSaid(n, message)'
  <1>1. AllSaidOf(n, message.entries)'
    <2>1. PICK es : es = message.entries
      OBVIOUS
    <2>2. AllSaidOf(n, es)'
      BY <2>1, SaidStays DEF NodeSaid
    <2> QED
      BY <2>1, <2>2
  <1> QED
    BY <1>1 DEF NodeSaid

LEMMA BirthsStay ==
  ASSUME BirthsCore, UNCHANGED <<own, births>>, Keeps
  PROVE  BirthsCore'
  <1>1. ASSUME NEW t \in DOMAIN births, t[1] \notin moved'
        PROVE  PayloadOf(t[1], metrics'[t[1]], births[t])
    <2>1. t[1] \in Nodes
      BY TopicParts DEF BirthsCore
    <2>2. /\ PayloadOf(t[1], metrics[t[1]], births[t])
          /\ Extends(metrics[t[1]], metrics'[t[1]])
      BY <1>1, <2>1 DEF BirthsCore, Keeps
    <2> QED
      BY <2>2, PayloadExtends
  <1> QED
    BY <1>1 DEF BirthsCore

LEMMA ParsingStays ==
  ASSUME ParsingCore, UNCHANGED <<own, parsing>>, Keeps,
         DOMAIN births \subseteq DOMAIN births'
  PROVE  ParsingCore'
  <1>1. CASE parsing = Idle
    BY <1>1 DEF ParsingCore, ParsingPart
  <1>2. CASE parsing # Idle
    <2>1. PICK n \in Nodes :
            /\ parsing.topic = <<n, "">>
            /\ AllSaidOf(n, parsing.entries)
            /\ n = own => /\ ~parsing.create
                          /\ parsing.from = <<"spBv1.0", "Group", "NCMD", own>>
            /\ n # own => <<n, "">> \in DOMAIN births
      BY <1>2 DEF ParsingCore, ParsingPart
    <2>2. PICK es : es = parsing.entries
      OBVIOUS
    <2>3. AllSaidOf(n, es)'
      BY <2>1, <2>2, SaidStays
    <2>4. AllSaidOf(n, parsing.entries)'
      BY <2>2, <2>3 DEF AllSaidOf
    <2>5. ParsingPart'
      BY <2>1, <2>4 DEF ParsingPart
    <2> QED
      BY <2>5 DEF ParsingCore
  <1> QED
    BY <1>1, <1>2

-----------------------------------------------------------------------------
(* What is under way. *)

\* The messages of one node change: those that stay, and one that speaks of
\* the metrics the node has.
LEMMA WireChanges ==
  ASSUME WireCore, NEW n \in Nodes, NEW q \in Seq(Messages),
         \A i \in 1..Len(q) :
           \/ \E j \in 1..Len(wire[n]) : q[i] = wire[n][j]
           \/ NodeSaid(n, q[i])
           \/ DeviceSaid(n, q[i]),
         wire' = [wire EXCEPT ![n] = q], own' = own, Keeps
  PROVE  WireCore'
  <1>1. wire' \in [Nodes -> Seq(Messages)]
    BY DEF WireCore
  <1>2. ASSUME NEW k \in Nodes, NEW i \in 1..Len(wire'[k])
        PROVE  NodeSaid(k, wire[k][i])' \/ DeviceSaid(k, wire[k][i])'
    <2>1. PICK message : message = wire'[k][i]
      OBVIOUS
    <2>2. NodeSaid(k, message) \/ DeviceSaid(k, message)
      <3>1. CASE k = n
        <4>1. message = q[i] /\ i \in 1..Len(q)
          BY <1>2, <2>1, <3>1 DEF WireCore
        <4>2. CASE \E j \in 1..Len(wire[n]) : q[i] = wire[n][j]
          BY <3>1, <4>1, <4>2 DEF WireCore, WirePart
        <4> QED
          BY <3>1, <4>1, <4>2
      <3>2. CASE k # n
        <4>1. message = wire[k][i] /\ i \in 1..Len(wire[k])
          BY <1>2, <2>1, <3>2 DEF WireCore
        <4> QED
          BY <4>1 DEF WireCore, WirePart
      <3> QED
        BY <3>1, <3>2
    <2>3. NodeSaid(k, message)' \/ DeviceSaid(k, message)'
      BY <2>2, NodeSaidStays DEF DeviceSaid
    <2> QED
      BY <2>1, <2>3
  <1>3. WirePart'
    BY <1>2 DEF WirePart
  <1> QED
    BY <1>1, <1>3 DEF WireCore

LEMMA WireStays ==
  ASSUME WireCore, UNCHANGED <<own, wire>>, Keeps
  PROVE  WireCore'
  <1>1. ASSUME NEW k \in Nodes, NEW i \in 1..Len(wire[k])
        PROVE  NodeSaid(k, wire[k][i])' \/ DeviceSaid(k, wire[k][i])'
    <2>1. PICK message : message = wire[k][i] /\ message = wire'[k][i]
      OBVIOUS
    <2>2. NodeSaid(k, message) \/ DeviceSaid(k, message)
      BY <2>1 DEF WireCore, WirePart
    <2>3. NodeSaid(k, message)' \/ DeviceSaid(k, message)'
      BY <2>2, NodeSaidStays DEF DeviceSaid
    <2> QED
      BY <2>1, <2>3
  <1> QED
    BY <1>1 DEF WireCore, WirePart

LEMMA ForwardedKeeps ==
  ASSUME NEW q \in Seq(Messages), NEW message \in Messages
  PROVE  /\ Forwarded(q, message) \in Seq(Messages)
         /\ \A i \in 1..Len(Forwarded(q, message)) :
              \/ i \in 1..Len(q) /\ Forwarded(q, message)[i] = q[i]
              \/ Subscribed(message.levels) /\ Forwarded(q, message)[i] = message
  <1>1. CASE Subscribed(message.levels)
    BY <1>1, AppendProperties DEF Forwarded
  <1>2. CASE ~Subscribed(message.levels)
    BY <1>2 DEF Forwarded
  <1> QED
    BY <1>1, <1>2

LEMMA MessageSent ==
  ASSUME WireCore, NEW n \in Nodes, NEW message \in Messages,
         Subscribed(message.levels) =>
           NodeSaid(n, message) \/ DeviceSaid(n, message),
         NEW q \in Seq(Messages),
         \A i \in 1..Len(q) : \E j \in 1..Len(wire[n]) : q[i] = wire[n][j],
         wire' = [wire EXCEPT ![n] = Forwarded(q, message)], own' = own,
         Keeps
  PROVE  WireCore'
  <1> DEFINE f == Forwarded(q, message)
  <1>1. /\ f \in Seq(Messages)
        /\ \A i \in 1..Len(f) :
             \/ i \in 1..Len(q) /\ f[i] = q[i]
             \/ Subscribed(message.levels) /\ f[i] = message
    BY ForwardedKeeps
  <1> HIDE DEF f
  <1>2. \A i \in 1..Len(f) :
           \/ \E j \in 1..Len(wire[n]) : f[i] = wire[n][j]
           \/ NodeSaid(n, f[i])
           \/ DeviceSaid(n, f[i])
    BY <1>1
  <1>3. wire' = [wire EXCEPT ![n] = f]
    BY DEF f
  <1> QED
    BY <1>1, <1>2, <1>3, WireChanges

\* The message that arrives is one of the node, or of one of its devices.
LEMMA Arrival ==
  ASSUME WireCore, NEW n \in Nodes, NEW type, Arrives(n, type),
         UNCHANGED <<own, metrics, moved>>
  PROVE  /\ WireCore'
         /\ Head(wire[n]) \in Messages /\ parsing = Idle
         /\ \/ NodeSaid(n, Head(wire[n]))
            \/ DeviceSaid(n, Head(wire[n]))
  <1>1. wire[n] \in Seq(Messages) /\ wire[n] # <<>>
    BY DEF WireCore, Arrives
  <1>2. Head(wire[n]) = wire[n][1] /\ 1 \in 1..Len(wire[n])
    BY <1>1
  <1>3. /\ Tail(wire[n]) \in Seq(Messages)
        /\ \A i \in 1..Len(Tail(wire[n])) :
             \E j \in 1..Len(wire[n]) : Tail(wire[n])[i] = wire[n][j]
    <2>1. /\ Tail(wire[n]) \in Seq(Messages)
          /\ Len(Tail(wire[n])) = Len(wire[n]) - 1
          /\ \A i \in 1..Len(Tail(wire[n])) : Tail(wire[n])[i] = wire[n][i + 1]
      BY <1>1, HeadTailProperties
    <2>2. ASSUME NEW i \in 1..Len(Tail(wire[n]))
          PROVE  i + 1 \in 1..Len(wire[n])
      BY <1>1, <2>1
    <2> QED
      BY <2>1, <2>2
  <1>4. WireCore'
    BY <1>3, SameKeeps, WireChanges DEF Arrives
  <1>5. Head(wire[n]) \in Messages
    BY <1>1, HeadTailProperties
  <1>6. \/ NodeSaid(n, Head(wire[n]))
        \/ DeviceSaid(n, Head(wire[n]))
    BY <1>2 DEF WireCore, WirePart
  <1> QED
    BY <1>4, <1>5, <1>6 DEF Arrives

LEMMA NodeArrival ==
  ASSUME WireCore, NEW n \in Nodes, NEW type \in NodeMessageType,
         Arrives(n, type), UNCHANGED <<own, metrics, moved>>
  PROVE  /\ Head(wire[n]).levels = <<"spBv1.0", "Group", type, n>>
         /\ Head(wire[n]).levels \in Seq(Levels)
         /\ Head(wire[n]).entries \subseteq Entry
         /\ AllSaidOf(n, Head(wire[n]).entries)
         /\ type = "NCMD" /\ own # "" => own = n
         /\ NodeTopic(n) = <<n, "">>
  <1> DEFINE head == Head(wire[n])
  <1>1. /\ head \in Messages
        /\ NodeSaid(n, head) \/ DeviceSaid(n, head)
        /\ Topic(NewTopic, head.levels).type = type
    BY Arrival DEF Arrives
  <1> HIDE DEF head
  <1>2. ~DeviceSaid(n, head)
    BY <1>1, PartsOfDevice DEF DeviceSaid, NodeMessageType, DeviceMessageType
  <1>3. /\ head.levels = <<"spBv1.0", "Group", type, n>>
        /\ type = "NCMD" /\ own # "" => own = n
    <2>1. PICK ty \in NodeMessageType :
            /\ head.levels = <<"spBv1.0", "Group", ty, n>>
            /\ ty = "NCMD" /\ own # "" => own = n
      BY <1>1, <1>2 DEF NodeSaid
    <2>2. Topic(NewTopic, <<"spBv1.0", "Group", ty, n>>).type = ty
      BY PartsOfNode
    <2>3. ty = type
      BY <1>1, <2>1, <2>2
    <2> QED
      BY <2>1, <2>3
  <1>4. NodeTopic(n) = <<n, "">>
    <2>1. Topic(NewTopic, <<"spBv1.0", "Group", type, n>>).node = n
      BY PartsOfNode
    <2> QED
      BY <1>3, <2>1 DEF NodeTopic, Parts, head
  <1> QED
    BY <1>1, <1>2, <1>3, <1>4 DEF NodeSaid, Messages, head

LEMMA DeviceArrival ==
  ASSUME WireCore, NEW n \in Nodes, NEW type \in DeviceMessageType,
         Arrives(n, type), UNCHANGED <<own, metrics, moved>>
  PROVE  /\ NodeTopic(n) = <<n, "">>
         /\ \E d \in Devices : DeviceTopic(n) = <<n, d>>
  <1> DEFINE head == Head(wire[n])
  <1>1. /\ NodeSaid(n, head) \/ DeviceSaid(n, head)
        /\ Topic(NewTopic, head.levels).type = type
    BY Arrival DEF Arrives
  <1> HIDE DEF head
  <1>2. ~NodeSaid(n, head)
    <2>1. SUFFICES ASSUME NEW ty \in NodeMessageType,
                          head.levels = <<"spBv1.0", "Group", ty, n>>
                   PROVE  FALSE
      BY DEF NodeSaid
    <2>2. Topic(NewTopic, <<"spBv1.0", "Group", ty, n>>).type = ty
      BY PartsOfNode
    <2>3. ty = type
      BY <1>1, <2>1, <2>2
    <2> QED
      BY <2>3 DEF NodeMessageType, DeviceMessageType
  <1>3. PICK d \in Devices : head.levels = <<"spBv1.0", "Group", type, n, d>>
    BY <1>1, <1>2, PartsOfDevice DEF DeviceSaid
  <1>4. NodeTopic(n) = <<n, "">> /\ DeviceTopic(n) = <<n, d>>
    <2>1. Parts(n) = Topic(NewTopic, <<"spBv1.0", "Group", type, n, d>>)
      BY <1>3 DEF Parts, head
    <2>2. Parts(n).node = n /\ Parts(n).device = d
      BY <2>1, PartsOfDevice
    <2> QED
      BY <2>2 DEF NodeTopic, DeviceTopic
  <1> QED
    BY <1>4

-----------------------------------------------------------------------------
(* The steps of the senders. *)

\* The metrics of a node change.
LEMMA MetricsChange ==
  ASSUME NodesCore, NEW n \in Nodes, NEW p, IsPayload(p), Distinct(p),
         n \notin moved' => Extends(metrics[n], p) /\ PayloadOf(n, p, p),
         metrics' = [metrics EXCEPT ![n] = p],
         moved \subseteq moved', moved' \subseteq moved \union {n},
         UNCHANGED <<own, missed>>, phase' \in [Nodes -> {"new", "down", "up"}]
  PROVE  NodesCore' /\ Keeps
  <1>1. ASSUME NEW k \in Nodes
        PROVE  /\ IsPayload(metrics'[k]) /\ Distinct(metrics'[k])
               /\ k \notin moved' => /\ PayloadOf(k, metrics'[k], metrics'[k])
                                     /\ Extends(metrics[k], metrics'[k])
    <2>1. CASE k = n
      <3>1. metrics'[k] = p
        BY <2>1 DEF NodesCore
      <3> QED
        BY <2>1, <3>1
    <2>2. CASE k # n
      <3>1. metrics'[k] = metrics[k]
        BY <2>2 DEF NodesCore
      <3> QED
        BY <3>1 DEF NodesCore, Extends
    <2> QED
      BY <2>1, <2>2
  <1>2. DOMAIN metrics' = Nodes /\ moved' \subseteq Nodes
    BY DEF NodesCore
  <1> QED
    BY <1>1, <1>2 DEF NodesCore, Keeps

LEMMA MetricsStay ==
  ASSUME NodesCore, UNCHANGED <<own, metrics, missed, moved>>,
         phase' \in [Nodes -> {"new", "down", "up"}]
  PROVE  NodesCore' /\ Keeps
  BY SameKeeps DEF NodesCore

LEMMA ValueType ==
  ASSUME NEW n \in Nodes, NEW v \in Values
  PROVE  <<n, v[1], v[2]>> \in Value /\ v[1] \in Names
  <1>1. v[1] \in Names /\ v[2] \in Nat /\ v = <<v[1], v[2]>>
    <2>1. v \in Names \X Nat
      BY InboundAssumption
    <2> QED
      BY <2>1
  <1> QED
    BY <1>1 DEF Value

\* A Start moves numbers, or keeps those there are.
LEMMA StartStep ==
  ASSUME Core, NEW n \in Nodes, NodeStart(n)
  PROVE  Core'
  <1> DEFINE p == metrics[n]
             q == AssignAliasNumbers(p)
  <1>1. IsPayload(p) /\ DOMAIN p \in SUBSET Names
    BY DEF Core, NodesCore, IsPayload
  <1>2. q = [m \in DOMAIN p |-> [p[m] EXCEPT !.alias = Rank(DOMAIN p, m)]]
    BY DEF AssignAliasNumbers
  <1>3. /\ metrics' = [metrics EXCEPT ![n] = q] /\ metrics'[n] = q
        /\ moved' = IF Renumbered(p, q) THEN moved \union {n} ELSE moved
        /\ UNCHANGED <<own, births, parsing, wire, missed>>
        /\ phase' \in [Nodes -> {"new", "down", "up"}]
    BY DEF NodeStart, receiverVars, Core, NodesCore
  <1>4. n \notin moved => PayloadOf(n, p, p)
    BY DEF Core, NodesCore
  <1> HIDE DEF p, q
  <1>5. ASSUME NEW m \in DOMAIN p
        PROVE  /\ q[m] \in Metric /\ q[m].value = p[m].value
               /\ q[m].alias = Rank(DOMAIN p, m)
    <2>1. p[m] \in Metric /\ Rank(DOMAIN p, m) \in Nat
      BY <1>1, RankPositive DEF IsPayload
    <2>2. q[m] = [p[m] EXCEPT !.alias = Rank(DOMAIN p, m)]
      BY <1>2
    <2> QED
      BY <2>1, <2>2 DEF Metric
  <1>6. q = [m \in DOMAIN p |-> q[m]] /\ DOMAIN q = DOMAIN p
    BY <1>2
  <1>7. IsPayload(q)
    BY <1>1, <1>5, <1>6 DEF IsPayload
  <1>8. Distinct(q)
    BY <1>1, <1>5, <1>6, RankInjective DEF Distinct
  <1>9. ASSUME n \notin moved' PROVE Extends(p, q) /\ PayloadOf(n, q, q)
    <2>1. ~Renumbered(p, q) /\ n \notin moved
      BY <1>3, <1>9
    <2>2. Extends(p, q)
      BY <1>6, <2>1 DEF Renumbered, Extends
    <2>3. PayloadOf(n, q, q)
      BY <1>4, <1>5, <1>6, <1>7, <2>1 DEF PayloadOf, Numbered
    <2> QED
      BY <2>2, <2>3
  <1>10. NodesCore' /\ Keeps
    BY <1>3, <1>7, <1>8, <1>9, MetricsChange DEF p, Core
  <1> QED
    BY <1>3, <1>10, WireStays, BirthsStay, ParsingStays DEF Core

\* A message of the node about its metrics is sent.
LEMMA NodeSends ==
  ASSUME Core, NEW n \in Nodes, NEW type \in NodeMessageType,
         NEW entries \in SUBSET Entry, AllSaidOf(n, entries),
         NEW q \in Seq(Messages),
         \A i \in 1..Len(q) : \E j \in 1..Len(wire[n]) : q[i] = wire[n][j],
         wire' = [wire EXCEPT ![n] = Forwarded(q, Message(n, type, "", entries))],
         UNCHANGED receiverVars, NodesCore', Keeps
  PROVE  Core'
  <1> DEFINE message == Message(n, type, "", entries)
  <1>1. /\ message \in Messages /\ message.entries = entries
        /\ Subscribed(message.levels) =>
             /\ message.levels = <<"spBv1.0", "Group", type, n>>
             /\ type = "NCMD" /\ own # "" => own = n
    BY NodeNames
  <1>2. wire' = [wire EXCEPT ![n] = Forwarded(q, message)]
    OBVIOUS
  <1> HIDE DEF message
  <1>3. Subscribed(message.levels) => NodeSaid(n, message)
    BY <1>1 DEF NodeSaid
  <1>4. WireCore'
    BY <1>1, <1>2, <1>3, MessageSent DEF Core, receiverVars
  <1> QED
    BY <1>4, BirthsStay, ParsingStays DEF Core, receiverVars

\* The births, data, deaths and commands of a node.
LEMMA NodeMessageStep ==
  ASSUME Core, NEW n \in Nodes,
         \/ NodeBirth(n) \/ NodeData(n) \/ NodeDeath(n)
         \/ \E v \in Values : NodeCommand(n, v)
  PROVE  Core'
  <1> DEFINE p == metrics[n]
  <1>1. /\ IsPayload(p) /\ Distinct(p)
        /\ n \notin moved => PayloadOf(n, p, p)
    BY DEF Core, NodesCore
  <1>2. /\ wire[n] \in Seq(Messages)
        /\ \A i \in 1..Len(wire[n]) :
             \E j \in 1..Len(wire[n]) : wire[n][i] = wire[n][j]
    BY DEF Core, WireCore
  <1>3. ASSUME NEW all \in BOOLEAN, NEW type \in NodeMessageType,
               Send(n, Message(n, type, "", WriteProtobuf(p, all))),
               metrics' = [metrics EXCEPT ![n] = ResetUpdated(@, all)],
               UNCHANGED <<receiverVars, missed, moved>>,
               phase' \in [Nodes -> {"new", "down", "up"}]
        PROVE  Core'
    <2>1. Like(p, ResetUpdated(p, all))
      BY <1>1, ResetPayload
    <2>2. NodesCore' /\ Keeps
      <3> DEFINE r == ResetUpdated(p, all)
      <3>1. IsPayload(r) /\ Distinct(r) /\ Extends(p, r)
            /\ (n \notin moved => PayloadOf(n, r, r))
        BY <1>1, <2>1, LikePayload DEF Like
      <3> HIDE DEF r
      <3>2. metrics' = [metrics EXCEPT ![n] = r]
        BY <1>3 DEF r
      <3> QED
        BY <1>3, <3>1, <3>2, MetricsChange DEF receiverVars, Core
    <2>3. WriteProtobuf(p, all) \subseteq Entry /\ AllSaidOf(n, WriteProtobuf(p, all))
      BY <1>1, EncodedIsSaid DEF AllSaidOf
    <2> QED
      BY <1>2, <1>3, <2>2, <2>3, NodeSends DEF Send
  <1>4. CASE NodeBirth(n)
    <2>1. Documented(n) \in BOOLEAN /\ "NBIRTH" \in NodeMessageType
      BY InboundAssumption DEF Documented, NodeMessageType
    <2>2. phase' \in [Nodes -> {"new", "down", "up"}]
      BY <1>4 DEF NodeBirth, Core, NodesCore
    <2> QED
      BY <1>3, <1>4, <2>1, <2>2 DEF NodeBirth
  <1>5. CASE NodeData(n)
    <2>1. "NDATA" \in NodeMessageType
      BY DEF NodeMessageType
    <2>2. phase' \in [Nodes -> {"new", "down", "up"}]
      BY <1>5 DEF NodeData, Core, NodesCore
    <2> QED
      BY <1>3, <1>5, <2>1, <2>2 DEF NodeData
  <1>6. CASE NodeDeath(n)
    <2>1. "NDEATH" \in NodeMessageType /\ {} \in SUBSET Entry /\ AllSaidOf(n, {})
      BY DEF NodeMessageType, AllSaidOf
    <2>2. NodesCore' /\ Keeps
      BY <1>6, MetricsStay DEF NodeDeath, Core, NodesCore, receiverVars
    <2> QED
      BY <1>2, <1>6, <2>1, <2>2, NodeSends DEF NodeDeath, Send
  <1>7. CASE \E v \in Values : NodeCommand(n, v)
    <2>1. PICK v \in Values : NodeCommand(n, v)
      BY <1>7
    <2> DEFINE w == WriteMetric(p, v[1], FALSE)
               e == [w EXCEPT !.value = <<n, v[1], v[2]>>]
    <2>2. v[1] \in DOMAIN p /\ <<n, v[1], v[2]>> \in Value
      BY <2>1, ValueType DEF NodeCommand
    <2>3. w \in Entry
      BY <1>1, <2>2, WrittenIsEntry
    <2>4. n \notin moved => SaidOf(n, p, w) /\ w.value[2] = v[1]
      BY <1>1, <2>2, WrittenIsSaid DEF WriteMetric, PayloadOf
    <2>5. e \in Entry /\ (n \notin moved => SaidOf(n, p, e))
      <3> HIDE DEF w
      <3>1. /\ e \in Entry /\ e.name = w.name /\ e.alias = w.alias
            /\ e.value = <<n, v[1], v[2]>>
        BY <2>2, <2>3 DEF Entry
      <3> QED
        BY <2>2, <2>4, <3>1 DEF SaidOf
    <2>6. NodesCore' /\ Keeps
      BY <2>1, MetricsStay DEF NodeCommand, Core, NodesCore, receiverVars
    <2>7. "NCMD" \in NodeMessageType
      BY DEF NodeMessageType
    <2>8. wire' = [wire EXCEPT ![n] =
                     Forwarded(wire[n], Message(n, "NCMD", "", {e}))]
      BY <2>1 DEF NodeCommand, Send
    <2>9. UNCHANGED receiverVars
      BY <2>1 DEF NodeCommand
    <2> HIDE DEF e
    <2>10. {e} \in SUBSET Entry /\ AllSaidOf(n, {e})
      BY <2>5 DEF AllSaidOf
    <2> QED
      BY <1>2, <2>6, <2>7, <2>8, <2>9, <2>10, NodeSends
  <1> QED
    BY <1>4, <1>5, <1>6, <1>7

\* The will of a node whose last messages are lost.
LEMMA BreakStep ==
  ASSUME Core, NEW n \in Nodes, ConnectionBreaks(n)
  PROVE  Core'
  <1>1. PICK i \in 0..Len(wire[n]) :
          wire' = [wire EXCEPT ![n] = Forwarded(SubSeq(wire[n], 1, i),
                                                Message(n, "NDEATH", "", {}))]
    BY DEF ConnectionBreaks
  <1> DEFINE q == SubSeq(wire[n], 1, i)
  <1>2. wire[n] \in Seq(Messages) /\ i \in Nat /\ i <= Len(wire[n])
    BY DEF Core, WireCore
  <1>3. \A k \in 1..i : wire[n][k] \in Messages
    BY <1>2
  <1>4. q \in Seq(Messages) /\ Len(q) = i /\ \A k \in 1..i : q[k] = wire[n][k]
    BY <1>2, <1>3, SubSeqProperties
  <1> HIDE DEF q
  <1>5. \A k \in 1..Len(q) : \E j \in 1..Len(wire[n]) : q[k] = wire[n][j]
    BY <1>2, <1>4
  <1>6. NodesCore' /\ Keeps
    BY MetricsStay DEF ConnectionBreaks, Core, NodesCore, receiverVars
  <1>7. /\ "NDEATH" \in NodeMessageType /\ {} \in SUBSET Entry /\ AllSaidOf(n, {})
        /\ wire' = [wire EXCEPT ![n] = Forwarded(q, Message(n, "NDEATH", "", {}))]
        /\ UNCHANGED receiverVars
    BY <1>1 DEF NodeMessageType, q, ConnectionBreaks, AllSaidOf
  <1> QED
    BY <1>4, <1>5, <1>6, <1>7, NodeSends

LEMMA DeviceStep ==
  ASSUME Core, NEW n \in Nodes, NEW d \in Devices, NEW type \in DeviceMessageType,
         DeviceMessage(n, d, type)
  PROVE  Core'
  <1> DEFINE entries == DeviceEntries(n)
             message == Message(n, type, d, entries)
  <1>1. entries \in SUBSET Entry
    <2>1. ASSUME NEW v \in Values
          PROVE  [name |-> v[1], alias |-> 0, value |-> <<n, v[1], v[2]>>] \in Entry
      BY ValueType DEF Entry
    <2> QED
      BY <2>1 DEF DeviceEntries
  <1>2. /\ message \in Messages
        /\ Subscribed(message.levels) => DeviceSaid(n, message)
    BY <1>1, DeviceNames
  <1>3. wire' = [wire EXCEPT ![n] = Forwarded(wire[n], message)]
    BY DEF DeviceMessage, Send
  <1> HIDE DEF message
  <1>4. NodesCore' /\ Keeps /\ UNCHANGED receiverVars
    BY MetricsStay DEF DeviceMessage, Core, NodesCore, receiverVars
  <1>5. /\ wire[n] \in Seq(Messages)
        /\ \A i \in 1..Len(wire[n]) :
             \E j \in 1..Len(wire[n]) : wire[n][i] = wire[n][j]
    BY DEF Core, WireCore
  <1>6. WireCore'
    BY <1>2, <1>3, <1>4, <1>5, MessageSent DEF Core, receiverVars
  <1> QED
    BY <1>4, <1>6, BirthsStay, ParsingStays DEF Core, receiverVars

LEMMA WriteStep ==
  ASSUME Core, NEW n \in Nodes, NEW v \in Values, WriteMetricValue(n, v)
  PROVE  Core'
  <1> DEFINE p == metrics[n]
             x == v[1]
             new == SetValue(p[x], <<n, v[1], v[2]>>)
             q == [p EXCEPT ![x] = new]
  <1>1. /\ IsPayload(p) /\ Distinct(p) /\ x \in DOMAIN p /\ n \in DOMAIN metrics
        /\ n \notin moved => PayloadOf(n, p, p)
    BY DEF Core, NodesCore, WriteMetricValue
  <1>2. /\ new \in Metric /\ new.alias = p[x].alias
        /\ new.value = <<n, x, v[2]>>
    <2>1. p[x] \in [alias : Nat, value : Value \union {NoValue},
                   valid : BOOLEAN, updated : BOOLEAN]
      BY <1>1 DEF IsPayload, Metric
    <2> QED
      BY <2>1, ValueType, SetValueType
  <1>3. metrics' = [metrics EXCEPT ![n] = q]
    BY DEF WriteMetricValue
  <1> HIDE DEF new
  <1>4. q = [m \in DOMAIN p |-> IF m = x THEN new ELSE p[m]] /\ DOMAIN q = DOMAIN p
    BY <1>1 DEF IsPayload
  <1> HIDE DEF q
  <1>5. ASSUME NEW m \in DOMAIN p
        PROVE  /\ q[m] \in Metric /\ q[m].alias = p[m].alias
               /\ n \notin moved => q[m].value[1] = n /\ q[m].value[2] = m
    <2>1. CASE m = x
      BY <1>2, <1>4, <2>1
    <2>2. CASE m # x
      BY <1>1, <1>4, <2>2 DEF PayloadOf, IsPayload
    <2> QED
      BY <2>1, <2>2
  <1>6. /\ UNCHANGED <<own, births, parsing, wire, missed, moved>>
        /\ phase' \in [Nodes -> {"new", "down", "up"}]
    BY DEF WriteMetricValue, receiverVars, Core, NodesCore
  <1> HIDE DEF p
  <1>7. IsPayload(q) /\ Distinct(q) /\ Extends(p, q)
    <2>1. q = [m \in DOMAIN p |-> q[m]]
      BY <1>4
    <2>2. IsPayload(q)
      BY <1>1, <1>4, <1>5, <2>1 DEF IsPayload
    <2> QED
      BY <1>1, <1>4, <1>5, <2>2 DEF Distinct, Extends
  <1>8. n \notin moved => PayloadOf(n, q, q)
    BY <1>4, <1>5, <1>7 DEF PayloadOf, Numbered
  <1>9. NodesCore' /\ Keeps
    BY <1>3, <1>6, <1>7, <1>8, MetricsChange DEF Core, p
  <1> QED
    BY <1>6, <1>9, WireStays, BirthsStay, ParsingStays DEF Core

\* A new metric has no number, and moves none.
LEMMA AddStep ==
  ASSUME Core, NEW n \in Nodes, NEW v \in Values, AddMetric(n, v)
  PROVE  Core'
  <1> DEFINE p == metrics[n]
             x == v[1]
             new == SetValue(NewMetric, <<n, v[1], v[2]>>)
             q == Insert(p, x, new)
  <1>1. /\ IsPayload(p) /\ Distinct(p) /\ x \in Names /\ x \notin DOMAIN p
        /\ n \notin moved => PayloadOf(n, p, p)
    BY ValueType DEF Core, NodesCore, AddMetric
  <1>2. new \in Metric /\ new.alias = 0 /\ new.value = <<n, x, v[2]>>
    <2>1. /\ NewMetric \in [alias : Nat, value : Value \union {NoValue},
                            valid : BOOLEAN, updated : BOOLEAN]
          /\ NewMetric.alias = 0
      BY DEF NewMetric
    <2> QED
      BY <2>1, ValueType, SetValueType
  <1>3. metrics' = [metrics EXCEPT ![n] = q]
    BY DEF AddMetric
  <1> HIDE DEF new
  <1>4. q = [m \in DOMAIN p \union {x} |-> IF m \in DOMAIN p THEN p[m] ELSE new]
    BY DEF Insert
  <1> HIDE DEF q
  <1>5. DOMAIN q = DOMAIN p \union {x} /\ q = [m \in DOMAIN q |-> q[m]]
    BY <1>4
  <1>6. /\ UNCHANGED <<own, births, parsing, wire, missed, moved>>
        /\ phase' \in [Nodes -> {"new", "down", "up"}]
    BY DEF AddMetric, receiverVars, Core, NodesCore
  <1>7. /\ q[x] = new
        /\ \A m \in DOMAIN p : q[m] = p[m]
    BY <1>1, <1>4, <1>5
  <1> HIDE DEF p, x
  <1>8. IsPayload(q)
    <2>1. DOMAIN p \subseteq Names /\ \A m \in DOMAIN p : p[m] \in Metric
      BY <1>1 DEF IsPayload
    <2>2. \A m \in DOMAIN q : q[m] \in Metric /\ m \in Names
      BY <1>1, <1>2, <1>5, <1>7, <2>1
    <2> QED
      BY <1>5, <2>2 DEF IsPayload
  <1>9. Distinct(q) /\ Extends(p, q)
    BY <1>1, <1>2, <1>5, <1>7 DEF Distinct, Extends
  <1>10. ASSUME n \notin moved PROVE PayloadOf(n, q, q)
    <2>1. q[x].value[1] = n /\ q[x].value[2] = x
      BY <1>2, <1>7
    <2>2. \A m \in DOMAIN q : q[m].value[1] = n /\ q[m].value[2] = m
      BY <1>1, <1>5, <1>7, <1>10, <2>1 DEF PayloadOf
    <2> QED
      BY <1>8, <2>2 DEF PayloadOf, Numbered
  <1>11. NodesCore' /\ Keeps
    BY <1>3, <1>6, <1>8, <1>9, <1>10, MetricsChange DEF Core, p
  <1> QED
    BY <1>6, <1>11, WireStays, BirthsStay, ParsingStays DEF Core

LEMMA LossStep ==
  ASSUME Core, NEW n \in Nodes, MessagesLost(n)
  PROVE  Core'
  <1>1. NodesCore' /\ Keeps /\ UNCHANGED receiverVars
    BY SameKeeps DEF MessagesLost, Core, NodesCore, receiverVars
  <1>2. <<>> \in Seq(Messages) /\ Len(<<>>) = 0 /\ 1..0 = {}
    OBVIOUS
  <1>3. WireCore'
    <2>1. wire' = [wire EXCEPT ![n] = <<>>]
      BY DEF MessagesLost
    <2>2. \A i \in 1..Len(<<>>) : FALSE
      BY <1>2
    <2> QED
      BY <1>1, <1>2, <2>1, <2>2, WireChanges DEF Core, receiverVars
  <1> QED
    BY <1>1, <1>3, BirthsStay, ParsingStays DEF Core, receiverVars

-----------------------------------------------------------------------------
(* The steps of the receiver. *)

LEMMA NodeBirthTopic ==
  ASSUME NEW n \in Nodes
  PROVE  /\ Publish(<<n, "">>) <=> n = own
         /\ Known(<<n, "">>) /\ n # own => <<n, "">> \in DOMAIN births
         /\ own # "" => Known(<<own, "">>)
         /\ n = own => own # ""
  <1>1. <<n, "">>[1] = n /\ <<n, "">>[2] = ""
    OBVIOUS
  <1>2. <<n, "">> = <<own, "">> => n = own
    OBVIOUS
  <1>3. n # ""
    BY InboundAssumption
  <1> QED
    BY <1>1, <1>2, <1>3 DEF Publish, Known

\* New birth topics are empty, and none is the receiver's own.
LEMMA CreatedBirths ==
  ASSUME Core, NEW topics \in SUBSET Topics,
         \A t \in topics : t[1] = own => t[2] = "",
         births' = Created(topics), UNCHANGED <<own, metrics, moved>>
  PROVE  /\ BirthsCore' /\ DOMAIN births \subseteq DOMAIN births'
         /\ \A t \in topics : t[1] # own => t \in DOMAIN births'
  <1> DEFINE made == {t \in topics : ~Known(t)}
  <1>1. /\ DOMAIN births' = DOMAIN births \union made
        /\ \A t \in DOMAIN births' :
             births'[t] = IF t \in DOMAIN births THEN births[t] ELSE <<>>
    BY DEF Created
  <1>2. ASSUME NEW t \in made PROVE t \in Topics /\ t[1] # own
    <2>1. t \in topics /\ t \in Topics /\ ~Known(t)
      OBVIOUS
    <2>2. t[1] \in Nodes /\ t = <<t[1], t[2]>>
      BY <2>1, TopicParts
    <2>3. SUFFICES ASSUME t[1] = own PROVE FALSE
      BY <2>1
    <2>4. t = <<own, "">> /\ own # ""
      BY <2>1, <2>2, <2>3, InboundAssumption
    <2> QED
      BY <2>1, <2>4 DEF Known
  <1>3. \A t \in topics : t[1] # own => t \in DOMAIN births \/ t \in made
    <2>1. ASSUME NEW t \in topics, t[1] # own, t \notin DOMAIN births
          PROVE  ~Known(t)
      <3>1. t # <<own, "">>
        BY <2>1, Pair
      <3> QED
        BY <2>1, <3>1 DEF Known
    <2> QED
      BY <2>1
  <1> HIDE DEF made
  <1>4. ASSUME NEW t \in DOMAIN births'
        PROVE  /\ t \in Topics /\ t[1] # own
               /\ t[2] # "" => DOMAIN births'[t] = {}
               /\ IsPayload(births'[t])
               /\ t[1] \notin moved => PayloadOf(t[1], metrics[t[1]], births'[t])
    <2>1. CASE t \in DOMAIN births
      BY <1>1, <2>1 DEF Core, BirthsCore
    <2>2. CASE t \notin DOMAIN births
      <3>1. births'[t] = <<>> /\ t \in made
        BY <1>1, <2>2
      <3> QED
        BY <1>2, <3>1, NoPayload
    <2> QED
      BY <2>1, <2>2
  <1> QED
    BY <1>1, <1>3, <1>4 DEF BirthsCore

\* The parser is given a message of a node for the right payload.
LEMMA ParsingBegins ==
  ASSUME Core, NEW n \in Nodes, NEW create \in BOOLEAN, NEW message,
         message.levels \in Seq(Levels), message.entries \subseteq Entry,
         AllSaidOf(n, message.entries),
         n # own => <<n, "">> \in DOMAIN births',
         n = own => /\ ~create
                    /\ message.levels = <<"spBv1.0", "Group", "NCMD", own>>,
         Parse(<<n, "">>, create, message), UNCHANGED <<own, metrics, moved>>
  PROVE  ParsingCore'
  <1>1. Idle \in [topic : Topics \union {<<>>}, create : BOOLEAN,
                 entries : SUBSET Entry, from : Seq(Levels)]
    BY IdleType
  <1>2. CASE message.entries = {}
    BY <1>1, <1>2 DEF Parse, ParsingCore, ParsingPart
  <1>3. CASE message.entries # {}
    <2>1. parsing' = [topic |-> <<n, "">>, create |-> create,
                      entries |-> message.entries, from |-> message.levels]
      BY <1>3 DEF Parse
    <2>2. /\ parsing'.topic = <<n, "">> /\ parsing'.create = create
          /\ parsing'.entries = message.entries /\ parsing'.from = message.levels
      BY <2>1
    <2>3. <<n, "">> \in Topics
      BY DEF Topics
    <2>4. parsing' \in [topic : Topics \union {<<>>}, create : BOOLEAN,
                       entries : SUBSET Entry, from : Seq(Levels)]
      BY <2>1, <2>3
    <2>5. ParsingPart'
      BY <2>2 DEF ParsingPart, AllSaidOf
    <2> QED
      BY <2>2, <2>4, <2>5 DEF ParsingCore
  <1> QED
    BY <1>2, <1>3

\* The death of a node, or of a device, marks what there is.
LEMMA InvalidBirths ==
  ASSUME Core, NEW t \in DOMAIN births,
         births' = [births EXCEPT ![t] = SetAllMetricsInvalid(@)],
         UNCHANGED <<own, metrics, moved>>
  PROVE  BirthsCore' /\ DOMAIN births' = DOMAIN births
  <1> DEFINE q == SetAllMetricsInvalid(births[t])
  <1>1. /\ IsPayload(q) /\ DOMAIN q = DOMAIN births[t]
        /\ t[1] \notin moved => PayloadOf(t[1], metrics[t[1]], q)
    <2>1. Like(births[t], q)
      BY InvalidPayload DEF Core, BirthsCore
    <2> QED
      BY <2>1, LikePayload DEF Core, BirthsCore, Like
  <1>2. births' = [births EXCEPT ![t] = q]
    OBVIOUS
  <1> HIDE DEF q
  <1>3. \A u \in DOMAIN births : births'[u] = IF u = t THEN q ELSE births[u]
    BY <1>2
  <1> QED
    BY <1>1, <1>2, <1>3 DEF Core, BirthsCore

LEMMA ReceiveStep ==
  ASSUME Core, NEW n \in Nodes, Receive(n)
  PROVE  Core'
  <1>1. UNCHANGED <<own, metrics, phase, moved>> /\ \E type : Arrives(n, type)
    BY DEF Receive, Arrives, HandleNodeBirthMessage, HandleNodeDeathMessage,
           HandleNodeCommandMessage, HandleNodeDataMessage,
           HandleDeviceBirthMessage, HandleDeviceDeathMessage,
           HandleDeviceCommandMessage, HandleDeviceDataMessage
  <1>2. missed' \subseteq missed
    BY DEF Receive, HandleNodeBirthMessage, HandleNodeDeathMessage,
           HandleNodeCommandMessage, HandleNodeDataMessage,
           HandleDeviceBirthMessage, HandleDeviceDeathMessage,
           HandleDeviceCommandMessage, HandleDeviceDataMessage, HandleDeviceWrite
  <1>3. NodesCore' /\ Keeps
    BY <1>1, <1>2, SameKeeps DEF Core, NodesCore
  <1>4. WireCore'
    BY <1>1, Arrival DEF Core
  <1> DEFINE said(type) ==
        /\ Head(wire[n]).levels = <<"spBv1.0", "Group", type, n>>
        /\ Head(wire[n]).levels \in Seq(Levels)
        /\ Head(wire[n]).entries \subseteq Entry
        /\ AllSaidOf(n, Head(wire[n]).entries)
        /\ NodeTopic(n) = <<n, "">>
  <1>6. ASSUME NEW type \in NodeMessageType, Arrives(n, type)
        PROVE  said(type) /\ (type = "NCMD" /\ own # "" => own = n)
    BY <1>1, <1>6, NodeArrival DEF Core
  <1>7. <<n, "">> \in Topics /\ \A d \in Devices : <<n, d>> \in Topics /\ d # ""
    BY InboundAssumption DEF Topics
  <1> HIDE DEF said
  <1>8. CASE HandleNodeBirthMessage(n)
    <2>1. Arrives(n, "NBIRTH") /\ "NBIRTH" \in NodeMessageType
      BY <1>8 DEF HandleNodeBirthMessage, NodeMessageType
    <2>2. said("NBIRTH")
      BY <1>6, <2>1
    <2>3. births' = Created({<<n, "">>})
      BY <1>8, <2>2 DEF HandleNodeBirthMessage, said
    <2>4. /\ BirthsCore' /\ DOMAIN births \subseteq DOMAIN births'
          /\ n # own => <<n, "">> \in DOMAIN births'
      <3>1. {<<n, "">>} \in SUBSET Topics /\ <<n, "">>[1] = n /\ <<n, "">>[2] = ""
        BY <1>7
      <3> QED
        BY <1>1, <2>3, <3>1, CreatedBirths
    <2>5. CASE n = own
      <3>1. UNCHANGED parsing
        BY <1>8, <2>2, <2>5, NodeBirthTopic DEF HandleNodeBirthMessage, said
      <3> QED
        BY <1>1, <1>3, <1>4, <2>4, <3>1, ParsingStays DEF Core
    <2>6. CASE n # own
      <3>1. Parse(<<n, "">>, TRUE, Head(wire[n]))
        BY <1>8, <2>2, <2>6, NodeBirthTopic DEF HandleNodeBirthMessage, said
      <3>2. ParsingCore'
        BY <1>1, <2>2, <2>4, <2>6, <3>1, ParsingBegins DEF said
      <3> QED
        BY <1>3, <1>4, <2>4, <3>2 DEF Core
    <2> QED
      BY <2>5, <2>6
  <1>9. CASE HandleNodeDeathMessage(n)
    <2>1. BirthsCore' /\ DOMAIN births' = DOMAIN births
      <3>1. CASE NodeTopic(n) \in DOMAIN births /\ ~Publish(NodeTopic(n))
        <4>1. births' = [births EXCEPT ![NodeTopic(n)] = SetAllMetricsInvalid(@)]
          BY <1>9, <3>1 DEF HandleNodeDeathMessage, Known
        <4> QED
          BY <1>1, <3>1, <4>1, InvalidBirths
      <3>2. CASE ~(NodeTopic(n) \in DOMAIN births /\ ~Publish(NodeTopic(n)))
        <4>1. births' = births
          <5>1. Publish(<<own, "">>)
            BY DEF Publish
          <5> QED
            BY <1>9, <3>2, <5>1 DEF HandleNodeDeathMessage, Known
        <4> QED
          BY <1>1, <1>3, <4>1, BirthsStay DEF Core
      <3> QED
        BY <3>1, <3>2
    <2>2. UNCHANGED parsing
      BY <1>9 DEF HandleNodeDeathMessage
    <2> QED
      BY <1>1, <1>3, <1>4, <2>1, <2>2, ParsingStays DEF Core
  <1>10. CASE HandleNodeCommandMessage(n)
    <2>1. Arrives(n, "NCMD") /\ "NCMD" \in NodeMessageType /\ births' = births
      BY <1>10 DEF HandleNodeCommandMessage, NodeMessageType
    <2>2. said("NCMD") /\ (own # "" => own = n)
      BY <1>6, <2>1
    <2>3. BirthsCore'
      BY <1>1, <1>3, <2>1, BirthsStay DEF Core
    <2>4. CASE Parse(<<own, "">>, FALSE, Head(wire[n])) /\ own # ""
      <3>1. Parse(<<n, "">>, FALSE, Head(wire[n])) /\ n = own
        BY <2>2, <2>4
      <3>2. ParsingCore'
        BY <1>1, <2>2, <3>1, ParsingBegins DEF said
      <3> QED
        BY <1>3, <1>4, <2>3, <3>2 DEF Core
    <2>5. CASE UNCHANGED parsing
      BY <1>1, <1>3, <1>4, <2>1, <2>3, <2>5, ParsingStays DEF Core
    <2> QED
      BY <1>10, <2>4, <2>5 DEF HandleNodeCommandMessage
  <1>11. CASE HandleNodeDataMessage(n)
    <2>1. Arrives(n, "NDATA") /\ "NDATA" \in NodeMessageType /\ births' = births
      BY <1>11 DEF HandleNodeDataMessage, NodeMessageType
    <2>2. said("NDATA")
      BY <1>6, <2>1
    <2>3. BirthsCore'
      BY <1>1, <1>3, <2>1, BirthsStay DEF Core
    <2>4. CASE Known(NodeTopic(n)) /\ ~Publish(NodeTopic(n))
      <3>1. Parse(<<n, "">>, FALSE, Head(wire[n]))
        BY <1>11, <2>2, <2>4 DEF HandleNodeDataMessage, said
      <3>2. n # own /\ <<n, "">> \in DOMAIN births'
        BY <2>1, <2>2, <2>4, NodeBirthTopic DEF said
      <3>3. ParsingCore'
        BY <1>1, <2>2, <3>1, <3>2, ParsingBegins DEF said
      <3> QED
        BY <1>3, <1>4, <2>3, <3>3 DEF Core
    <2>5. CASE ~(Known(NodeTopic(n)) /\ ~Publish(NodeTopic(n)))
      <3>1. UNCHANGED parsing
        BY <1>11, <2>5 DEF HandleNodeDataMessage
      <3> QED
        BY <1>1, <1>3, <1>4, <2>1, <2>3, <3>1, ParsingStays DEF Core
    <2> QED
      BY <2>4, <2>5
  <1>12. CASE \E type \in DeviceMessageType : Arrives(n, type)
    <2>1. PICK d \in Devices : NodeTopic(n) = <<n, "">> /\ DeviceTopic(n) = <<n, d>>
      BY <1>1, <1>12, DeviceArrival DEF Core
    <2>2. Publish(<<n, d>>) /\ (Publish(<<n, "">>) <=> n = own)
      BY <1>7, NodeBirthTopic DEF Publish
    <2>3. /\ UNCHANGED parsing
          /\ \/ UNCHANGED births
             \/ \E topics \in SUBSET Topics :
                  /\ \A t \in topics : t[1] = own => t[2] = ""
                  /\ births' = Created(topics)
      <3>1. CASE HandleDeviceBirthMessage(n)
        <4>1. /\ UNCHANGED parsing
              /\ births' = Created(IF n = own THEN {<<n, "">>}
                                   ELSE {<<n, "">>, <<n, d>>})
          BY <2>1, <2>2, <3>1 DEF HandleDeviceBirthMessage
        <4>2. CASE n = own
          <5>1. /\ births' = Created({<<n, "">>}) /\ {<<n, "">>} \in SUBSET Topics
                /\ \A t \in {<<n, "">>} : t[2] = ""
            BY <1>7, <4>1, <4>2, Pair
          <5> QED
            BY <4>1, <5>1
        <4>3. CASE n # own
          <5>1. /\ births' = Created({<<n, "">>, <<n, d>>})
                /\ {<<n, "">>, <<n, d>>} \in SUBSET Topics
            BY <1>7, <4>1, <4>3
          <5>2. \A t \in {<<n, "">>, <<n, d>>} : t[1] # own
            BY <4>3, Pair
          <5> QED
            BY <4>1, <5>1, <5>2
        <4> QED
          BY <4>2, <4>3
      <3>2. CASE HandleDeviceDeathMessage(n)
        BY <2>1, <2>2, <3>2 DEF HandleDeviceDeathMessage
      <3>3. CASE HandleDeviceCommandMessage(n) \/ HandleDeviceDataMessage(n)
        <4>1. UNCHANGED parsing /\ births' = Created({<<n, "">>})
          BY <2>1, <2>2, <3>3 DEF HandleDeviceCommandMessage,
               HandleDeviceDataMessage, HandleDeviceWrite
        <4>2. {<<n, "">>} \in SUBSET Topics /\ <<n, "">>[2] = ""
          BY <1>7
        <4> QED
          BY <4>1, <4>2
      <3> QED
        BY <1>12, <3>1, <3>2, <3>3 DEF Receive, HandleNodeBirthMessage,
             HandleNodeDeathMessage, HandleNodeCommandMessage,
             HandleNodeDataMessage, Arrives, DeviceMessageType
    <2>4. BirthsCore' /\ DOMAIN births \subseteq DOMAIN births'
      BY <1>1, <1>3, <2>3, BirthsStay, CreatedBirths DEF Core
    <2> QED
      BY <1>1, <1>3, <1>4, <2>3, <2>4, ParsingStays DEF Core
  <1> QED
    <2>1. /\ HandleDeviceBirthMessage(n) => Arrives(n, "DBIRTH")
          /\ HandleDeviceDeathMessage(n) => Arrives(n, "DDEATH")
          /\ HandleDeviceCommandMessage(n) => Arrives(n, "DCMD")
          /\ HandleDeviceDataMessage(n) => Arrives(n, "DDATA")
      BY DEF HandleDeviceBirthMessage, HandleDeviceDeathMessage,
             HandleDeviceCommandMessage, HandleDeviceDataMessage
    <2> QED
      BY <1>8, <1>9, <1>10, <1>11, <1>12, <2>1 DEF Receive, DeviceMessageType

LEMMA ParseStep ==
  ASSUME Core, ParseProtobuf
  PROVE  Core'
  <1>1. PICK e \in parsing.entries :
          /\ parsing' = IF parsing.entries = {e} THEN Idle
                        ELSE [parsing EXCEPT !.entries = @ \ {e}]
          /\ IF parsing.topic[1] = own
             THEN /\ metrics' = [metrics EXCEPT ![own] =
                                   ParseEntry(@, e, parsing.create)]
                  /\ UNCHANGED births
             ELSE /\ births' = [births EXCEPT ![parsing.topic] =
                                  ParseEntry(@, e, parsing.create)]
                  /\ UNCHANGED metrics
          /\ UNCHANGED <<own, phase, wire, missed, moved>>
    BY DEF ParseProtobuf
  <1>2. parsing # Idle /\ e \in Entry /\ parsing.create \in BOOLEAN
    <2>1. parsing.entries \in SUBSET Entry /\ parsing.create \in BOOLEAN
      BY DEF Core, ParsingCore
    <2> QED
      BY <2>1, IdleType
  <1>3. PICK n \in Nodes :
          /\ parsing.topic = <<n, "">>
          /\ AllSaidOf(n, parsing.entries)
          /\ n = own => /\ ~parsing.create
                        /\ parsing.from = <<"spBv1.0", "Group", "NCMD", own>>
          /\ n # own => <<n, "">> \in DOMAIN births
    BY <1>2 DEF Core, ParsingCore, ParsingPart
  <1>4. parsing.topic[1] = n
    <2>1. <<n, "">>[1] = n
      BY Pair
    <2> QED
      BY <1>3, <2>1
  <1>5. n \notin moved => SaidOf(n, metrics[n], e)
    BY <1>3 DEF AllSaidOf
  <1>6. IsPayload(metrics[n]) /\ Distinct(metrics[n])
        /\ (n \notin moved => PayloadOf(n, metrics[n], metrics[n]))
    BY DEF Core, NodesCore
  <1>7. NodesCore' /\ BirthsCore' /\ Keeps /\ DOMAIN births' = DOMAIN births
    <2>1. CASE n = own
      <3> DEFINE p == metrics[n]
                 q == ParseEntry(p, e, parsing.create)
      <3>1. /\ IsPayload(q) /\ DOMAIN q = DOMAIN p
            /\ \A m \in DOMAIN p : q[m].alias = p[m].alias
        BY <1>2, <1>3, <1>6, <2>1, ParsedType
      <3>2. n \notin moved => PayloadOf(n, p, q)
        BY <1>2, <1>5, <1>6, ParsedPayload
      <3>3. metrics' = [metrics EXCEPT ![n] = q] /\ UNCHANGED births
        BY <1>1, <1>4, <2>1
      <3> HIDE DEF q, p
      <3>4. /\ Distinct(q) /\ Extends(p, q)
            /\ n \notin moved => PayloadOf(n, q, q)
        BY <1>6, <3>1, <3>2 DEF Distinct, Extends, PayloadOf, Numbered, p
      <3>5. NodesCore' /\ Keeps
        BY <1>1, <3>1, <3>3, <3>4, MetricsChange DEF Core, NodesCore, p
      <3> QED
        BY <1>1, <3>3, <3>5, BirthsStay DEF Core
    <2>2. CASE n # own
      <3> DEFINE t == <<n, "">>
                 q == ParseEntry(births[t], e, parsing.create)
      <3>1. t \in DOMAIN births /\ t[1] = n /\ t[2] = ""
        BY <1>3, <2>2, Pair
      <3>2. /\ IsPayload(births[t])
            /\ n \notin moved => PayloadOf(n, metrics[n], births[t])
        BY <3>1 DEF Core, BirthsCore
      <3>3. IsPayload(q)
        BY <1>2, <3>2, ParsedType
      <3>4. n \notin moved => PayloadOf(n, metrics[n], q)
        BY <1>2, <1>5, <1>6, <3>2, ParsedPayload
      <3>5. births' = [births EXCEPT ![t] = q] /\ UNCHANGED metrics
        BY <1>1, <1>3, <1>4, <2>2
      <3> HIDE DEF q, t
      <3>6. NodesCore' /\ Keeps
        BY <1>1, <3>5, MetricsStay DEF Core, NodesCore
      <3>7. /\ DOMAIN births' = DOMAIN births
            /\ \A u \in DOMAIN births : births'[u] = IF u = t THEN q ELSE births[u]
        BY <3>5
      <3>8. ASSUME NEW u \in DOMAIN births
            PROVE  /\ u[1] # own
                   /\ u[2] # "" => DOMAIN births'[u] = {}
                   /\ IsPayload(births'[u])
                   /\ u[1] \notin moved => PayloadOf(u[1], metrics[u[1]], births'[u])
        <4>1. CASE u = t
          BY <2>2, <3>1, <3>3, <3>4, <3>7, <4>1
        <4>2. CASE u # t
          BY <3>7, <4>2 DEF Core, BirthsCore
        <4> QED
          BY <4>1, <4>2
      <3>9. BirthsCore'
        BY <1>1, <3>5, <3>7, <3>8 DEF Core, BirthsCore
      <3> QED
        BY <3>6, <3>7, <3>9
    <2> QED
      BY <2>1, <2>2
  <1>8. WireCore'
    BY <1>1, <1>7, WireStays DEF Core
  <1>9. ParsingCore'
    <2>1. CASE parsing.entries = {e}
      <3>1. parsing' = Idle
        BY <1>1, <2>1
      <3> QED
        BY <3>1, IdleType DEF ParsingCore, ParsingPart
    <2>2. CASE parsing.entries # {e}
      <3>1. /\ parsing' = [parsing EXCEPT !.entries = @ \ {e}]
            /\ parsing' \in [topic : Topics \union {<<>>}, create : BOOLEAN,
                            entries : SUBSET Entry, from : Seq(Levels)]
        BY <1>1, <2>2 DEF Core, ParsingCore
      <3>2. /\ parsing'.topic = parsing.topic /\ parsing'.create = parsing.create
            /\ parsing'.from = parsing.from
            /\ parsing'.entries \subseteq parsing.entries
        BY <3>1 DEF Core, ParsingCore
      <3>3. AllSaidOf(n, parsing.entries)'
        <4>1. PICK es : es = parsing.entries
          OBVIOUS
        <4>2. AllSaidOf(n, es)'
          BY <1>3, <1>7, <4>1, SaidStays
        <4> QED
          BY <3>2, <4>1, <4>2 DEF AllSaidOf
      <3>4. ParsingPart'
        BY <1>1, <1>3, <1>7, <3>2, <3>3 DEF ParsingPart
      <3>5. parsing'.topic \in DOMAIN births' \union {<<own', "">>}
        BY <1>1, <1>3, <1>7, <3>2
      <3> QED
        BY <3>1, <3>4, <3>5 DEF ParsingCore
    <2> QED
      BY <2>1, <2>2
  <1> QED
    BY <1>7, <1>8, <1>9 DEF Core

LEMMA CoreStep ==
  ASSUME Core, [Next]_vars
  PROVE  Core'
  <1>1. ASSUME NEW n \in Nodes, Sender(n) PROVE Core'
    BY <1>1, StartStep, NodeMessageStep, BreakStep, DeviceStep, WriteStep,
       AddStep DEF Sender
  <1>2. CASE UNCHANGED vars
    <2>1. UNCHANGED <<own, births, parsing, metrics, phase, wire, missed, moved>>
      BY <1>2 DEF vars, receiverVars, senderVars
    <2>2. NodesCore' /\ Keeps
      BY <2>1, SameKeeps DEF Core, NodesCore
    <2> QED
      BY <2>1, <2>2, WireStays, BirthsStay, ParsingStays DEF Core
  <1> QED
    BY <1>1, <1>2, ReceiveStep, LossStep, ParseStep DEF Next

-----------------------------------------------------------------------------
(* Numbers, messages, the payload under the parser and the births of a node *)
(* agree on which metric is meant, until a Start gives one of its metrics    *)
(* another number: the handlers of SparkplugNode::Message, ParseProtobuf and *)
(* SparkplugNode::AssignAliasNumbers.                                        *)
THEOREM InboundInvariant == Spec => []IInv
  <1>1. Core /\ [Next]_vars => Core'
    BY CoreStep
  <1> QED
    BY <1>1, InitCore, CoreIsIInv, PTL DEF Spec

(* The receiver and the senders stay in the states of the model's types.     *)
THEOREM InboundTypes == Spec => []TypeOK
  <1>1. IInv => TypeOK
    BY DEF IInv
  <1> QED
    BY <1>1, InboundInvariant, PTL

(* Only a Start that moves a number mixes values up: until a node has done   *)
(* that, none of its values lands on another metric than the one it was      *)
(* written to, at the node or at the receiver, whatever is lost.             *)
THEOREM ValuesAreNotMixedUp == Spec => []OnlyRenumberingMixesUp
  <1>1. IInv => OnlyRenumberingMixesUp
    BY DEF IInv
  <1> QED
    BY <1>1, InboundInvariant, PTL

(* A node's own metrics are only overwritten by a command that names it,    *)
(* although its births and data come back to it.                            *)
THEOREM OwnMetricsAreSafe == Spec => OwnMetricsObeyCommands
  <1> DEFINE A == own # "" /\ parsing' # parsing /\ metrics'[own] # metrics[own]
                    => parsing.from = <<"spBv1.0", "Group", "NCMD", own>>
  <1>1. Core /\ [Next]_vars => [A]_vars
    <2> SUFFICES ASSUME Core, Next, parsing' # parsing,
                        metrics'[own] # metrics[own]
                 PROVE  parsing.from = <<"spBv1.0", "Group", "NCMD", own>>
      BY DEF vars, receiverVars
    <2>1. ParseProtobuf
      BY DEF Next, Sender, NodeStart, NodeBirth, NodeData, NodeDeath,
             ConnectionBreaks, AddMetric, WriteMetricValue, NodeCommand,
             DeviceMessage, MessagesLost, receiverVars, Receive, Arrives,
             HandleNodeBirthMessage, HandleNodeDeathMessage,
             HandleNodeCommandMessage, HandleNodeDataMessage,
             HandleDeviceBirthMessage, HandleDeviceDeathMessage,
             HandleDeviceCommandMessage, HandleDeviceDataMessage
    <2>2. parsing # Idle /\ parsing.topic[1] = own
      BY <2>1 DEF ParseProtobuf, Idle
    <2>3. PICK n \in Nodes :
            /\ parsing.topic = <<n, "">>
            /\ n = own => parsing.from = <<"spBv1.0", "Group", "NCMD", own>>
      BY <2>2 DEF Core, ParsingCore, ParsingPart
    <2>4. <<n, "">>[1] = n
      BY Pair
    <2> QED
      BY <2>2, <2>3, <2>4
  <1>2. Core /\ [Next]_vars => Core'
    BY CoreStep
  <1>3. Spec => [][A]_vars
    BY <1>1, <1>2, InitCore, PTL DEF Spec
  <1> QED
    BY <1>3 DEF OwnMetricsObeyCommands
=============================================================================
