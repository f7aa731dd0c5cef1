-------------------------- MODULE SparkplugViewProofs --------------------------
(***************************************************************************)
(* The view a receiver has of the other nodes is current: ViewIsCurrent of *)
(* SparkplugInbound, for every set of nodes, devices, metrics and values,  *)
(* when the senders give births with all their metrics (Conforming).  What *)
(* a death does to the view holds of every node, what a living node is     *)
(* known to be only until a Start gives one of its metrics another number. *)
(*                                                                         *)
(* First what the operators of ViewInv make of a queue that grows at its   *)
(* end, is cut or loses its head, and of an entry that is parsed; then     *)
(* the steps.                                                              *)
(***************************************************************************)
EXTENDS SparkplugInboundProofs

-----------------------------------------------------------------------------
(* The messages of some types in a queue. *)

\* A queue, and the queue with one more message at its end.
Grows(q, x, r) ==
  /\ Len(q) \in Nat /\ Len(r) = Len(q) + 1
  /\ \A i \in 1..Len(q) : r[i] = q[i]
  /\ r[Len(q) + 1] = x

LEMMA AppendGrows ==
  ASSUME NEW q \in Seq(Messages), NEW x \in Messages
  PROVE  Append(q, x) \in Seq(Messages) /\ Grows(q, x, Append(q, x))
  BY AppendProperties DEF Grows

LEMMA OfGrowing ==
  ASSUME NEW q, NEW x, NEW r, Grows(q, x, r), NEW types
  PROVE  /\ x.levels[3] \in types => Of(r, types) = Of(q, types) \union {Len(q) + 1}
         /\ x.levels[3] \notin types => Of(r, types) = Of(q, types)
         /\ \A i \in Of(q, types) : r[i] = q[i] /\ i <= Len(q) /\ i \in Nat
  <1>1. 1..Len(r) = 1..Len(q) \union {Len(q) + 1} /\ Len(q) + 1 \notin 1..Len(q)
    BY DEF Grows
  <1> QED
    BY <1>1 DEF Of, Grows

LEMMA OfTail ==
  ASSUME NEW q \in Seq(Messages), q # <<>>, NEW types
  PROVE  /\ \A i \in Of(Tail(q), types) :
              /\ i \in Nat /\ i >= 1
              /\ i + 1 \in Of(q, types) /\ Tail(q)[i] = q[i + 1]
         /\ \A i \in Of(q, types) :
              /\ i \in Nat /\ i >= 1
              /\ i = 1 => Head(q).levels[3] \in types
              /\ i # 1 => i - 1 \in Of(Tail(q), types) /\ Tail(q)[i - 1] = q[i]
         /\ Head(q).levels[3] \in types => 1 \in Of(q, types)
         /\ Head(q) = q[1]
  <1>1. /\ Tail(q) \in Seq(Messages) /\ Len(q) \in Nat \ {0}
        /\ Len(Tail(q)) = Len(q) - 1 /\ Head(q) = q[1]
        /\ \A i \in 1..Len(Tail(q)) : Tail(q)[i] = q[i + 1]
    BY HeadTailProperties
  <1>2. ASSUME NEW i \in 1..Len(Tail(q)) PROVE i + 1 \in 1..Len(q) /\ i \in Nat
    BY <1>1
  <1>3. ASSUME NEW i \in 1..Len(q), i # 1
        PROVE  i - 1 \in 1..Len(Tail(q)) /\ Tail(q)[i - 1] = q[i]
    <2>1. i - 1 \in 1..Len(Tail(q)) /\ (i - 1) + 1 = i
      BY <1>1, <1>3
    <2> QED
      BY <1>1, <2>1
  <1>4. 1 \in 1..Len(q)
    BY <1>1
  <1> QED
    BY <1>1, <1>2, <1>3, <1>4 DEF Of

LEMMA OfCut ==
  ASSUME NEW q \in Seq(Messages), NEW k \in 0..Len(q), NEW types
  PROVE  /\ SubSeq(q, 1, k) \in Seq(Messages)
         /\ \A i \in Of(SubSeq(q, 1, k), types) :
              i \in Of(q, types) /\ SubSeq(q, 1, k)[i] = q[i]
  <1>1. Len(q) \in Nat /\ k \in Nat /\ k <= Len(q)
    OBVIOUS
  <1>2. \A i \in 1..k : q[i] \in Messages /\ i \in 1..Len(q)
    BY <1>1
  <1>3. /\ SubSeq(q, 1, k) \in Seq(Messages) /\ Len(SubSeq(q, 1, k)) = k
        /\ \A i \in 1..k : SubSeq(q, 1, k)[i] = q[i]
    BY <1>1, <1>2, SubSeqProperties
  <1> QED
    BY <1>2, <1>3 DEF Of

\* Births are news, and words on what they name.
LEMMA BirthsAreNews ==
  ASSUME NEW q
  PROVE  /\ BirthsIn(q) \subseteq NewsIn(q)
         /\ BirthsIn(q) \intersect DeathsIn(q) = {}
         /\ NewsIn(q) \intersect DeathsIn(q) = {}
         /\ NewsIn(q) \union DeathsIn(q) \subseteq Nat
  BY DEF BirthsIn, NewsIn, DeathsIn, Of

LEMMA NewsGrow ==
  ASSUME NEW q, NEW x, NEW r, Grows(q, x, r)
  PROVE  LET k == Len(q) + 1
             type == x.levels[3] IN
         /\ BirthsIn(r) = IF type = "NBIRTH" THEN BirthsIn(q) \union {k}
                          ELSE BirthsIn(q)
         /\ DeathsIn(r) = IF type = "NDEATH" THEN DeathsIn(q) \union {k}
                          ELSE DeathsIn(q)
         /\ NewsIn(r) = IF type \in {"NBIRTH", "NDATA"} THEN NewsIn(q) \union {k}
                        ELSE NewsIn(q)
         /\ \A i \in BirthsIn(q) \union NewsIn(q) \union DeathsIn(q) :
              r[i] = q[i] /\ i <= k
         /\ k \in Nat /\ r[k] = x
  <1> DEFINE k == Len(q) + 1
             type == x.levels[3]
  <1>1. k \in Nat /\ r[k] = x /\ \A i \in Nat : i <= Len(q) => i <= k
    BY DEF Grows
  <1>2. ASSUME NEW types
        PROVE  /\ Of(r, types) = IF type \in types THEN Of(q, types) \union {k}
                                 ELSE Of(q, types)
               /\ \A i \in Of(q, types) : r[i] = q[i] /\ i <= k
    <2>1. /\ type \in types => Of(r, types) = Of(q, types) \union {k}
          /\ type \notin types => Of(r, types) = Of(q, types)
          /\ \A i \in Of(q, types) : r[i] = q[i] /\ i <= Len(q) /\ i \in Nat
      BY OfGrowing
    <2> QED
      BY <1>1, <2>1
  <1> HIDE DEF k, type
  <1>3. type \in {"NBIRTH"} <=> type = "NBIRTH"
    OBVIOUS
  <1>4. type \in {"NDEATH"} <=> type = "NDEATH"
    OBVIOUS
  <1>5. /\ BirthsIn(r) = IF type = "NBIRTH" THEN BirthsIn(q) \union {k}
                         ELSE BirthsIn(q)
        /\ \A i \in BirthsIn(q) : r[i] = q[i] /\ i <= k
    BY <1>2, <1>3, Zenon DEF BirthsIn
  <1>6. /\ DeathsIn(r) = IF type = "NDEATH" THEN DeathsIn(q) \union {k}
                         ELSE DeathsIn(q)
        /\ \A i \in DeathsIn(q) : r[i] = q[i] /\ i <= k
    BY <1>2, <1>4, Zenon DEF DeathsIn
  <1>7. /\ NewsIn(r) = IF type \in {"NBIRTH", "NDATA"} THEN NewsIn(q) \union {k}
                       ELSE NewsIn(q)
        /\ \A i \in NewsIn(q) : r[i] = q[i] /\ i <= k
    BY <1>2, Zenon DEF NewsIn
  <1> QED
    BY <1>1, <1>5, <1>6, <1>7 DEF k, type

\* Operators that look at births, data and deaths only.
LEMMA SameNews ==
  ASSUME NEW q, NEW r,
         BirthsIn(r) = BirthsIn(q), DeathsIn(r) = DeathsIn(q),
         NewsIn(r) = NewsIn(q), \A i \in NewsIn(q) : r[i] = q[i]
  PROVE  /\ \A p, es, c, b, m : IsKnown(p, q, es, c, b, m)
                                  <=> IsKnown(p, r, es, c, b, m)
         /\ \A p, es, b, m : IsCurrent(p, q, es, b, m) <=> IsCurrent(p, r, es, b, m)
         /\ \A es, b : IsStale(q, es, b) <=> IsStale(r, es, b)
  <1>1. \A m : NewsOf(r, m) = NewsOf(q, m) /\ WordsOn(r, m) = WordsOn(q, m)
    BY DEF NewsOf, WordsOn
  <1>2. \A i \in BirthsIn(q) : r[i] = q[i]
    BY BirthsAreNews
  <1>3. \A m : \A i \in NewsOf(q, m) : r[i] = q[i]
    BY DEF NewsOf
  <1>4. ASSUME NEW p, NEW es, NEW c, NEW b, NEW m
        PROVE  IsKnown(p, q, es, c, b, m) <=> IsKnown(p, r, es, c, b, m)
    BY <1>2 DEF IsKnown
  <1>5. ASSUME NEW p, NEW es, NEW b, NEW m
        PROVE  IsCurrent(p, q, es, b, m) <=> IsCurrent(p, r, es, b, m)
    BY <1>1, <1>3 DEF IsCurrent
  <1>6. ASSUME NEW es, NEW b
        PROVE  IsStale(q, es, b) <=> IsStale(r, es, b)
    BY DEF IsStale
  <1> QED
    BY <1>4, <1>5, <1>6

-----------------------------------------------------------------------------
(* What is said of a metric. *)

\* All that a set of entries says is about the node.
AllSaid(n, p, es) == es \subseteq Entry /\ \A e \in es : SaidOf(n, p, e)

LEMMA TeachesIsAbout ==
  ASSUME NEW n, NEW p, IsPayload(p), NEW es, AllSaid(n, p, es),
         NEW m \in DOMAIN p, Teaches(p, m, es)
  PROVE  About(es, m) # {}
  <1>1. m # NoName
    BY NamesAssumption DEF IsPayload, NoName
  <1>2. PICK e \in es : e.name = m
    BY DEF Teaches
  <1>3. e.value[2] = m
    BY <1>1, <1>2 DEF AllSaid, SaidOf
  <1> QED
    BY <1>2, <1>3 DEF About

\* What a node writes of its metrics is one entry for each, with the value and
\* the number of the metric.
LEMMA WrittenIsFaithful ==
  ASSUME NEW n \in Nodes, NEW p, PayloadOf(n, p, p), NEW all \in BOOLEAN
  PROVE  /\ Faithful(WriteProtobuf(p, all))
         /\ \A m \in DOMAIN p :
              IF all \/ p[m].updated
              THEN /\ About(WriteProtobuf(p, all), m) = {WriteMetric(p, m, all)}
                   /\ Says(p, m, WriteProtobuf(p, all))
                   /\ all => Teaches(p, m, WriteProtobuf(p, all))
              ELSE About(WriteProtobuf(p, all), m) = {}
  <1> DEFINE es == WriteProtobuf(p, all)
             w(m) == WriteMetric(p, m, all)
  <1>1. \A m \in DOMAIN p : /\ w(m).value = p[m].value /\ w(m).value[2] = m
                            /\ w(m).alias = p[m].alias
                            /\ all => w(m).name = m
    BY DEF WriteMetric, PayloadOf
  <1>2. es = {w(m) : m \in Included(p, all)} /\ Included(p, all) \subseteq DOMAIN p
        /\ \A m \in DOMAIN p : m \in Included(p, all) <=> all \/ p[m].updated
    BY DEF WriteProtobuf, Included
  <1> HIDE DEF w, es
  <1>3. ASSUME NEW m \in DOMAIN p
        PROVE  About(es, m) = IF m \in Included(p, all) THEN {w(m)} ELSE {}
    BY <1>1, <1>2 DEF About
  <1>4. Faithful(es)
    BY <1>1, <1>2, <1>3 DEF Faithful
  <1>5. ASSUME NEW m \in Included(p, all)
        PROVE  Says(p, m, es) /\ (all => Teaches(p, m, es))
    <2>1. w(m) \in es /\ w(m).value = p[m].value /\ w(m).alias = p[m].alias
          /\ (all => w(m).name = m)
      BY <1>1, <1>2
    <2> QED
      BY <2>1 DEF Says, Teaches
  <1> QED
    BY <1>2, <1>3, <1>4, <1>5 DEF es, w

\* What a metric is known by is a matter of numbers only.
LEMMA SameNumbers ==
  ASSUME NEW p, NEW r, \A m \in DOMAIN p : r[m].alias = p[m].alias
  PROVE  /\ \A m \in DOMAIN p : \A es : Teaches(p, m, es) <=> Teaches(r, m, es)
         /\ \A m \in DOMAIN p : \A q, es, c, b :
              IsKnown(p, q, es, c, b, m) <=> IsKnown(r, q, es, c, b, m)
  <1>1. ASSUME NEW m \in DOMAIN p, NEW es
        PROVE  Teaches(p, m, es) <=> Teaches(r, m, es)
    BY DEF Teaches
  <1>2. ASSUME NEW m \in DOMAIN p, NEW q, NEW es, NEW c, NEW b
        PROVE  IsKnown(p, q, es, c, b, m) <=> IsKnown(r, q, es, c, b, m)
    BY <1>1 DEF IsKnown
  <1> QED
    BY <1>1, <1>2

-----------------------------------------------------------------------------
(* A message is sent. *)

\* Messages that are no news of the node's metrics change nothing.
LEMMA OtherSent ==
  ASSUME NEW q, NEW x, NEW r, Grows(q, x, r),
         x.levels[3] \notin {"NBIRTH", "NDATA", "NDEATH"}
  PROVE  /\ \A p, es, c, b, m : IsKnown(p, q, es, c, b, m)
                                  <=> IsKnown(p, r, es, c, b, m)
         /\ \A p, es, b, m : IsCurrent(p, q, es, b, m) <=> IsCurrent(p, r, es, b, m)
         /\ \A es, b : IsStale(q, es, b) <=> IsStale(r, es, b)
         /\ BirthsIn(r) = BirthsIn(q) /\ NewsIn(r) = NewsIn(q)
         /\ \A i \in NewsIn(q) : r[i] = q[i]
  <1>1. /\ BirthsIn(r) = BirthsIn(q) /\ DeathsIn(r) = DeathsIn(q)
        /\ NewsIn(r) = NewsIn(q) /\ \A i \in NewsIn(q) : r[i] = q[i]
    BY NewsGrow
  <1> QED
    BY <1>1, SameNews

\* After a death all metrics are going to be stale.
LEMMA DeathSent ==
  ASSUME NEW q, NEW x, NEW r, Grows(q, x, r), x.levels[3] = "NDEATH"
  PROVE  /\ \A es, b : IsStale(r, es, b)
         /\ NewsIn(r) = NewsIn(q) /\ \A i \in NewsIn(q) : r[i] = q[i]
  <1> DEFINE k == Len(q) + 1
  <1>1. /\ k \in DeathsIn(r) /\ NewsIn(r) = NewsIn(q) /\ k \in Nat
        /\ \A i \in NewsIn(q) : r[i] = q[i]
    BY NewsGrow
  <1>2. \A i \in NewsIn(q) : i < k
    BY OfGrowing DEF NewsIn, Grows
  <1>3. ASSUME NEW es, NEW b PROVE IsStale(r, es, b)
    BY <1>1, <1>2 DEF IsStale
  <1> QED
    BY <1>1, <1>3

\* A birth, or data, tells what the node has not told; it is the last word on
\* the metrics it names.
LEMMA NewsSent ==
  ASSUME NEW n \in Nodes, NEW p, PayloadOf(n, p, p), NEW all \in BOOLEAN,
         NEW q, NEW x, NEW s, Grows(q, x, s),
         x.levels[3] = (IF all THEN "NBIRTH" ELSE "NDATA"),
         x.entries = WriteProtobuf(p, all),
         NEW r, r = ResetUpdated(p, all), NEW es, NEW c, NEW b, NEW m \in DOMAIN p,
         ~all => IsKnown(p, q, es, c, b, m) /\ IsCurrent(p, q, es, b, m)
  PROVE  /\ IsKnown(r, s, es, c, b, m)
         /\ IsCurrent(r, s, es, b, m)
  <1> DEFINE k == Len(q) + 1
  <1>1. /\ BirthsIn(s) = BirthsIn(q) \union (IF all THEN {k} ELSE {})
        /\ NewsIn(s) = NewsIn(q) \union {k} /\ DeathsIn(s) = DeathsIn(q)
        /\ \A i \in NewsIn(q) \union DeathsIn(q) \union BirthsIn(q) :
             s[i] = q[i] /\ i <= k
        /\ s[k] = x
    BY NewsGrow
  <1>2. NewsIn(q) \subseteq Nat /\ DeathsIn(q) \subseteq Nat /\ k \in Nat
    BY BirthsAreNews DEF Grows
  <1> HIDE DEF k
  <1>4. \A l \in DOMAIN p : r[l].alias = p[l].alias /\ r[l].value = p[l].value
    BY ResetPayload DEF PayloadOf, Like
  <1>5. CASE all \/ p[m].updated
    <2>1. /\ About(x.entries, m) # {} /\ Says(p, m, x.entries)
          /\ all => Teaches(p, m, x.entries)
      <3>1. About(x.entries, m) = {WriteMetric(p, m, all)}
        BY <1>5, WrittenIsFaithful
      <3> QED
        BY <1>5, <3>1, WrittenIsFaithful
    <2>2. Says(r, m, x.entries) /\ (all => Teaches(r, m, x.entries))
      BY <1>4, <2>1 DEF Says, Teaches
    <2>3. k \in NewsOf(s, m) /\ \A j \in WordsOn(s, m) : j <= k
      BY <1>1, <1>2, <2>1 DEF NewsOf, WordsOn
    <2>4. IsCurrent(r, s, es, b, m)
      BY <1>1, <2>2, <2>3 DEF IsCurrent
    <2>5. IsKnown(r, s, es, c, b, m)
      <3>1. CASE all
        BY <1>1, <2>2, <3>1 DEF IsKnown
      <3>2. CASE ~all
        <4>1. IsKnown(p, s, es, c, b, m)
          BY <1>1, <3>2 DEF IsKnown
        <4> QED
          BY <1>4, <4>1, SameNumbers
      <3> QED
        BY <3>1, <3>2
    <2> QED
      BY <2>4, <2>5
  <1>6. CASE ~all /\ ~p[m].updated
    <2>1. About(x.entries, m) = {}
      BY <1>6, WrittenIsFaithful
    <2>2. NewsOf(s, m) = NewsOf(q, m) /\ WordsOn(s, m) = WordsOn(q, m)
          /\ \A i \in NewsOf(q, m) : s[i] = q[i]
      BY <1>1, <1>2, <2>1 DEF NewsOf, WordsOn
    <2>3. \A ds : Says(p, m, ds) <=> Says(r, m, ds)
      BY <1>4 DEF Says
    <2>4. IsCurrent(r, s, es, b, m)
      BY <1>4, <1>6, <2>2, <2>3 DEF IsCurrent
    <2>5. IsKnown(p, s, es, c, b, m)
      BY <1>1, <1>6 DEF IsKnown
    <2> QED
      BY <1>4, <2>4, <2>5, SameNumbers
  <1> QED
    BY <1>5, <1>6

-----------------------------------------------------------------------------
(* A message arrives. *)

\* Places B in r are the places A in q, but for its head.
Shifted(A, B, q, r) ==
  /\ A \subseteq Nat \ {0} /\ B \subseteq Nat \ {0}
  /\ \A i \in B : i + 1 \in A /\ r[i] = q[i + 1]
  /\ \A i \in A \ {1} : i - 1 \in B /\ r[i - 1] = q[i]

LEMMA OfShifted ==
  ASSUME NEW q \in Seq(Messages), q # <<>>, NEW types
  PROVE  /\ Shifted(Of(q, types), Of(Tail(q), types), q, Tail(q))
         /\ 1 \in Of(q, types) <=> Head(q).levels[3] \in types
  <1>1. \A i \in Of(q, types) : i \in Nat \ {0}
    BY DEF Of
  <1>2. \A i \in Of(Tail(q), types) : i \in Nat \ {0}
    BY DEF Of
  <1>3. \A i \in Of(Tail(q), types) : i + 1 \in Of(q, types) /\ Tail(q)[i] = q[i + 1]
    BY OfTail
  <1>4. \A i \in Of(q, types) \ {1} :
           i - 1 \in Of(Tail(q), types) /\ Tail(q)[i - 1] = q[i]
    BY OfTail
  <1>5. 1 \in Of(q, types) <=> Head(q).levels[3] \in types
    BY OfTail
  <1> DEFINE r == Tail(q)
  <1>6. Shifted(Of(q, types), Of(r, types), q, r)
    <2> HIDE DEF r
    <2> SUFFICES
          /\ \A i \in Of(r, types) : i + 1 \in Of(q, types) /\ r[i] = q[i + 1]
          /\ \A i \in Of(q, types) \ {1} : i - 1 \in Of(r, types) /\ r[i - 1] = q[i]
      BY <1>1, <1>2 DEF Shifted, r
    <2> QED
      BY <1>3, <1>4 DEF r
  <1> QED
    BY <1>5, <1>6

\* The queue r is q without its head.
Shrinks(q, r) ==
  /\ Shifted(BirthsIn(q), BirthsIn(r), q, r)
  /\ Shifted(DeathsIn(q), DeathsIn(r), q, r)
  /\ Shifted(NewsIn(q), NewsIn(r), q, r)
  /\ \A m : Shifted(NewsOf(q, m), NewsOf(r, m), q, r)
  /\ \A m : Shifted(WordsOn(q, m), WordsOn(r, m), q, r)

LEMMA TailShrinks ==
  ASSUME NEW q \in Seq(Messages), q # <<>>
  PROVE  /\ Shrinks(q, Tail(q))
         /\ 1 \in BirthsIn(q) <=> Head(q).levels[3] = "NBIRTH"
         /\ 1 \in DeathsIn(q) <=> Head(q).levels[3] = "NDEATH"
         /\ 1 \in NewsIn(q) <=> Head(q).levels[3] \in {"NBIRTH", "NDATA"}
         /\ Head(q) = q[1]
  <1> DEFINE r == Tail(q)
             type == Head(q).levels[3]
  <1>1. Shifted(BirthsIn(q), BirthsIn(r), q, r)
        /\ (1 \in BirthsIn(q) <=> type \in {"NBIRTH"})
    BY OfShifted, Zenon DEF BirthsIn
  <1>2. Shifted(DeathsIn(q), DeathsIn(r), q, r)
        /\ (1 \in DeathsIn(q) <=> type \in {"NDEATH"})
    BY OfShifted, Zenon DEF DeathsIn
  <1>3. Shifted(NewsIn(q), NewsIn(r), q, r)
        /\ (1 \in NewsIn(q) <=> type \in {"NBIRTH", "NDATA"})
    BY OfShifted, Zenon DEF NewsIn
  <1>4. Head(q) = q[1]
    BY HeadTailProperties
  <1> HIDE DEF r, type
  <1>5. ASSUME NEW m
        PROVE  Shifted(NewsOf(q, m), NewsOf(r, m), q, r)
    BY <1>3 DEF Shifted, NewsOf
  <1>6. ASSUME NEW m
        PROVE  Shifted(WordsOn(q, m), WordsOn(r, m), q, r)
    BY <1>2, <1>5 DEF Shifted, WordsOn
  <1>7. (type \in {"NBIRTH"} <=> type = "NBIRTH")
        /\ (type \in {"NDEATH"} <=> type = "NDEATH")
    OBVIOUS
  <1> QED
    BY <1>1, <1>2, <1>3, <1>4, <1>5, <1>6, <1>7 DEF Shrinks, r, type

\* A last place in q, not the head, is the last place in r.
LEMMA LastShifted ==
  ASSUME NEW A, NEW B, NEW q, NEW r, Shifted(A, B, q, r), NEW i \in Nat,
         i # 1, \A j \in A : j <= i
  PROVE  \A j \in B : j <= i - 1
  BY DEF Shifted

\* The value of a metric is on its way, or has come.
Conveyed(p, q, es, create, b, m) ==
  IsKnown(p, q, es, create, b, m) /\ IsCurrent(p, q, es, b, m)

\* The first message is given to a parser, that may create the metrics of a birth.
Given(q, es, create) ==
  /\ 1 \in NewsIn(q) /\ es = q[1].entries /\ create \in BOOLEAN
  /\ 1 \in BirthsIn(q) => create \/ es = {}

\* A birth or data that is going to be parsed.
LEMMA NewsTaken ==
  ASSUME NEW q, NEW r, Shrinks(q, r), NEW es, NEW create, Given(q, es, create),
         NEW p, NEW b, NEW m, NEW c, Conveyed(p, q, {}, c, b, m)
  PROVE  Conveyed(p, r, es, create, b, m)
  <1> USE DEF Given
  <1>1. ~Teaches(p, m, {}) /\ ~Says(p, m, {})
    BY DEF Teaches, Says
  <1> USE DEF Conveyed
  <1>2. IsKnown(p, r, es, create, b, m)
    <2>1. CASE \E i \in BirthsIn(q) : Teaches(p, m, q[i].entries)
      <3>1. PICK i \in BirthsIn(q) : Teaches(p, m, q[i].entries)
        BY <2>1
      <3>2. CASE i = 1
        BY <1>1, <3>1, <3>2 DEF IsKnown
      <3>3. CASE i # 1
        BY <3>1, <3>3 DEF IsKnown, Shrinks, Shifted
      <3> QED
        BY <3>2, <3>3
    <2> QED
      BY <1>1, <2>1 DEF IsKnown
  <1>3. IsCurrent(p, r, es, b, m)
    <2>1. CASE \E i \in NewsOf(q, m) : /\ Says(p, m, q[i].entries)
                                       /\ \A j \in WordsOn(q, m) : j <= i
      <3>1. PICK i \in NewsOf(q, m) : /\ Says(p, m, q[i].entries)
                                       /\ \A j \in WordsOn(q, m) : j <= i
        BY <2>1
      <3>2. i \in Nat
        BY DEF Shrinks, Shifted
      <3>3. CASE i = 1
        <4>1. WordsOn(r, m) = {}
          <5>1. ASSUME NEW j \in WordsOn(r, m) PROVE FALSE
            <6>1. j \in Nat \ {0} /\ j + 1 \in WordsOn(q, m)
              BY DEF Shrinks, Shifted
            <6> QED
              BY <3>1, <3>3, <6>1
          <5> QED
            BY <5>1
        <4> QED
          BY <3>1, <3>3, <4>1 DEF IsCurrent
      <3>4. CASE i # 1
        <4>1. i - 1 \in NewsOf(r, m) /\ r[i - 1] = q[i]
          BY <3>4 DEF Shrinks, Shifted
        <4>2. \A j \in WordsOn(r, m) : j <= i - 1
          BY <3>1, <3>2, <3>4, LastShifted DEF Shrinks
        <4> QED
          BY <3>1, <4>1, <4>2 DEF IsCurrent
      <3> QED
        BY <3>3, <3>4
    <2>2. CASE WordsOn(q, m) = {}
      <3>1. WordsOn(r, m) = {}
        BY <2>2 DEF Shrinks, Shifted
      <3>2. About(es, m) = {}
        BY <2>2 DEF WordsOn, NewsOf
      <3> QED
        BY <1>1, <2>2, <3>1, <3>2 DEF IsCurrent, NewsOf, WordsOn
    <2> QED
      BY <2>1, <2>2 DEF IsCurrent
  <1> QED
    BY <1>2, <1>3

LEMMA NewsTakenStale ==
  ASSUME NEW q, NEW r, Shrinks(q, r), 1 \in NewsIn(q), NEW es, NEW b,
         IsStale(q, {}, b)
  PROVE  IsStale(r, es, b)
  <1>1. PICK i \in DeathsIn(q) : \A j \in NewsIn(q) : j < i
    BY DEF IsStale
  <1>2. i # 1 /\ i \in Nat /\ i - 1 \in DeathsIn(r)
    BY <1>1 DEF Shrinks, Shifted
  <1>3. \A j \in NewsIn(r) : j < i - 1
    BY <1>1, <1>2 DEF Shrinks, Shifted
  <1> QED
    BY <1>2, <1>3 DEF IsStale

\* A message that is not parsed: a death, data of a node nobody knows yet, or one
\* that is not about the node's metrics.
LEMMA MessageSkipped ==
  ASSUME NEW n, NEW p, IsPayload(p), NEW q, NEW r, Shrinks(q, r),
         \A i \in NewsIn(q) : AllSaid(n, p, q[i].entries),
         1 \notin BirthsIn(q), NEW b, 1 \in NewsIn(q) => DOMAIN b = {},
         NEW v, DOMAIN v = DOMAIN b,
         \A l \in DOMAIN b : v[l].alias = b[l].alias,
         IF 1 \in DeathsIn(q) THEN \A l \in DOMAIN b : ~v[l].valid ELSE v = b,
         NEW m \in DOMAIN p, NEW c, NEW d, Conveyed(p, q, {}, c, b, m)
  PROVE  Conveyed(p, r, {}, d, v, m)
  <1>1. ~Teaches(p, m, {}) /\ ~Says(p, m, {})
    BY DEF Teaches, Says
  <1> USE DEF Conveyed
  <1>2. IsKnown(p, r, {}, d, v, m)
    <2>1. CASE \E i \in BirthsIn(q) : Teaches(p, m, q[i].entries)
      BY <2>1 DEF IsKnown, Shrinks, Shifted
    <2> QED
      BY <1>1, <2>1 DEF IsKnown
  <1>3. IsCurrent(p, r, {}, v, m)
    <2>1. CASE \E i \in NewsOf(q, m) : /\ Says(p, m, q[i].entries)
                                       /\ \A j \in WordsOn(q, m) : j <= i
      <3>1. PICK i \in NewsOf(q, m) : /\ Says(p, m, q[i].entries)
                                       /\ \A j \in WordsOn(q, m) : j <= i
        BY <2>1
      <3>2. i \in Nat
        BY DEF Shrinks, Shifted
      <3>3. i # 1
        <4>1. SUFFICES ASSUME i = 1 PROVE FALSE
          OBVIOUS
        <4>2. 1 \in NewsIn(q)
          BY <4>1 DEF NewsOf
        <4>3. PICK k \in BirthsIn(q) : Teaches(p, m, q[k].entries)
          BY <1>1, <4>2 DEF IsKnown
        <4>4. k \in NewsIn(q) /\ AllSaid(n, p, q[k].entries)
          BY BirthsAreNews
        <4>5. k \in WordsOn(q, m)
          BY <4>3, <4>4, TeachesIsAbout DEF NewsOf, WordsOn
        <4>6. k \in Nat \ {0} /\ k <= 1
          BY <3>1, <4>1, <4>5 DEF Shrinks, Shifted
        <4> QED
          BY <4>6
      <3>4. i - 1 \in NewsOf(r, m) /\ r[i - 1] = q[i]
        BY <3>3 DEF Shrinks, Shifted
      <3>5. \A j \in WordsOn(r, m) : j <= i - 1
        BY <3>1, <3>2, <3>3, LastShifted DEF Shrinks
      <3> QED
        BY <3>1, <3>4, <3>5 DEF IsCurrent
    <2>2. CASE WordsOn(q, m) = {}
      <3>1. WordsOn(r, m) = {}
        BY <2>2 DEF Shrinks, Shifted
      <3>2. 1 \notin DeathsIn(q)
        BY <2>2 DEF WordsOn
      <3> QED
        BY <1>1, <2>2, <3>1, <3>2 DEF IsCurrent, NewsOf, WordsOn
    <2> QED
      BY <2>1, <2>2 DEF IsCurrent
  <1> QED
    BY <1>2, <1>3

LEMMA SkippedStale ==
  ASSUME NEW q, NEW r, Shrinks(q, r), NEW b, NEW v, DOMAIN v = DOMAIN b,
         IF 1 \in DeathsIn(q) THEN \A l \in DOMAIN b : ~v[l].valid ELSE v = b,
         IsStale(q, {}, b)
  PROVE  IsStale(r, {}, v)
  <1>1. CASE NewsIn(q) = {} /\ \A l \in DOMAIN b : ~v[l].valid
    BY <1>1 DEF IsStale, Shrinks, Shifted
  <1>2. CASE \E i \in DeathsIn(q) : i # 1 /\ \A j \in NewsIn(q) : j < i
    <2>1. PICK i \in DeathsIn(q) : i # 1 /\ \A j \in NewsIn(q) : j < i
      BY <1>2
    <2>2. i \in Nat /\ i - 1 \in DeathsIn(r)
      BY <2>1 DEF Shrinks, Shifted
    <2>3. \A j \in NewsIn(r) : j < i - 1
      BY <2>1, <2>2 DEF Shrinks, Shifted
    <2> QED
      BY <2>2, <2>3 DEF IsStale
  <1>3. CASE 1 \in DeathsIn(q) /\ \A j \in NewsIn(q) : j < 1
    <2>1. NewsIn(q) = {}
      BY <1>3 DEF Shrinks, Shifted
    <2> QED
      BY <1>1, <1>3, <2>1
  <1> QED
    BY <1>1, <1>2, <1>3 DEF IsStale

-----------------------------------------------------------------------------
(* An entry is parsed. *)

\* The payload r has taken the entry e: the metric that is meant is the only one
\* touched; its value is taken if it is named or has the number the receiver
\* knows; a number it has is kept, and one it lacks is that of the entry.
Takes(b, e, create, r) ==
  LET k == e.value[2] IN
  /\ DOMAIN b \subseteq DOMAIN r /\ DOMAIN r \subseteq DOMAIN b \union {k}
  /\ \A m \in DOMAIN b : m # k => r[m] = b[m]
  /\ \A m \in DOMAIN b : b[m].alias # 0 => r[m].alias = b[m].alias
  /\ \/ e.name = k /\ (create \/ k \in DOMAIN b)
     \/ k \in DOMAIN b /\ e.alias # 0 /\ b[k].alias = e.alias
     => k \in DOMAIN r /\ r[k].valid /\ r[k].value = e.value
  /\ create /\ e.name = k =>
       r[k].alias = IF k \in DOMAIN b /\ b[k].alias # 0 THEN b[k].alias
                    ELSE e.alias

LEMMA EntryIsTaken ==
  ASSUME NEW n, NEW p, IsPayload(p), Distinct(p), NEW b, PayloadOf(n, p, b),
         NEW e \in Entry, SaidOf(n, p, e), NEW create \in BOOLEAN
  PROVE  Takes(b, e, create, ParseEntry(b, e, create))
  <1> DEFINE k == e.value[2]
             r == ParseEntry(b, e, create)
             found == GetMetric(b, e)
             made  == IF found = {} /\ e.name # NoName /\ create
                      THEN {e.name} ELSE {}
  <1>1. found \subseteq {k} \intersect DOMAIN b
    BY FoundIsMeant
  <1>2. k \in Names /\ k # NoName /\ e.name \in {NoName, k}
    BY NamesAssumption DEF SaidOf, NoName, IsPayload
  <1> HIDE DEF k
  <1>3. e.name = k => found = {k} \intersect DOMAIN b
    BY <1>2 DEF GetMetric
  <1>4. ASSUME k \in DOMAIN b, e.alias # 0, b[k].alias = e.alias
        PROVE  found = {k}
    <2>1. CASE e.name = k
      BY <1>3, <1>4, <2>1
    <2>2. CASE e.name = NoName
      <3>1. \A m \in DOMAIN b : b[m].alias = e.alias => m = k
        <4>1. SUFFICES ASSUME NEW m \in DOMAIN b, b[m].alias = e.alias
                       PROVE  m = k
          OBVIOUS
        <4>2. p[m].alias = p[k].alias /\ p[k].alias # 0
              /\ m \in DOMAIN p /\ k \in DOMAIN p
          BY <1>4, <4>1 DEF PayloadOf, Numbered
        <4> QED
          BY <4>2 DEF Distinct
      <3>2. k <= k
        BY <1>2, NamesAssumption
      <3> QED
        BY <1>4, <2>2, <3>1, <3>2 DEF GetMetric
    <2> QED
      BY <1>2, <2>1, <2>2
  <1> HIDE DEF found
  <1>5. r = [m \in DOMAIN b \union made |->
               IF m \in found THEN ParseMetric(b[m], e, create)
               ELSE IF m \in made THEN ParseMetric(NewMetric, e, TRUE)
               ELSE b[m]]
    BY DEF ParseEntry, found
  <1> HIDE DEF r
  <1>6. made \subseteq {k}
    BY <1>2
  <1>7. ASSUME NEW metric \in [alias : Nat, value : Value \union {NoValue},
                              valid : BOOLEAN, updated : BOOLEAN],
               NEW c \in BOOLEAN
        PROVE  /\ ParseMetric(metric, e, c).valid
               /\ ParseMetric(metric, e, c).value = e.value
               /\ ParseMetric(metric, e, c).alias =
                    IF metric.alias = 0 /\ c THEN e.alias ELSE metric.alias
    BY DEF ParseMetric, SetValue
  <1>8. \A m \in DOMAIN b :
           b[m] \in [alias : Nat, value : Value \union {NoValue},
                     valid : BOOLEAN, updated : BOOLEAN]
    BY DEF PayloadOf, IsPayload, Metric
  <1>9. /\ NewMetric \in [alias : Nat, value : Value \union {NoValue},
                           valid : BOOLEAN, updated : BOOLEAN]
        /\ NewMetric.alias = 0
    BY DEF NewMetric
  <1>10. e.name = k /\ create /\ k \notin DOMAIN b => made = {k}
    BY <1>2, <1>3
  <1> HIDE DEF made
  <1>11. k \in found => /\ k \in DOMAIN b /\ k \in DOMAIN r
                        /\ r[k] = ParseMetric(b[k], e, create)
    BY <1>1, <1>5
  <1>12. made = {k} /\ k \notin DOMAIN b =>
           k \in DOMAIN r /\ r[k] = ParseMetric(NewMetric, e, TRUE)
    BY <1>1, <1>5
  <1>13. DOMAIN b \subseteq DOMAIN r /\ DOMAIN r \subseteq DOMAIN b \union {k}
         /\ \A m \in DOMAIN b : m # k => r[m] = b[m]
    BY <1>1, <1>5, <1>6
  <1>14. \A m \in DOMAIN b : m \notin found =>
           r[m] = b[m] \/ (m \in made /\ m = k)
    BY <1>5, <1>6
  <1>15. k \in made => k \notin DOMAIN b
    BY <1>2, <1>3 DEF made
  <1>16. ASSUME NEW m \in DOMAIN b, b[m].alias # 0
         PROVE  r[m].alias = b[m].alias
    <2>1. CASE m \in found
      <3>1. m = k /\ r[m] = ParseMetric(b[m], e, create)
        BY <1>1, <1>11, <2>1
      <3> QED
        BY <1>7, <1>8, <1>16, <3>1
    <2>2. CASE m \notin found
      BY <1>14, <1>15, <2>2
    <2> QED
      BY <2>1, <2>2
  <1>17. ASSUME \/ e.name = k /\ (create \/ k \in DOMAIN b)
                \/ k \in DOMAIN b /\ e.alias # 0 /\ b[k].alias = e.alias
         PROVE  /\ k \in DOMAIN r /\ r[k].valid /\ r[k].value = e.value
                /\ create /\ e.name = k =>
                     r[k].alias = IF k \in DOMAIN b /\ b[k].alias # 0
                                  THEN b[k].alias ELSE e.alias
    <2>1. CASE k \in DOMAIN b
      <3>1. k \in found
        BY <1>3, <1>4, <1>17, <2>1
      <3>2. k \in DOMAIN r /\ r[k] = ParseMetric(b[k], e, create)
        BY <1>11, <3>1
      <3> QED
        BY <1>7, <1>8, <2>1, <3>2
    <2>2. CASE k \notin DOMAIN b
      <3>1. k \in DOMAIN r /\ r[k] = ParseMetric(NewMetric, e, TRUE)
        BY <1>10, <1>12, <1>17, <2>2
      <3> QED
        BY <1>7, <1>9, <2>2, <3>1
    <2> QED
      BY <2>1, <2>2
  <1> QED
    BY <1>13, <1>16, <1>17 DEF Takes, k, r

\* After an entry, the rest is as good as all of it was before.
LEMMA EntryTaken ==
  ASSUME NEW n, NEW p, PayloadOf(n, p, p), Distinct(p),
         NEW b, PayloadOf(n, p, b),
         NEW es, AllSaid(n, p, es), Faithful(es), NEW e \in es,
         NEW q, \A i \in NewsIn(q) : AllSaid(n, p, q[i].entries),
         NEW create \in BOOLEAN, NEW r, r = ParseEntry(b, e, create),
         NEW rest, rest = es \ {e}, NEW c, rest # {} => c = create,
         NEW m \in DOMAIN p, Conveyed(p, q, es, create, b, m)
  PROVE  Conveyed(p, q, rest, c, r, m)
  <1> DEFINE k == e.value[2]
  <1>1. /\ e \in Entry /\ SaidOf(n, p, e)
        /\ IsPayload(p) /\ m \in Names /\ m # NoName
    BY NamesAssumption DEF PayloadOf, IsPayload, AllSaid, NoName
  <1>2. Takes(b, e, create, r)
    BY <1>1, EntryIsTaken
  <1>3. /\ k \in DOMAIN p /\ e.name \in {NoName, k} /\ (e.name = NoName => e.alias # 0)
        /\ e.alias \in {0, p[k].alias}
    BY <1>1 DEF SaidOf, Numbered
  <1>4. About(es, k) = {e}
    BY DEF Faithful
  <1> HIDE DEF k
  <1> USE DEF Conveyed
  <1>5. IsKnown(p, q, rest, c, r, m)
    <2>1. CASE \E i \in BirthsIn(q) : Teaches(p, m, q[i].entries)
      BY <2>1 DEF IsKnown
    <2>2. CASE create /\ Teaches(p, m, es)
      <3>1. PICK f \in es : f.name = m /\ p[m].alias \in {0, f.alias}
        BY <2>2 DEF Teaches
      <3>2. CASE f # e
        <4>1. f \in rest /\ c = create
          BY <3>2
        <4> QED
          BY <2>2, <3>1, <4>1 DEF IsKnown, Teaches
      <3>3. CASE f = e
        <4>1. m = k /\ e.name = k
          BY <1>1, <1>3, <3>1, <3>3
        <4>2. /\ m \in DOMAIN r
              /\ r[m].alias = IF m \in DOMAIN b /\ b[m].alias # 0 THEN b[m].alias
                              ELSE e.alias
          BY <1>2, <2>2, <4>1 DEF Takes, k
        <4>3. m \in DOMAIN b /\ b[m].alias # 0 => p[m].alias \in {0, b[m].alias}
          BY DEF PayloadOf, Numbered
        <4> QED
          BY <3>1, <3>3, <4>2, <4>3 DEF IsKnown
      <3> QED
        BY <3>2, <3>3
    <2>3. CASE m \in DOMAIN b /\ p[m].alias \in {0, b[m].alias}
      BY <1>2, <2>3 DEF IsKnown, Takes
    <2> QED
      BY <2>1, <2>2, <2>3 DEF IsKnown
  <1>6. IsCurrent(p, q, rest, r, m)
    <2>1. CASE WordsOn(q, m) = {} /\ Says(p, m, es)
      <3>1. PICK f \in es : f.value = p[m].value
        BY <2>1 DEF Says
      <3>2. CASE f # e
        BY <2>1, <3>1, <3>2 DEF Says, IsCurrent
      <3>3. CASE f = e
        <4>1. m = k /\ About(rest, m) = {}
          <5>1. m = k
            BY <3>1, <3>3 DEF PayloadOf, k
          <5> QED
            BY <1>4, <5>1 DEF About
        <4>2. \A g \in es : g.name = m => g = e
          <5>1. \A g \in es : g.name = m => g.value[2] = m
            BY <1>1 DEF AllSaid, SaidOf
          <5> QED
            BY <1>4, <4>1, <5>1 DEF About
        <4>3. ~ \E i \in BirthsIn(q) : Teaches(p, m, q[i].entries)
          <5>1. SUFFICES ASSUME NEW i \in BirthsIn(q), Teaches(p, m, q[i].entries)
                         PROVE  FALSE
            OBVIOUS
          <5>2. i \in NewsIn(q) /\ AllSaid(n, p, q[i].entries)
            BY BirthsAreNews
          <5>3. i \in NewsOf(q, m)
            BY <1>1, <5>1, <5>2, TeachesIsAbout DEF NewsOf
          <5> QED
            BY <2>1, <5>3 DEF WordsOn
        <4>4. \/ e.name = k /\ (create \/ k \in DOMAIN b)
              \/ k \in DOMAIN b /\ e.alias # 0 /\ b[k].alias = e.alias
          <5>1. CASE create /\ Teaches(p, m, es)
            BY <4>1, <4>2, <5>1 DEF Teaches
          <5>2. CASE m \in DOMAIN b /\ p[m].alias \in {0, b[m].alias}
            BY <1>3, <1>4, <4>1, <5>2
          <5> QED
            BY <4>3, <5>1, <5>2 DEF IsKnown
        <4>5. m \in DOMAIN r /\ r[m].valid /\ r[m].value = p[m].value
          BY <1>2, <3>1, <3>3, <4>1, <4>4 DEF Takes, k
        <4> QED
          BY <2>1, <4>1, <4>5 DEF IsCurrent
      <3> QED
        BY <3>2, <3>3
    <2>2. CASE /\ WordsOn(q, m) = {} /\ About(es, m) = {}
               /\ m \in DOMAIN b /\ b[m].valid /\ b[m].value = p[m].value
      <3>1. m # k /\ About(rest, m) = {}
        BY <1>4, <2>2 DEF About
      <3>2. m \in DOMAIN r /\ r[m] = b[m]
        BY <1>2, <2>2, <3>1 DEF Takes, k
      <3> QED
        BY <2>2, <3>1, <3>2 DEF IsCurrent
    <2> QED
      BY <2>1, <2>2 DEF IsCurrent
  <1> QED
    BY <1>5, <1>6

-----------------------------------------------------------------------------
(* The view of one node. *)

View(n) ==
  /\ n \notin moved => FaithfulPart(n) /\ LivingPart(n)
  /\ DeadPart(n)

LEMMA NoEntries ==
  ASSUME NEW p, NEW q, NEW es, NEW c, NEW d, es # {} => c = d, NEW b, NEW m
  PROVE  IsKnown(p, q, es, c, b, m) => IsKnown(p, q, es, d, b, m)
  <1>1. es = {} => ~Teaches(p, m, es)
    BY DEF Teaches
  <1> QED
    BY <1>1 DEF IsKnown

\* What the types of the variables say of the arguments of ViewInv's operators.
LEMMA ViewTypes ==
  ASSUME Core, NEW n \in Nodes \ {own}
  PROVE  /\ IsPayload(metrics[n]) /\ Distinct(metrics[n]) /\ IsPayload(Seen(n))
         /\ wire[n] \in Seq(Messages)
         /\ parsing.create \in BOOLEAN /\ ToParse(n) \subseteq Entry
         /\ n \notin moved =>
              /\ PayloadOf(n, metrics[n], metrics[n])
              /\ PayloadOf(n, metrics[n], Seen(n))
              /\ \A i \in NewsIn(wire[n]) : AllSaid(n, metrics[n], wire[n][i].entries)
              /\ AllSaid(n, metrics[n], ToParse(n))
  <1>1. /\ IsPayload(metrics[n]) /\ Distinct(metrics[n])
        /\ n \notin moved => PayloadOf(n, metrics[n], metrics[n])
        /\ wire[n] \in Seq(Messages)
        /\ parsing.create \in BOOLEAN /\ parsing.entries \subseteq Entry
    BY DEF Core, NodesCore, WireCore, ParsingCore
  <1>2. ToParse(n) \subseteq Entry
    BY <1>1 DEF ToParse
  <1>3. /\ IsPayload(Seen(n))
        /\ n \notin moved => PayloadOf(n, metrics[n], Seen(n))
    <2>1. CASE <<n, "">> \in DOMAIN births
      <3>1. <<n, "">>[1] = n
        BY Pair
      <3> QED
        BY <2>1, <3>1 DEF Core, BirthsCore, Seen
    <2>2. CASE <<n, "">> \notin DOMAIN births
      BY <2>2, NoPayload DEF Seen
    <2> QED
      BY <2>1, <2>2
  <1>4. ASSUME n \notin moved, NEW i \in NewsIn(wire[n])
        PROVE  AllSaid(n, metrics[n], wire[n][i].entries)
    <2>1. i \in 1..Len(wire[n]) /\ wire[n][i].levels[3] \in {"NBIRTH", "NDATA"}
      BY DEF NewsIn, Of
    <2>2. wire[n][i] \in Messages
      BY <1>1, <2>1
    <2>3. ~DeviceSaid(n, wire[n][i])
      <3>1. SUFFICES ASSUME NEW type \in DeviceMessageType, NEW d,
                            wire[n][i].levels = <<"spBv1.0", "Group", type, n, d>>
                     PROVE  FALSE
        BY DEF DeviceSaid
      <3>2. wire[n][i].levels[3] = type
        BY <3>1
      <3> QED
        BY <2>1, <3>2 DEF DeviceMessageType
    <2>4. NodeSaid(n, wire[n][i])
      BY <2>1, <2>3 DEF Core, WireCore, WirePart
    <2> QED
      BY <1>4, <2>2, <2>4 DEF NodeSaid, AllSaidOf, AllSaid, Messages
  <1>5. ASSUME n \notin moved PROVE AllSaid(n, metrics[n], ToParse(n))
    <2>1. CASE parsing.topic = <<n, "">>
      <3>1. parsing # Idle
        <4>1. <<n, "">> # <<>>
          OBVIOUS
        <4>2. Idle.topic = <<>>
          BY DEF Idle
        <4> QED
          BY <2>1, <4>1, <4>2, Zenon
      <3>2. PICK k \in Nodes : parsing.topic = <<k, "">> /\ AllSaidOf(k, parsing.entries)
        BY <3>1 DEF Core, ParsingCore, ParsingPart
      <3>3. k = n
        <4>1. <<k, "">>[1] = k /\ <<n, "">>[1] = n
          BY Pair
        <4> QED
          BY <2>1, <3>2, <4>1
      <3> QED
        BY <1>1, <1>5, <2>1, <3>2, <3>3 DEF AllSaid, AllSaidOf, ToParse
    <2>2. CASE parsing.topic # <<n, "">>
      BY <2>2 DEF AllSaid, ToParse
    <2> QED
      BY <2>1, <2>2
  <1> QED
    BY <1>1, <1>2, <1>3, <1>4, <1>5

\* A step that leaves alone what the view of a node is about.
LEMMA ViewStays ==
  ASSUME NEW n, View(n), metrics'[n] = metrics[n], wire'[n] = wire[n],
         phase'[n] = phase[n], n \in moved => n \in moved', ToParse(n)' = ToParse(n),
         ToParse(n) # {} => parsing'.create = parsing.create,
         Seen(n)' = Seen(n), n \in missed => n \in missed',
         <<n, "">> \in DOMAIN births => <<n, "">> \in DOMAIN births'
  PROVE  View(n)'
  <1>1. n \notin moved => FaithfulPart(n)'
    BY DEF View, FaithfulPart
  <1>2. Heard(n)' => Heard(n)
    BY DEF Heard
  <1>3. DeadPart(n)'
    BY <1>2 DEF View, DeadPart
  <1>4. ASSUME n \notin moved PROVE LivingPart(n)'
    <2>1. SUFFICES ASSUME Heard(n)', phase[n] = "up"
                   PROVE  /\ BirthsIn(wire[n]) # {} \/ <<n, "">> \in DOMAIN births'
                          /\ \A m \in DOMAIN metrics[n] :
                               /\ IsKnown(metrics[n], wire[n], ToParse(n),
                                          parsing'.create, Seen(n), m)
                               /\ IsCurrent(metrics[n], wire[n], ToParse(n), Seen(n), m)
      BY DEF LivingPart
    <2>2. /\ BirthsIn(wire[n]) # {} \/ <<n, "">> \in DOMAIN births
          /\ \A m \in DOMAIN metrics[n] :
               /\ IsKnown(metrics[n], wire[n], ToParse(n), parsing.create, Seen(n), m)
               /\ IsCurrent(metrics[n], wire[n], ToParse(n), Seen(n), m)
      BY <1>2, <1>4, <2>1 DEF View, LivingPart
    <2> QED
      BY <2>2, NoEntries
  <1> QED
    BY <1>1, <1>3, <1>4 DEF View

-----------------------------------------------------------------------------
(* The steps of the senders. *)

\* One node does something that the receiver has not heard of.
LEMMA OneSends ==
  ASSUME ViewInv, NEW n \in Nodes, UNCHANGED receiverVars,
         \A k \in Nodes \ {n} :
           /\ metrics'[k] = metrics[k] /\ wire'[k] = wire[k]
           /\ phase'[k] = phase[k] /\ (k \in missed => k \in missed'),
         moved \subseteq moved', n # own => View(n)'
  PROVE  ViewInv'
  <1>1. UNCHANGED <<own, births, parsing>>
    BY DEF receiverVars
  <1>2. ASSUME NEW k \in Nodes \ {own}, k # n
        PROVE  View(k)'
    <2>1. View(k) /\ ToParse(k)' = ToParse(k) /\ Seen(k)' = Seen(k)
      BY <1>1 DEF ViewInv, View, ToParse, Seen
    <2> QED
      BY <1>1, <1>2, <2>1, ViewStays
  <1> QED
    BY <1>1, <1>2 DEF ViewInv, View

\* The parts of the view that do not look at the sender's metrics.
LEMMA MetricsMove ==
  ASSUME NEW n \in Nodes \ {own}, View(n), UNCHANGED receiverVars,
         UNCHANGED <<wire, missed>>
  PROVE  /\ n \notin moved => FaithfulPart(n)'
         /\ (phase'[n] = "up") = (phase[n] = "up") => DeadPart(n)'
         /\ Heard(n)' <=> Heard(n)
  <1>1. ToParse(n)' = ToParse(n) /\ Seen(n)' = Seen(n) /\ (Heard(n)' <=> Heard(n))
    BY DEF receiverVars, ToParse, Seen, Heard
  <1> QED
    BY <1>1 DEF View, FaithfulPart, DeadPart

\* The metrics of a node that is not in session change.
LEMMA OffLineView ==
  ASSUME ViewInv, NEW n \in Nodes, UNCHANGED receiverVars,
         UNCHANGED <<wire, missed>>, phase[n] # "up", phase'[n] # "up",
         \A k \in Nodes \ {n} : metrics'[k] = metrics[k] /\ phase'[k] = phase[k],
         moved \subseteq moved'
  PROVE  ViewInv'
  <1>1. ASSUME n # own PROVE View(n)'
    <2>1. View(n) /\ n \in Nodes \ {own}
      BY <1>1 DEF ViewInv, View
    <2>2. (n \notin moved => FaithfulPart(n)') /\ DeadPart(n)'
      BY <2>1, MetricsMove
    <2>3. LivingPart(n)'
      BY DEF LivingPart
    <2> QED
      BY <2>2, <2>3 DEF View
  <1> QED
    BY <1>1, OneSends

LEMMA StartView ==
  ASSUME Core, ViewInv, NEW n \in Nodes, NodeStart(n)
  PROVE  ViewInv'
  <1>1. /\ UNCHANGED receiverVars /\ UNCHANGED <<wire, missed>>
        /\ phase[n] # "up" /\ phase'[n] # "up" /\ moved \subseteq moved'
        /\ \A k \in Nodes \ {n} :
             metrics'[k] = metrics[k] /\ phase'[k] = phase[k]
    BY DEF NodeStart, Core, NodesCore
  <1> QED
    BY <1>1, OffLineView

LEMMA AddView ==
  ASSUME Core, ViewInv, NEW n \in Nodes, NEW v \in Values, AddMetric(n, v)
  PROVE  ViewInv'
  <1>1. /\ UNCHANGED receiverVars /\ UNCHANGED <<wire, missed, phase, moved>>
        /\ phase[n] # "up"
        /\ \A k \in Nodes \ {n} : metrics'[k] = metrics[k]
    BY DEF AddMetric, Core, NodesCore
  <1> QED
    BY <1>1, OffLineView

LEMMA WriteView ==
  ASSUME Core, ViewInv, NEW n \in Nodes, NEW v \in Values, WriteMetricValue(n, v)
  PROVE  ViewInv'
  <1> DEFINE p == metrics[n]
             r == metrics'[n]
             w == <<n, v[1], v[2]>>
  <1>1. /\ UNCHANGED receiverVars /\ UNCHANGED <<wire, missed, phase, moved>>
        /\ v[1] \in DOMAIN p
        /\ \A k \in Nodes \ {n} : metrics'[k] = metrics[k]
    BY DEF WriteMetricValue, Core, NodesCore
  <1>2. r = [p EXCEPT ![v[1]] = SetValue(@, w)]
    BY DEF WriteMetricValue, Core, NodesCore
  <1>3. ASSUME n # own PROVE View(n)'
    <2>1. View(n) /\ n \in Nodes \ {own}
      BY <1>3 DEF ViewInv, View
    <2>2. \A m \in DOMAIN p : p[m] \in Metric
      BY <2>1, ViewTypes DEF IsPayload
    <2>3. ASSUME NEW m \in DOMAIN p
          PROVE  /\ r[m].alias = p[m].alias
                 /\ r[m].updated \/ (~p[m].updated /\ r[m].value = p[m].value)
                 /\ m \in DOMAIN r /\ DOMAIN r = DOMAIN p
      <3>1. r[m] = IF m = v[1] THEN SetValue(p[m], w) ELSE p[m]
        BY <1>2
      <3>2. SetValue(p[m], w).alias = p[m].alias
            /\ SetValue(p[m], w).value = w
            /\ SetValue(p[m], w).updated = (p[m].updated \/ p[m].value # w)
        BY <2>2 DEF SetValue, Metric
      <3>3. p[m].updated \in BOOLEAN
        BY <2>2 DEF Metric
      <3>4. DOMAIN r = DOMAIN p
        BY <1>2
      <3> QED
        BY <3>1, <3>2, <3>3, <3>4
    <2> HIDE DEF r, p
    <2>4. (n \notin moved => FaithfulPart(n)') /\ DeadPart(n)' /\ (Heard(n)' <=> Heard(n))
      BY <1>1, <2>1, MetricsMove
    <2>5. ToParse(n)' = ToParse(n) /\ Seen(n)' = Seen(n)
          /\ parsing' = parsing /\ births' = births
      BY <1>1 DEF receiverVars, ToParse, Seen
    <2>6. ASSUME NEW q, NEW es, NEW b, NEW m \in DOMAIN p,
                 IsCurrent(p, q, es, b, m)
          PROVE  IsCurrent(r, q, es, b, m)
      <3>1. CASE r[m].updated
        BY <3>1 DEF IsCurrent
      <3>2. CASE ~r[m].updated
        <4>1. ~p[m].updated /\ r[m].value = p[m].value
          BY <2>3, <3>2
        <4> QED
          BY <2>6, <4>1 DEF IsCurrent, Says
      <3> QED
        BY <3>1, <3>2
    <2>7. \A m \in DOMAIN p : \A q, es, c, b :
            IsKnown(p, q, es, c, b, m) => IsKnown(r, q, es, c, b, m)
      BY <2>3, SameNumbers
    <2>8. DOMAIN r \subseteq DOMAIN p
      BY <1>2 DEF r, p
    <2>9. n \notin moved => LivingPart(n)'
      BY <1>1, <2>1, <2>4, <2>5, <2>6, <2>7, <2>8 DEF View, LivingPart, r, p
    <2> QED
      BY <1>1, <2>4, <2>9 DEF View
  <1> QED
    BY <1>1, <1>3, OneSends

\* The queue r is q and a message of that type at its end.
Forwards(q, type, entries, r) ==
  \E x \in Messages : x.levels[3] = type /\ x.entries = entries /\ Grows(q, x, r)

\* What another node than the receiver says of itself is forwarded.
LEMMA NodeForwards ==
  ASSUME Conforming, NEW n \in Nodes \ {own}, NEW entries \in SUBSET Entry,
         NEW type \in {"NBIRTH", "NDATA", "NDEATH"}, NEW q \in Seq(Messages)
  PROVE  Forwards(q, type, entries, Forwarded(q, Message(n, type, "", entries)))
  <1> DEFINE x == Message(n, type, "", entries)
  <1>1. type \in NodeMessageType /\ type # "NCMD"
    BY DEF NodeMessageType
  <1>2. x \in Messages /\ x.entries = entries
    BY <1>1, NodeNames
  <1>3. x.levels = <<"spBv1.0", "Group", type, n>>
    <2>1. Documented(n)
      BY DEF Documented
    <2> QED
      BY <2>1 DEF Message, NameOf
  <1>4. x.levels[3] = type /\ Subscribed(x.levels)
    <2> HIDE DEF x
    <2>1. /\ <<"spBv1.0", "Group", type, n>>[3] = type
          /\ <<"spBv1.0", "Group", type, n>>[1] = "spBv1.0"
      BY Zenon
    <2>2. x.levels[3] = type /\ x.levels[1] = "spBv1.0"
      BY <1>3, <2>1, Zenon
    <2> QED
      BY <1>1, <2>2 DEF Subscribed
  <1> HIDE DEF x
  <1>5. Forwarded(q, x) = Append(q, x)
    BY <1>4 DEF Forwarded
  <1> QED
    BY <1>2, <1>4, <1>5, AppendGrows DEF Forwards, x

\* Births and data: all that changed is told.
LEMMA NewsView ==
  ASSUME Conforming, Core, ViewInv, NEW n \in Nodes, NodeBirth(n) \/ NodeData(n)
  PROVE  ViewInv'
  <1> DEFINE p == metrics[n]
             q == wire[n]
             all == phase[n] # "up"
             type == IF all THEN "NBIRTH" ELSE "NDATA"
             es == WriteProtobuf(p, all)
  <1>1. /\ UNCHANGED receiverVars /\ UNCHANGED <<missed, moved>>
        /\ \A k \in Nodes \ {n} : /\ metrics'[k] = metrics[k]
                                  /\ wire'[k] = wire[k] /\ phase'[k] = phase[k]
        /\ phase'[n] = "up"
    BY DEF NodeBirth, NodeData, Send, Core, NodesCore, WireCore
  <1>2. ASSUME n # own
        PROVE  /\ metrics'[n] = ResetUpdated(p, all)
               /\ wire'[n] = Forwarded(q, Message(n, type, "", es))
    <2>1. Documented(n)
      BY <1>2 DEF Documented
    <2>2. CASE NodeBirth(n)
      <3>1. Documented(n) = TRUE /\ all = TRUE
        BY <2>1, <2>2 DEF NodeBirth, Documented
      <3>2. /\ wire' = [wire EXCEPT ![n] = Forwarded(@,
                         Message(n, "NBIRTH", "", WriteProtobuf(p, TRUE)))]
            /\ metrics' = [metrics EXCEPT ![n] = ResetUpdated(@, TRUE)]
        BY <2>2, <3>1 DEF NodeBirth, Send
      <3> QED
        BY <3>1, <3>2 DEF Core, NodesCore, WireCore
    <2>3. CASE NodeData(n)
      <3>1. all = FALSE
        BY <2>3 DEF NodeData
      <3>2. /\ wire' = [wire EXCEPT ![n] = Forwarded(@,
                         Message(n, "NDATA", "", WriteProtobuf(p, FALSE)))]
            /\ metrics' = [metrics EXCEPT ![n] = ResetUpdated(@, FALSE)]
        BY <2>3 DEF NodeData, Send
      <3> QED
        BY <3>1, <3>2 DEF Core, NodesCore, WireCore
    <2> QED
      BY <2>2, <2>3
  <1>3. ASSUME n # own PROVE View(n)'
    <2> DEFINE r == metrics'[n]
               s == wire'[n]
    <2>1. View(n) /\ n \in Nodes \ {own} /\ all \in BOOLEAN
      BY <1>3 DEF ViewInv, View
    <2>2. IsPayload(p) /\ q \in Seq(Messages) /\ WriteProtobuf(p, all) \in SUBSET Entry
      <3>1. IsPayload(p) /\ q \in Seq(Messages)
        BY <2>1, ViewTypes
      <3> QED
        BY <2>1, <3>1, EncodedIsSaid
    <2>3. PICK x \in Messages : /\ x.levels[3] = type /\ x.entries = es
                                /\ Grows(q, x, s)
      <3>1. Forwards(q, type, es, s)
        <4>1. type \in {"NBIRTH", "NDATA", "NDEATH"} /\ es \in SUBSET Entry
          BY <2>2
        <4> HIDE DEF type, es, q
        <4> QED
          BY <1>2, <1>3, <2>1, <2>2, <4>1, NodeForwards
      <3> QED
        BY <3>1 DEF Forwards
    <2>4. r = ResetUpdated(p, all)
      BY <1>2, <1>3
    <2>5. DOMAIN r = DOMAIN p
      BY <2>1, <2>2, <2>4, ResetPayload DEF Like
    <2>6. ToParse(n)' = ToParse(n) /\ Seen(n)' = Seen(n)
          /\ parsing' = parsing /\ births' = births
      BY <1>1 DEF receiverVars, ToParse, Seen
    <2> HIDE DEF r, s, all
    <2>7. /\ BirthsIn(s) = IF all THEN BirthsIn(q) \union {Len(q) + 1} ELSE BirthsIn(q)
          /\ NewsIn(s) = NewsIn(q) \union {Len(q) + 1}
          /\ \A i \in NewsIn(q) : s[i] = q[i]
          /\ s[Len(q) + 1] = x
      BY <2>1, <2>3, NewsGrow
    <2>8. ASSUME n \notin moved PROVE FaithfulPart(n)' /\ LivingPart(n)'
      <3>1. PayloadOf(n, p, p)
        BY <2>1, <2>8, ViewTypes
      <3>2. FaithfulPart(n)'
        <4>1. Faithful(x.entries)
          BY <2>1, <2>3, <3>1, WrittenIsFaithful
        <4> QED
          BY <2>1, <2>6, <2>7, <2>8, <4>1 DEF View, FaithfulPart, s
      <3>3. ASSUME Heard(n)'
            PROVE  /\ BirthsIn(s) # {} \/ <<n, "">> \in DOMAIN births
                   /\ \A m \in DOMAIN p :
                        /\ IsKnown(r, s, ToParse(n), parsing.create, Seen(n), m)
                        /\ IsCurrent(r, s, ToParse(n), Seen(n), m)
        <4>1. ~all => /\ BirthsIn(q) # {} \/ <<n, "">> \in DOMAIN births
                      /\ \A m \in DOMAIN p :
                           /\ IsKnown(p, q, ToParse(n), parsing.create, Seen(n), m)
                           /\ IsCurrent(p, q, ToParse(n), Seen(n), m)
          BY <1>1, <2>1, <2>7, <2>8, <3>3 DEF View, LivingPart, Heard, all, s
        <4>2. BirthsIn(s) # {} \/ <<n, "">> \in DOMAIN births
          BY <2>7, <4>1
        <4>3. ASSUME NEW m \in DOMAIN p
              PROVE  /\ IsKnown(r, s, ToParse(n), parsing.create, Seen(n), m)
                     /\ IsCurrent(r, s, ToParse(n), Seen(n), m)
          BY <2>1, <2>3, <2>4, <3>1, <4>1, NewsSent
        <4> QED
          BY <4>2, <4>3
      <3>4. LivingPart(n)'
        BY <2>5, <2>6, <3>3 DEF LivingPart, r, s
      <3> QED
        BY <3>2, <3>4
    <2>9. DeadPart(n)'
      BY <1>1 DEF DeadPart
    <2> QED
      BY <1>1, <2>8, <2>9 DEF View
  <1> QED
    BY <1>1, <1>3, OneSends

\* A death, announced or by the will of a connection that loses its last
\* messages.
LEMMA DeathView ==
  ASSUME Conforming, Core, ViewInv, NEW n \in Nodes,
         NodeDeath(n) \/ ConnectionBreaks(n)
  PROVE  ViewInv'
  <1> DEFINE p == metrics[n]
             q == wire[n]
             x == Message(n, "NDEATH", "", {})
  <1>1. /\ UNCHANGED receiverVars /\ UNCHANGED <<metrics, missed, moved>>
        /\ phase' = [phase EXCEPT ![n] = "down"]
        /\ \E i \in 0..Len(q) :
             wire' = [wire EXCEPT ![n] = Forwarded(SubSeq(q, 1, i), x)]
    <2>1. q \in Seq(Messages)
      BY DEF Core, WireCore
    <2>2. CASE NodeDeath(n)
      <3>1. Len(q) \in 0..Len(q) /\ SubSeq(q, 1, Len(q)) = q
        BY <2>1
      <3>2. wire' = [wire EXCEPT ![n] = Forwarded(q, x)]
        BY <2>2 DEF NodeDeath, Send
      <3> QED
        BY <2>2, <3>1, <3>2 DEF NodeDeath
    <2>3. CASE ConnectionBreaks(n)
      BY <2>3 DEF ConnectionBreaks
    <2> QED
      BY <2>2, <2>3
  <1>2. PICK i \in 0..Len(q) :
          wire' = [wire EXCEPT ![n] = Forwarded(SubSeq(q, 1, i), x)]
    BY <1>1
  <1> DEFINE cut == SubSeq(q, 1, i)
             s == wire'[n]
  <1>3. \A k \in Nodes \ {n} : wire'[k] = wire[k] /\ phase'[k] = phase[k]
    BY <1>1, <1>2 DEF Core, NodesCore, WireCore
  <1>4. s = Forwarded(cut, x) /\ phase'[n] = "down"
    BY <1>1, <1>2 DEF Core, NodesCore, WireCore
  <1>5. ASSUME n # own PROVE View(n)'
    <2>1. View(n) /\ n \in Nodes \ {own} /\ q \in Seq(Messages)
      BY <1>5 DEF ViewInv, View, Core, WireCore
    <2>2. /\ cut \in Seq(Messages)
          /\ \A j \in NewsIn(cut) : j \in NewsIn(q) /\ cut[j] = q[j]
      BY <2>1, OfCut DEF NewsIn
    <2> HIDE DEF cut, s, q
    <2>3. PICK y \in Messages : y.levels[3] = "NDEATH" /\ Grows(cut, y, s)
      <3>1. Forwards(cut, "NDEATH", {}, s)
        BY <1>4, <2>1, <2>2, NodeForwards
      <3> QED
        BY <3>1 DEF Forwards
    <2>4. /\ \A es, b : IsStale(s, es, b)
          /\ NewsIn(s) = NewsIn(cut) /\ \A j \in NewsIn(cut) : s[j] = cut[j]
      BY <2>3, DeathSent
    <2>5. ToParse(n)' = ToParse(n)
      BY <1>1 DEF receiverVars, ToParse
    <2>6. \A j \in NewsIn(s) : j \in NewsIn(q) /\ s[j] = q[j]
      BY <2>2, <2>4
    <2>7. n \notin moved => FaithfulPart(n)'
      BY <1>1, <2>1, <2>5, <2>6 DEF View, FaithfulPart, s, q
    <2>8. LivingPart(n)' /\ DeadPart(n)'
      BY <1>4, <2>4 DEF LivingPart, DeadPart, s
    <2> QED
      BY <1>1, <2>7, <2>8 DEF View
  <1> QED
    BY <1>1, <1>3, <1>5, OneSends

\* Messages of devices, and commands.
LEMMA OtherView ==
  ASSUME Core, ViewInv, NEW n \in Nodes,
         \/ \E v \in Values : NodeCommand(n, v)
         \/ \E d \in Devices, type \in DeviceMessageType : DeviceMessage(n, d, type)
  PROVE  ViewInv'
  <1> DEFINE q == wire[n]
             s == wire'[n]
  <1>1. /\ UNCHANGED receiverVars /\ UNCHANGED <<metrics, phase, missed, moved>>
        /\ \A k \in Nodes \ {n} : wire'[k] = wire[k]
        /\ \E type, d, es :
             /\ IF d = "" THEN type = "NCMD" ELSE type \in DeviceMessageType
             /\ s = Forwarded(q, Message(n, type, d, es))
    <2>1. CASE \E v \in Values : NodeCommand(n, v)
      <3>1. PICK v \in Values : NodeCommand(n, v)
        BY <2>1
      <3>2. PICK es : wire' = [wire EXCEPT ![n] =
                                 Forwarded(@, Message(n, "NCMD", "", es))]
        BY <3>1 DEF NodeCommand, Send
      <3> QED
        BY <3>1, <3>2 DEF NodeCommand, Core, WireCore
    <2>2. CASE \E d \in Devices, type \in DeviceMessageType :
                 DeviceMessage(n, d, type)
      <3>1. PICK d \in Devices, type \in DeviceMessageType :
                   DeviceMessage(n, d, type)
        BY <2>2
      <3>2. d # ""
        BY InboundAssumption
      <3>3. wire' = [wire EXCEPT ![n] =
                       Forwarded(@, Message(n, type, d, DeviceEntries(n)))]
        BY <3>1 DEF DeviceMessage, Send
      <3> QED
        BY <3>1, <3>2, <3>3 DEF DeviceMessage, Core, WireCore
    <2> QED
      BY <2>1, <2>2
  <1>2. PICK type, d, es :
          /\ IF d = "" THEN type = "NCMD" ELSE type \in DeviceMessageType
          /\ s = Forwarded(q, Message(n, type, d, es))
    BY <1>1
  <1>3. type \notin {"NBIRTH", "NDATA", "NDEATH"}
    BY <1>2 DEF DeviceMessageType
  <1>4. ASSUME n # own PROVE View(n)'
    <2> DEFINE x == Message(n, type, d, es)
    <2>1. View(n) /\ n \in Nodes \ {own} /\ q \in Seq(Messages)
      BY <1>4 DEF ViewInv, View, Core, WireCore
    <2>2. x.levels[3] = type
      BY <1>2, <1>3 DEF Message, NameOf
    <2>3. s = q \/ (s = Append(q, x))
      BY <1>2 DEF Forwarded
    <2>4. CASE s = q
      <3>1. ToParse(n)' = ToParse(n) /\ Seen(n)' = Seen(n)
            /\ parsing' = parsing /\ births' = births
        BY <1>1 DEF receiverVars, ToParse, Seen
      <3> QED
        BY <1>1, <2>1, <2>4, <3>1, ViewStays
    <2>5. CASE s = Append(q, x)
      <3> HIDE DEF x, q, s
      <3>1. Grows(q, x, s)
        BY <2>1, <2>5, AppendProperties DEF Grows
      <3>2. /\ \A p, fs, c, b, m : IsKnown(p, q, fs, c, b, m)
                                      <=> IsKnown(p, s, fs, c, b, m)
            /\ \A p, fs, b, m : IsCurrent(p, q, fs, b, m) <=> IsCurrent(p, s, fs, b, m)
            /\ \A fs, b : IsStale(q, fs, b) <=> IsStale(s, fs, b)
            /\ BirthsIn(s) = BirthsIn(q) /\ NewsIn(s) = NewsIn(q)
            /\ \A i \in NewsIn(q) : s[i] = q[i]
        BY <1>3, <2>2, <3>1, OtherSent
      <3>3. ToParse(n)' = ToParse(n) /\ Seen(n)' = Seen(n)
            /\ parsing' = parsing /\ births' = births
        BY <1>1 DEF receiverVars, ToParse, Seen
      <3>4. Heard(n)' <=> Heard(n)
        BY <1>1, <3>2 DEF Heard, q, s
      <3>5. n \notin moved => FaithfulPart(n)'
        BY <1>1, <2>1, <3>2, <3>3 DEF View, FaithfulPart, q, s
      <3>6. DeadPart(n)'
        BY <1>1, <2>1, <3>2, <3>3, <3>4 DEF View, DeadPart, q, s
      <3>7. n \notin moved => LivingPart(n)'
        BY <1>1, <2>1, <3>2, <3>3, <3>4 DEF View, LivingPart, q, s
      <3> QED
        BY <1>1, <3>5, <3>6, <3>7 DEF View
    <2> QED
      BY <2>3, <2>4, <2>5
  <1> QED
    BY <1>1, <1>4, OneSends

LEMMA LossView ==
  ASSUME Core, ViewInv, NEW n \in Nodes, MessagesLost(n)
  PROVE  ViewInv'
  <1>1. /\ UNCHANGED receiverVars /\ UNCHANGED <<metrics, phase, moved>>
        /\ wire'[n] = <<>> /\ n \in missed'
        /\ \A k \in Nodes \ {n} :
             wire'[k] = wire[k] /\ (k \in missed => k \in missed')
    BY DEF MessagesLost, Core, WireCore
  <1>2. Len(<<>>) = 0 /\ 1..0 = {}
    OBVIOUS
  <1>3. NewsIn(<<>>) = {} /\ BirthsIn(<<>>) = {}
    BY <1>2 DEF NewsIn, BirthsIn, Of
  <1>4. ASSUME n # own PROVE View(n)'
    <2>1. View(n)
      BY <1>4 DEF ViewInv, View
    <2>2. ~Heard(n)' /\ ToParse(n)' = ToParse(n)
      BY <1>1, <1>3 DEF Heard, ToParse, receiverVars
    <2>3. n \notin moved => FaithfulPart(n)'
      BY <1>1, <1>3, <2>1, <2>2 DEF View, FaithfulPart
    <2> QED
      BY <1>1, <2>2, <2>3 DEF View, LivingPart, DeadPart
  <1> QED
    BY <1>1, <1>4, OneSends

-----------------------------------------------------------------------------
(* The steps of the receiver. *)

LEMMA IdleParser ==
  ASSUME NEW n
  PROVE  parsing = Idle => ToParse(n) = {}
  <1>1. Idle.entries = {}
    BY DEF Idle
  <1> QED
    BY <1>1 DEF ToParse

\* A message of one node arrives: the views of the others stay.
LEMMA OneArrives ==
  ASSUME ViewInv, NEW n \in Nodes, UNCHANGED <<own, metrics, phase, moved>>,
         parsing = Idle, parsing' = Idle \/ parsing'.topic = <<n, "">>,
         \A k \in Nodes \ {n} :
           /\ wire'[k] = wire[k] /\ Seen(k)' = Seen(k)
           /\ <<k, "">> \in DOMAIN births => <<k, "">> \in DOMAIN births'
           /\ k \in missed => k \in missed',
         n # own => View(n)'
  PROVE  ViewInv'
  <1>1. ASSUME NEW k \in Nodes \ {own}, k # n
        PROVE  View(k)'
    <2>1. View(k) /\ ToParse(k) = {}
      BY IdleParser DEF ViewInv, View
    <2>2. ToParse(k)' = {}
      <3>1. CASE parsing' = Idle
        BY <3>1, IdleParser DEF ToParse, Idle
      <3>2. CASE parsing'.topic = <<n, "">>
        <4>1. <<n, "">>[1] = n /\ <<k, "">>[1] = k
          BY Pair
        <4>2. parsing'.topic # <<k, "">>
          BY <1>1, <3>2, <4>1
        <4> QED
          BY <4>2 DEF ToParse
      <3> QED
        BY <3>1, <3>2
    <2> QED
      BY <1>1, <2>1, <2>2, ViewStays
  <1> QED
    BY <1>1 DEF ViewInv, View

\* Births and data that are given to the parser.
LEMMA TakenView ==
  ASSUME Core, NEW n \in Nodes \ {own}, View(n), parsing = Idle,
         wire[n] # <<>>, wire'[n] = Tail(wire[n]),
         metrics'[n] = metrics[n], phase'[n] = phase[n], moved' = moved,
         1 \in NewsIn(wire[n]), ToParse(n)' = wire[n][1].entries,
         parsing'.create \in BOOLEAN,
         1 \in BirthsIn(wire[n]) => parsing'.create \/ ToParse(n)' = {},
         1 \notin BirthsIn(wire[n]) => missed' = missed,
         Seen(n)' = Seen(n), <<n, "">> \in DOMAIN births'
  PROVE  View(n)'
  <1> DEFINE p == metrics[n]
             q == wire[n]
             r == wire'[n]
             es == ToParse(n)'
             b == Seen(n)
  <1>1. q \in Seq(Messages) /\ IsPayload(p) /\ ToParse(n) = {}
    BY ViewTypes, IdleParser
  <1>2. Shrinks(q, r)
    BY <1>1, TailShrinks
  <1>3. q[1].entries = es /\ Seen(n)' = b /\ p = metrics'[n]
    OBVIOUS
  <1>4. Heard(n)' => Heard(n)
    BY <1>2 DEF Heard, Shrinks, Shifted
  <1>5. 1 \in NewsIn(q) /\ (1 \in BirthsIn(q) => parsing'.create \/ es = {})
    OBVIOUS
  <1> HIDE DEF p, q, r, es, b
  <1>6. ASSUME n \notin moved PROVE FaithfulPart(n)'
    <2>1. \A i \in NewsIn(r) : Faithful(r[i].entries)
      BY <1>2, <1>6 DEF View, FaithfulPart, Shrinks, Shifted, q
    <2>2. Faithful(es)
      BY <1>3, <1>5, <1>6 DEF View, FaithfulPart, q
    <2> QED
      BY <2>1, <2>2 DEF FaithfulPart, r, es
  <1>7. ASSUME NEW m, Conveyed(p, q, {}, parsing.create, b, m)
        PROVE  Conveyed(p, r, es, parsing'.create, b, m)
    <2>1. Given(q, es, parsing'.create)
      BY <1>3, <1>5 DEF Given
    <2> QED
      BY <1>2, <1>7, <2>1, NewsTaken
  <1>8. ASSUME n \notin moved PROVE LivingPart(n)'
    <2>1. SUFFICES ASSUME Heard(n)', phase[n] = "up", NEW m \in DOMAIN p
                   PROVE  /\ IsKnown(p, r, es, parsing'.create, b, m)
                          /\ IsCurrent(p, r, es, b, m)
      BY <1>3 DEF LivingPart, r, es
    <2>2. IsKnown(p, q, {}, parsing.create, b, m) /\ IsCurrent(p, q, {}, b, m)
      BY <1>1, <1>4, <1>8, <2>1 DEF View, LivingPart, p, q, b
    <2> QED
      BY <1>7, <2>2 DEF Conveyed
  <1>9. DeadPart(n)'
    <2>1. SUFFICES ASSUME Heard(n)', phase[n] # "up"
                   PROVE  IsStale(r, es, b)
      BY <1>3 DEF DeadPart, r, es
    <2>2. IsStale(q, {}, b)
      BY <1>1, <1>4, <2>1 DEF View, DeadPart, q, b
    <2> QED
      BY <1>2, <1>5, <2>2, NewsTakenStale
  <1> QED
    BY <1>6, <1>8, <1>9 DEF View

\* Messages that are not given to the parser.
LEMMA SkippedView ==
  ASSUME Core, NEW n \in Nodes \ {own}, View(n), parsing = Idle,
         wire[n] # <<>>, wire'[n] = Tail(wire[n]),
         metrics'[n] = metrics[n], phase'[n] = phase[n], moved' = moved,
         1 \notin BirthsIn(wire[n]), missed' = missed, parsing' = parsing,
         1 \in NewsIn(wire[n]) => DOMAIN Seen(n) = {},
         <<n, "">> \in DOMAIN births => <<n, "">> \in DOMAIN births',
         DOMAIN Seen(n)' = DOMAIN Seen(n),
         \A l \in DOMAIN Seen(n) : Seen(n)'[l].alias = Seen(n)[l].alias,
         IF 1 \in DeathsIn(wire[n]) THEN \A l \in DOMAIN Seen(n) : ~Seen(n)'[l].valid
         ELSE Seen(n)' = Seen(n)
  PROVE  View(n)'
  <1> DEFINE p == metrics[n]
             q == wire[n]
             r == wire'[n]
             b == Seen(n)
             v == Seen(n)'
  <1>1. /\ q \in Seq(Messages) /\ IsPayload(p) /\ ToParse(n) = {}
        /\ n \notin moved => \A i \in NewsIn(q) : AllSaid(n, p, q[i].entries)
    BY ViewTypes, IdleParser
  <1>2. Shrinks(q, r)
    BY <1>1, TailShrinks
  <1>3. ToParse(n)' = {} /\ p = metrics'[n]
    BY <1>1 DEF ToParse
  <1>4. Heard(n)' => Heard(n)
    BY <1>2 DEF Heard, Shrinks, Shifted
  <1>5. /\ 1 \notin BirthsIn(q) /\ (1 \in NewsIn(q) => DOMAIN b = {})
        /\ DOMAIN v = DOMAIN b /\ \A l \in DOMAIN b : v[l].alias = b[l].alias
        /\ IF 1 \in DeathsIn(q) THEN \A l \in DOMAIN b : ~v[l].valid ELSE v = b
    OBVIOUS
  <1> HIDE DEF p, q, r, b, v
  <1>6. ASSUME n \notin moved PROVE FaithfulPart(n)'
    <2>1. \A i \in NewsIn(r) : Faithful(r[i].entries)
      BY <1>2, <1>6 DEF View, FaithfulPart, Shrinks, Shifted, q
    <2> QED
      BY <1>3, <2>1 DEF FaithfulPart, r, Faithful
  <1>7. ASSUME n \notin moved, NEW m \in DOMAIN p,
               Conveyed(p, q, {}, parsing.create, b, m)
        PROVE  Conveyed(p, r, {}, parsing'.create, v, m)
    BY <1>1, <1>2, <1>5, <1>7, MessageSkipped
  <1>8. ASSUME n \notin moved PROVE LivingPart(n)'
    <2>1. SUFFICES ASSUME Heard(n)', phase[n] = "up"
                   PROVE  /\ BirthsIn(r) # {} \/ <<n, "">> \in DOMAIN births'
                          /\ \A m \in DOMAIN p :
                               /\ IsKnown(p, r, {}, parsing'.create, v, m)
                               /\ IsCurrent(p, r, {}, v, m)
      BY <1>3 DEF LivingPart, r, v
    <2>2. /\ BirthsIn(q) # {} \/ <<n, "">> \in DOMAIN births
          /\ \A m \in DOMAIN p :
               /\ IsKnown(p, q, {}, parsing.create, b, m)
               /\ IsCurrent(p, q, {}, b, m)
      BY <1>1, <1>4, <1>8, <2>1 DEF View, LivingPart, p, q, b
    <2>3. BirthsIn(q) # {} => BirthsIn(r) # {}
      <3>1. ASSUME NEW i \in BirthsIn(q) PROVE i - 1 \in BirthsIn(r)
        BY <1>2, <1>5 DEF Shrinks, Shifted
      <3> QED
        BY <3>1
    <2> QED
      BY <1>7, <1>8, <2>2, <2>3 DEF Conveyed
  <1>9. DeadPart(n)'
    <2>1. SUFFICES ASSUME Heard(n)', phase[n] # "up"
                   PROVE  IsStale(r, {}, v)
      BY <1>3 DEF DeadPart, r, v
    <2>2. IsStale(q, {}, b)
      BY <1>1, <1>4, <2>1 DEF View, DeadPart, q, b
    <2> QED
      BY <1>1, <1>2, <1>5, <2>2, SkippedStale
  <1> QED
    BY <1>6, <1>8, <1>9 DEF View

\* A birth topic that is made adds nothing to what is known.
LEMMA CreatedSeen ==
  ASSUME NEW topics, births' = Created(topics), NEW n
  PROVE  Seen(n)' = Seen(n) /\ DOMAIN births \subseteq DOMAIN births'
  BY DEF Created, Seen

\* The parser is given the first message of a node.
LEMMA ParserStarts ==
  ASSUME NEW n, NEW create \in BOOLEAN, NEW message,
         Parse(<<n, "">>, create, message)
  PROVE  /\ ToParse(n)' = message.entries /\ parsing'.create \in BOOLEAN
         /\ parsing'.create = create \/ message.entries = {}
         /\ parsing' = Idle \/ parsing'.topic = <<n, "">>
  <1>1. CASE message.entries = {}
    <2>1. parsing' = Idle
      BY <1>1 DEF Parse
    <2>2. Idle.entries = {} /\ Idle.create = FALSE
      BY DEF Idle
    <2> QED
      BY <1>1, <2>1, <2>2 DEF ToParse
  <1>2. CASE message.entries # {}
    BY <1>2 DEF Parse, ToParse
  <1> QED
    BY <1>1, <1>2

\* What a message of a node that arrives is, by its place at the head.
LEMMA HeadIs ==
  ASSUME Core, NEW n \in Nodes, NEW type \in NodeMessageType,
         Arrives(n, type), UNCHANGED <<own, metrics, moved>>
  PROVE  /\ wire[n] # <<>> /\ wire'[n] = Tail(wire[n]) /\ parsing = Idle
         /\ \A k \in Nodes \ {n} : wire'[k] = wire[k]
         /\ UNCHANGED <<own, metrics, phase, moved>>
         /\ Head(wire[n]) = wire[n][1] /\ NodeTopic(n) = <<n, "">>
         /\ 1 \in BirthsIn(wire[n]) <=> type = "NBIRTH"
         /\ 1 \in DeathsIn(wire[n]) <=> type = "NDEATH"
         /\ 1 \in NewsIn(wire[n]) <=> type \in {"NBIRTH", "NDATA"}
         /\ type = "NCMD" /\ own # "" => own = n
  <1>1. /\ wire \in [Nodes -> Seq(Messages)] /\ wire[n] \in Seq(Messages)
        /\ wire[n] # <<>>
    BY DEF Core, WireCore, Arrives
  <1>2. /\ wire'[n] = Tail(wire[n]) /\ parsing = Idle
        /\ \A k \in Nodes \ {n} : wire'[k] = wire[k]
        /\ UNCHANGED <<own, metrics, phase, moved>>
    BY <1>1 DEF Arrives
  <1>3. /\ Head(wire[n]).levels = <<"spBv1.0", "Group", type, n>>
        /\ NodeTopic(n) = <<n, "">> /\ (type = "NCMD" /\ own # "" => own = n)
    BY NodeArrival DEF Core
  <1>4. Head(wire[n]).levels[3] = type
    <2>1. <<"spBv1.0", "Group", type, n>>[3] = type
      OBVIOUS
    <2> QED
      BY <1>3, <2>1, Zenon
  <1> QED
    BY <1>1, <1>2, <1>3, <1>4, TailShrinks

LEMMA BirthArrives ==
  ASSUME Core, ViewInv, NEW n \in Nodes, HandleNodeBirthMessage(n)
  PROVE  ViewInv'
  <1>1. /\ Arrives(n, "NBIRTH") /\ "NBIRTH" \in NodeMessageType
        /\ UNCHANGED <<own, metrics, phase, moved>>
    BY DEF HandleNodeBirthMessage, NodeMessageType, Arrives
  <1>2. /\ wire[n] # <<>> /\ wire'[n] = Tail(wire[n]) /\ parsing = Idle
        /\ \A k \in Nodes \ {n} : wire'[k] = wire[k]
        /\ Head(wire[n]) = wire[n][1] /\ NodeTopic(n) = <<n, "">>
        /\ 1 \in BirthsIn(wire[n]) /\ 1 \in NewsIn(wire[n])
    BY <1>1, HeadIs
  <1>3. /\ births' = Created({<<n, "">>}) /\ missed' = missed \ {n}
        /\ n = own => parsing' = parsing
        /\ n # own => Parse(<<n, "">>, TRUE, Head(wire[n]))
    BY <1>2, NodeBirthTopic DEF HandleNodeBirthMessage
  <1>4. /\ \A k : Seen(k)' = Seen(k)
        /\ DOMAIN births \subseteq DOMAIN births'
    BY <1>3, CreatedSeen
  <1>5. /\ n # own => ToParse(n)' = Head(wire[n]).entries
        /\ n # own => parsing'.create \in BOOLEAN
        /\ n # own => parsing'.create \/ Head(wire[n]).entries = {}
        /\ parsing' = Idle \/ parsing'.topic = <<n, "">>
    <2>1. CASE n = own
      BY <1>2, <1>3, <2>1
    <2>2. CASE n # own
      BY <1>3, <2>2, ParserStarts
    <2> QED
      BY <2>1, <2>2
  <1>6. ASSUME n # own PROVE View(n)'
    <2>1. n \in Nodes \ {own} /\ View(n)
      BY <1>6 DEF ViewInv, View
    <2>2. <<n, "">> \in DOMAIN births'
      BY <1>3, <1>6, NodeBirthTopic DEF Created
    <2>3. metrics'[n] = metrics[n] /\ phase'[n] = phase[n]
      BY <1>1
    <2>4. /\ ToParse(n)' = wire[n][1].entries /\ parsing'.create \in BOOLEAN
          /\ parsing'.create \/ ToParse(n)' = {}
      BY <1>2, <1>5, <1>6
    <2> QED
      BY <1>1, <1>2, <1>4, <2>1, <2>2, <2>3, <2>4, TakenView
  <1> QED
    BY <1>1, <1>2, <1>3, <1>4, <1>5, <1>6, OneArrives

LEMMA DataArrives ==
  ASSUME Core, ViewInv, NEW n \in Nodes, HandleNodeDataMessage(n)
  PROVE  ViewInv'
  <1>1. /\ Arrives(n, "NDATA") /\ "NDATA" \in NodeMessageType
        /\ UNCHANGED <<own, metrics, phase, births, missed, moved>>
    BY DEF HandleNodeDataMessage, NodeMessageType, Arrives
  <1>2. /\ wire[n] # <<>> /\ wire'[n] = Tail(wire[n]) /\ parsing = Idle
        /\ \A k \in Nodes \ {n} : wire'[k] = wire[k]
        /\ Head(wire[n]) = wire[n][1] /\ NodeTopic(n) = <<n, "">>
        /\ 1 \notin BirthsIn(wire[n]) /\ 1 \notin DeathsIn(wire[n])
        /\ 1 \in NewsIn(wire[n])
    BY <1>1, HeadIs
  <1>3. \A k : Seen(k)' = Seen(k)
    BY <1>1 DEF Seen
  <1>4. CASE Known(<<n, "">>) /\ ~Publish(<<n, "">>)
    <2>1. n # own /\ <<n, "">> \in DOMAIN births
      BY <1>4, NodeBirthTopic
    <2>2. Parse(<<n, "">>, FALSE, Head(wire[n]))
      BY <1>2, <1>4 DEF HandleNodeDataMessage
    <2>3. /\ ToParse(n)' = wire[n][1].entries /\ parsing'.create \in BOOLEAN
          /\ parsing' = Idle \/ parsing'.topic = <<n, "">>
      BY <1>2, <2>2, ParserStarts
    <2>4. View(n)'
      <3>1. n \in Nodes \ {own} /\ View(n)
        BY <2>1 DEF ViewInv, View
      <3>2. metrics'[n] = metrics[n] /\ phase'[n] = phase[n]
        BY <1>1
      <3> QED
        BY <1>1, <1>2, <1>3, <2>1, <2>3, <3>1, <3>2, TakenView
    <2> QED
      BY <1>1, <1>2, <1>3, <2>3, <2>4, OneArrives
  <1>5. CASE ~(Known(<<n, "">>) /\ ~Publish(<<n, "">>))
    <2>1. parsing' = parsing
      BY <1>2, <1>5 DEF HandleNodeDataMessage
    <2>2. ASSUME n # own PROVE View(n)'
      <3>1. n \in Nodes \ {own} /\ View(n)
        BY <2>2 DEF ViewInv, View
      <3>2. <<n, "">> \notin DOMAIN births
        BY <1>5, <2>2, NodeBirthTopic DEF Known
      <3>3. DOMAIN Seen(n) = {}
        <4>1. Seen(n) = <<>>
          BY <3>2 DEF Seen
        <4> QED
          BY <4>1, NoPayload
      <3>4. metrics'[n] = metrics[n] /\ phase'[n] = phase[n]
        BY <1>1
      <3> QED
        BY <1>1, <1>2, <1>3, <2>1, <3>1, <3>3, <3>4, SkippedView
    <2> QED
      BY <1>1, <1>2, <1>3, <2>1, <2>2, OneArrives
  <1> QED
    BY <1>4, <1>5

\* A message that is not given to the payload of a node, and is not its death.
LEMMA OtherArrives ==
  ASSUME Core, ViewInv, NEW n \in Nodes, UNCHANGED <<own, metrics, phase, missed, moved>>,
         wire[n] # <<>>, wire'[n] = Tail(wire[n]), parsing = Idle,
         parsing' = Idle \/ (parsing'.topic = <<n, "">> /\ n = own),
         \A k \in Nodes \ {n} : wire'[k] = wire[k],
         \A k : Seen(k)' = Seen(k), DOMAIN births \subseteq DOMAIN births',
         1 \notin BirthsIn(wire[n]), 1 \notin DeathsIn(wire[n]),
         1 \notin NewsIn(wire[n])
  PROVE  ViewInv'
  <1>1. ASSUME n # own PROVE View(n)'
    <2>1. n \in Nodes \ {own} /\ View(n) /\ parsing' = parsing
      BY <1>1 DEF ViewInv, View
    <2>2. metrics'[n] = metrics[n] /\ phase'[n] = phase[n]
      OBVIOUS
    <2> QED
      BY <2>1, <2>2, SkippedView
  <1> QED
    BY <1>1, OneArrives

LEMMA CommandArrives ==
  ASSUME Core, ViewInv, NEW n \in Nodes, HandleNodeCommandMessage(n)
  PROVE  ViewInv'
  <1>1. /\ Arrives(n, "NCMD") /\ "NCMD" \in NodeMessageType
        /\ UNCHANGED <<own, metrics, phase, births, missed, moved>>
    BY DEF HandleNodeCommandMessage, NodeMessageType, Arrives
  <1>2. /\ wire[n] # <<>> /\ wire'[n] = Tail(wire[n]) /\ parsing = Idle
        /\ \A k \in Nodes \ {n} : wire'[k] = wire[k]
        /\ 1 \notin BirthsIn(wire[n]) /\ 1 \notin DeathsIn(wire[n])
        /\ 1 \notin NewsIn(wire[n]) /\ (own # "" => own = n)
    BY <1>1, HeadIs
  <1>3. \A k : Seen(k)' = Seen(k)
    BY <1>1 DEF Seen
  <1>4. parsing' = Idle \/ (parsing'.topic = <<n, "">> /\ n = own)
    <2>1. CASE UNCHANGED parsing
      BY <1>2, <2>1
    <2>2. CASE own # "" /\ Parse(<<own, "">>, FALSE, Head(wire[n]))
      BY <1>2, <2>2, ParserStarts
    <2> QED
      BY <2>1, <2>2 DEF HandleNodeCommandMessage
  <1> QED
    BY <1>1, <1>2, <1>3, <1>4, OtherArrives

LEMMA DeathArrives ==
  ASSUME Core, ViewInv, NEW n \in Nodes, HandleNodeDeathMessage(n)
  PROVE  ViewInv'
  <1>1. /\ Arrives(n, "NDEATH") /\ "NDEATH" \in NodeMessageType
        /\ UNCHANGED <<own, metrics, phase, parsing, missed, moved>>
    BY DEF HandleNodeDeathMessage, NodeMessageType, Arrives
  <1>2. /\ wire[n] # <<>> /\ wire'[n] = Tail(wire[n]) /\ parsing = Idle
        /\ \A k \in Nodes \ {n} : wire'[k] = wire[k]
        /\ NodeTopic(n) = <<n, "">>
        /\ 1 \notin BirthsIn(wire[n]) /\ 1 \in DeathsIn(wire[n])
        /\ 1 \notin NewsIn(wire[n])
    BY <1>1, HeadIs
  <1>3. CASE n # own /\ <<n, "">> \in DOMAIN births
    <2> DEFINE t == <<n, "">>
    <2>1. births' = [births EXCEPT ![t] = SetAllMetricsInvalid(@)]
      BY <1>2, <1>3, NodeBirthTopic DEF HandleNodeDeathMessage, Known
    <2>2. ASSUME NEW k \in Nodes \ {n} PROVE Seen(k)' = Seen(k)
      <3>1. <<k, "">> # t
        BY <2>2, Pair
      <3> HIDE DEF t
      <3> QED
        BY <2>1, <3>1 DEF Seen
    <2>3. DOMAIN births' = DOMAIN births
      BY <2>1
    <2>4. Seen(n)' = SetAllMetricsInvalid(Seen(n))
      BY <1>3, <2>1 DEF Seen
    <2>5. /\ DOMAIN Seen(n)' = DOMAIN Seen(n)
          /\ \A l \in DOMAIN Seen(n) :
               Seen(n)'[l].alias = Seen(n)[l].alias /\ ~Seen(n)'[l].valid
      <3>1. n \in Nodes \ {own}
        BY <1>3
      <3>2. IsPayload(Seen(n))
        BY <3>1, ViewTypes
      <3> DEFINE b == Seen(n)
      <3> HIDE DEF b
      <3>3. /\ DOMAIN SetAllMetricsInvalid(b) = DOMAIN b
            /\ \A l \in DOMAIN b :
                 /\ SetAllMetricsInvalid(b)[l].alias = b[l].alias
                 /\ ~SetAllMetricsInvalid(b)[l].valid
        BY <3>2 DEF SetAllMetricsInvalid, IsPayload, Metric, b
      <3> QED
        BY <2>4, <3>3 DEF b
    <2>6. View(n)'
      <3>1. n \in Nodes \ {own} /\ View(n)
        BY <1>3 DEF ViewInv, View
      <3>2. metrics'[n] = metrics[n] /\ phase'[n] = phase[n]
        BY <1>1
      <3> QED
        BY <1>1, <1>2, <2>3, <2>5, <3>1, <3>2, SkippedView
    <2> QED
      BY <1>1, <1>2, <2>2, <2>3, <2>6, OneArrives
  <1>4. CASE ~(n # own /\ <<n, "">> \in DOMAIN births)
    <2>1. births' = births
      BY <1>2, <1>4, NodeBirthTopic DEF HandleNodeDeathMessage
    <2>2. \A k : Seen(k)' = Seen(k)
      BY <2>1 DEF Seen
    <2>3. ASSUME n # own PROVE View(n)'
      <3>1. n \in Nodes \ {own} /\ View(n) /\ Seen(n) = <<>>
        BY <1>4, <2>3 DEF ViewInv, View, Seen
      <3>2. DOMAIN Seen(n) = {}
        BY <3>1, NoPayload
      <3>3. metrics'[n] = metrics[n] /\ phase'[n] = phase[n]
        BY <1>1
      <3> QED
        BY <1>1, <1>2, <2>1, <2>2, <3>1, <3>2, <3>3, SkippedView
    <2> QED
      BY <1>1, <1>2, <2>1, <2>2, <2>3, OneArrives
  <1> QED
    BY <1>3, <1>4

LEMMA DeviceArrives ==
  ASSUME Core, ViewInv, NEW n \in Nodes,
         \/ HandleDeviceBirthMessage(n) \/ HandleDeviceDeathMessage(n)
         \/ HandleDeviceCommandMessage(n) \/ HandleDeviceDataMessage(n)
  PROVE  ViewInv'
  <1>1. PICK type \in DeviceMessageType : Arrives(n, type)
    BY DEF HandleDeviceBirthMessage, HandleDeviceDeathMessage,
           HandleDeviceCommandMessage, HandleDeviceDataMessage,
           HandleDeviceWrite, DeviceMessageType
  <1>2. /\ wire[n] # <<>> /\ wire'[n] = Tail(wire[n]) /\ parsing = Idle
        /\ UNCHANGED <<own, metrics, phase, moved>>
        /\ \A k \in Nodes \ {n} : wire'[k] = wire[k]
        /\ wire[n] \in Seq(Messages)
    BY <1>1 DEF Arrives, Core, WireCore
  <1>3. missed' = missed
    BY DEF HandleDeviceBirthMessage, HandleDeviceDeathMessage,
           HandleDeviceCommandMessage, HandleDeviceDataMessage, HandleDeviceWrite
  <1>4. PICK d \in Devices : DeviceTopic(n) = <<n, d>>
    BY <1>1, <1>2, DeviceArrival DEF Core
  <1>5. Publish(<<n, d>>) /\ d # ""
    <2>1. d # "" /\ <<n, d>>[2] = d
      BY InboundAssumption
    <2> QED
      BY <2>1 DEF Publish
  <1>6. /\ parsing' = parsing
        /\ births' = births \/ \E topics : births' = Created(topics)
    BY <1>4, <1>5 DEF HandleDeviceBirthMessage, HandleDeviceDeathMessage,
           HandleDeviceCommandMessage, HandleDeviceDataMessage, HandleDeviceWrite
  <1>7. /\ \A k : Seen(k)' = Seen(k)
        /\ DOMAIN births \subseteq DOMAIN births'
    <2>1. CASE births' = births
      BY <2>1 DEF Seen
    <2>2. CASE births' # births
      BY <1>6, <2>2, CreatedSeen
    <2> QED
      BY <2>1, <2>2
  <1>8. Head(wire[n]).levels[3] = type
    <2>1. DeviceSaid(n, Head(wire[n]))
      <3>1. /\ NodeSaid(n, Head(wire[n])) \/ DeviceSaid(n, Head(wire[n]))
            /\ Topic(NewTopic, Head(wire[n]).levels).type = type
        BY <1>1, <1>2, Arrival DEF Core, Arrives
      <3>2. ~NodeSaid(n, Head(wire[n]))
        <4>1. SUFFICES ASSUME NEW ty \in NodeMessageType,
                          Head(wire[n]).levels = <<"spBv1.0", "Group", ty, n>>
                       PROVE  FALSE
          BY DEF NodeSaid
        <4>2. Topic(NewTopic, <<"spBv1.0", "Group", ty, n>>).type = ty
          BY PartsOfNode
        <4>3. ty = type
          BY <3>1, <4>1, <4>2
        <4> QED
          BY <4>3 DEF NodeMessageType, DeviceMessageType
      <3> QED
        BY <3>1, <3>2
    <2>2. PICK ty \in DeviceMessageType, dd \in Devices :
            Head(wire[n]).levels = <<"spBv1.0", "Group", ty, n, dd>>
      BY <2>1 DEF DeviceSaid
    <2>3. Topic(NewTopic, <<"spBv1.0", "Group", ty, n, dd>>).type = ty
      BY PartsOfDevice
    <2>4. ty = type
      BY <1>1, <2>2, <2>3 DEF Arrives
    <2>5. <<"spBv1.0", "Group", ty, n, dd>>[3] = ty
      OBVIOUS
    <2> QED
      BY <2>2, <2>4, <2>5, Zenon
  <1>9. /\ 1 \notin BirthsIn(wire[n]) /\ 1 \notin DeathsIn(wire[n])
        /\ 1 \notin NewsIn(wire[n])
    BY <1>2, <1>8, TailShrinks DEF DeviceMessageType
  <1> QED
    BY <1>2, <1>3, <1>6, <1>7, <1>9, OtherArrives

-----------------------------------------------------------------------------
(* One metric is parsed. *)

LEMMA ParseView ==
  ASSUME Core, ViewInv, ParseProtobuf
  PROVE  ViewInv'
  <1>1. PICK e \in parsing.entries :
          /\ parsing' = IF parsing.entries = {e} THEN Idle
                        ELSE [parsing EXCEPT !.entries = @ \ {e}]
          /\ IF parsing.topic[1] = own
             THEN /\ metrics' = [metrics EXCEPT ![own] =
                                   ParseEntry(@, e, parsing.create)]
                  /\ UNCHANGED births
             ELSE /\ births' = [births EXCEPT ![parsing.topic] =
                                  ParseEntry(@, e, parsing.create)]
                  /\ UNCHANGED metrics
          /\ UNCHANGED <<own, phase, wire, missed, moved>>
    BY DEF ParseProtobuf
  <1>2. /\ parsing # Idle /\ e \in Entry /\ parsing.create \in BOOLEAN
        /\ parsing \in [topic : Topics \union {<<>>}, create : BOOLEAN,
                        entries : SUBSET Entry, from : Seq(Levels)]
    <2>1. Idle.entries = {}
      BY DEF Idle
    <2>2. parsing \in [topic : Topics \union {<<>>}, create : BOOLEAN,
                        entries : SUBSET Entry, from : Seq(Levels)]
      BY DEF Core, ParsingCore
    <2> QED
      BY <2>1, <2>2
  <1>3. PICK n \in Nodes : /\ parsing.topic = <<n, "">>
                           /\ n # own => <<n, "">> \in DOMAIN births
    BY <1>2 DEF Core, ParsingCore, ParsingPart
  <1>4. parsing.topic[1] = n
    <2>1. <<n, "">>[1] = n
      BY Pair
    <2> QED
      BY <1>3, <2>1
  <1> DEFINE t    == <<n, "">>
             es   == parsing.entries
             rest == es \ {e}
  <1>5. /\ ToParse(n) = es /\ ToParse(n)' = rest
        /\ rest # {} => parsing'.create = parsing.create
        /\ parsing' = Idle \/ parsing'.topic = t
    <2>1. ToParse(n) = es
      BY <1>3 DEF ToParse
    <2>2. CASE es = {e}
      <3>1. parsing' = Idle /\ rest = {}
        BY <1>1, <2>2
      <3>2. Idle.entries = {}
        BY DEF Idle
      <3> QED
        BY <2>1, <3>1, <3>2 DEF ToParse
    <2>3. CASE es # {e}
      <3>1. /\ parsing'.topic = t /\ parsing'.create = parsing.create
            /\ parsing'.entries = rest
        BY <1>1, <1>2, <1>3, <2>3
      <3> QED
        BY <2>1, <3>1 DEF ToParse
    <2> QED
      BY <2>2, <2>3
  <1>6. ASSUME NEW k \in Nodes, k # n
        PROVE  Seen(k)' = Seen(k) /\ ToParse(k) = {} /\ ToParse(k)' = {}
    <2>1. <<k, "">> # t
      BY <1>6, Pair
    <2>2. Seen(k)' = Seen(k)
      <3> HIDE DEF t
      <3> QED
        BY <1>1, <1>3, <2>1 DEF Seen, t
    <2>3. ToParse(k) = {}
      BY <1>3, <2>1 DEF ToParse
    <2>4. ToParse(k)' = {}
      <3>1. CASE parsing' = Idle
        BY <3>1, IdleParser DEF ToParse, Idle
      <3>2. CASE parsing'.topic = t
        BY <2>1, <3>2 DEF ToParse
      <3> QED
        BY <1>5, <3>1, <3>2
    <2> QED
      BY <2>2, <2>3, <2>4
  <1>7. DOMAIN births' = DOMAIN births
    BY <1>1
  <1> HIDE DEF t, es, rest
  <1>8. ASSUME NEW k \in Nodes \ {own}, k # n
        PROVE  View(k)'
    <2>1. View(k)
      BY DEF ViewInv, View
    <2>2. metrics'[k] = metrics[k]
      BY <1>1, <1>8 DEF Core, NodesCore
    <2> QED
      BY <1>1, <1>6, <1>7, <1>8, <2>1, <2>2, ViewStays
  <1>9. ASSUME n # own PROVE View(n)'
    <2> DEFINE p == metrics[n]
               q == wire[n]
               b == Seen(n)
               r == Seen(n)'
               create == parsing.create
    <2>1. n \in Nodes \ {own} /\ View(n)
      BY <1>9 DEF ViewInv, View
    <2>2. r = ParseEntry(b, e, create)
      BY <1>1, <1>3, <1>4, <1>9 DEF Seen
    <2>3. /\ metrics'[n] = p /\ wire'[n] = q /\ phase'[n] = phase[n]
          /\ (Heard(n)' <=> Heard(n))
      BY <1>1, <1>4, <1>9 DEF Heard
    <2>4. /\ Distinct(p) /\ create \in BOOLEAN
          /\ n \notin moved => /\ PayloadOf(n, p, p) /\ PayloadOf(n, p, b)
                               /\ AllSaid(n, p, es)
                               /\ \A i \in NewsIn(q) : AllSaid(n, p, q[i].entries)
      BY <1>5, <2>1, ViewTypes
    <2>5. n \notin moved => Faithful(es) /\ \A i \in NewsIn(q) : Faithful(q[i].entries)
      BY <1>5, <2>1 DEF View, FaithfulPart
    <2>6. e \in es /\ rest = es \ {e}
      BY DEF es, rest
    <2>7. parsing'.create = create \/ rest = {}
      BY <1>5
    <2>8. <<n, "">> \in DOMAIN births
      BY <1>3, <1>9
    <2> HIDE DEF p, q, b, r, create
    <2>9. ASSUME n \notin moved PROVE FaithfulPart(n)'
      <3>1. Faithful(rest)
        BY <2>5, <2>6, <2>9 DEF Faithful, About
      <3> QED
        BY <1>5, <2>3, <2>5, <2>9, <3>1 DEF FaithfulPart
    <2>10. ASSUME n \notin moved, NEW m \in DOMAIN p,
                  Conveyed(p, q, es, create, b, m)
           PROVE  Conveyed(p, q, rest, parsing'.create, r, m)
      BY <2>2, <2>4, <2>5, <2>6, <2>7, <2>10, EntryTaken
    <2>11. ASSUME n \notin moved PROVE LivingPart(n)'
      <3>1. SUFFICES ASSUME Heard(n)', phase[n] = "up", NEW m \in DOMAIN p
                     PROVE  /\ IsKnown(p, q, rest, parsing'.create, r, m)
                            /\ IsCurrent(p, q, rest, r, m)
        BY <1>5, <1>7, <2>3, <2>8 DEF LivingPart, r
      <3>2. IsKnown(p, q, es, create, b, m) /\ IsCurrent(p, q, es, b, m)
        BY <1>5, <2>1, <2>3, <2>11, <3>1 DEF View, LivingPart, p, q, b, create
      <3> QED
        BY <2>10, <2>11, <3>2 DEF Conveyed
    <2>12. DeadPart(n)'
      <3>1. SUFFICES ASSUME Heard(n)', phase[n] # "up"
                     PROVE  IsStale(q, rest, r)
        BY <1>5, <2>3 DEF DeadPart, r
      <3>2. IsStale(q, es, b)
        BY <1>5, <2>1, <2>3, <3>1 DEF View, DeadPart, q, b
      <3> QED
        BY <2>6, <3>2 DEF IsStale
    <2> QED
      BY <1>1, <2>9, <2>11, <2>12 DEF View
  <1> QED
    BY <1>1, <1>8, <1>9 DEF ViewInv, View

-----------------------------------------------------------------------------
(* All steps. *)

LEMMA InitView == Init => ViewInv
  <1> SUFFICES ASSUME Init, NEW n \in Nodes \ {own}
               PROVE  FaithfulPart(n) /\ LivingPart(n) /\ DeadPart(n)
    BY DEF ViewInv
  <1>1. /\ wire[n] = <<>> /\ parsing = Idle /\ births = <<>> /\ phase[n] = "new"
    BY DEF Init
  <1>2. ToParse(n) = {}
    BY <1>1, IdleParser
  <1>3. Len(<<>>) = 0 /\ 1..0 = {} /\ DOMAIN <<>> = {}
    OBVIOUS
  <1>4. NewsIn(wire[n]) = {}
    BY <1>1, <1>3 DEF NewsIn, Of
  <1>5. FaithfulPart(n)
    BY <1>2, <1>4 DEF FaithfulPart, Faithful
  <1>6. Seen(n) = <<>>
    BY <1>1, <1>3 DEF Seen
  <1>7. LivingPart(n)
    BY <1>1 DEF LivingPart
  <1>8. DeadPart(n)
    BY <1>2, <1>3, <1>4, <1>6 DEF DeadPart, IsStale
  <1> QED
    BY <1>5, <1>7, <1>8

LEMMA ReceiveView ==
  ASSUME Core, ViewInv, NEW n \in Nodes, Receive(n)
  PROVE  ViewInv'
  BY BirthArrives, DeathArrives, CommandArrives, DataArrives, DeviceArrives
     DEF Receive

LEMMA ViewStep ==
  ASSUME Conforming, Core, ViewInv, [Next]_vars
  PROVE  ViewInv'
  <1>1. ASSUME NEW n \in Nodes, Sender(n) PROVE ViewInv'
    BY <1>1, StartView, NewsView, DeathView, AddView, WriteView, OtherView
       DEF Sender
  <1>2. CASE UNCHANGED vars
    BY <1>2 DEF vars, receiverVars, senderVars, ViewInv, FaithfulPart, LivingPart,
                DeadPart, ToParse, Seen, Heard
  <1> QED
    BY <1>1, <1>2, ReceiveView, LossView, ParseView DEF Next

LEMMA QuietViewIsCurrent == ViewInv => ViewIsCurrent
  <1> SUFFICES ASSUME ViewInv, NEW n \in Nodes, Quiet(n)
               PROVE
    /\ phase[n] = "up" /\ n \notin moved =>
         /\ <<n, "">> \in DOMAIN births
         /\ \A m \in DOMAIN metrics[n] :
              /\ m \in DOMAIN births[<<n, "">>]
              /\ metrics[n][m].updated \/
                   /\ births[<<n, "">>][m].valid
                   /\ births[<<n, "">>][m].value = metrics[n][m].value
    /\ phase[n] = "down" /\ <<n, "">> \in DOMAIN births =>
         \A m \in DOMAIN births[<<n, "">>] : ~births[<<n, "">>][m].valid
    BY DEF ViewIsCurrent
  <1>1. /\ n \in Nodes \ {own} /\ wire[n] = <<>> /\ ToParse(n) = {} /\ Heard(n)
    BY IdleParser DEF Quiet, Heard
  <1>2. Len(<<>>) = 0 /\ 1..0 = {}
    OBVIOUS
  <1>3. /\ NewsIn(wire[n]) = {} /\ BirthsIn(wire[n]) = {} /\ DeathsIn(wire[n]) = {}
        /\ \A m : NewsOf(wire[n], m) = {} /\ WordsOn(wire[n], m) = {}
    BY <1>1, <1>2 DEF NewsIn, BirthsIn, DeathsIn, NewsOf, WordsOn, Of
  <1>4. ASSUME phase[n] = "up", n \notin moved
        PROVE  /\ <<n, "">> \in DOMAIN births
               /\ \A m \in DOMAIN metrics[n] :
                    /\ m \in DOMAIN Seen(n)
                    /\ metrics[n][m].updated \/
                         /\ Seen(n)[m].valid
                         /\ Seen(n)[m].value = metrics[n][m].value
    BY <1>1, <1>3, <1>4 DEF ViewInv, LivingPart, IsKnown, IsCurrent, Teaches, Says
  <1>5. ASSUME phase[n] = "down"
        PROVE  \A m \in DOMAIN Seen(n) : ~Seen(n)[m].valid
    BY <1>1, <1>3, <1>5 DEF ViewInv, DeadPart, IsStale
  <1> QED
    BY <1>4, <1>5 DEF Seen

-----------------------------------------------------------------------------
(* Whatever of a node's births, data and deaths is still under way or half  *)
(* parsed will make the receiver's view of it current, or has: the last      *)
(* word on each metric of a living node whose numbers have not moved is the  *)
(* value it sent last, and arrives after the birth that makes it understood; *)
(* a death comes after all values, of any node.  The nodes give births with  *)
(* all their metrics.                                                        *)
THEOREM ViewInvariant ==
  ASSUME Conforming
  PROVE  Spec => []ViewInv
  <1>1. Core /\ ViewInv /\ [Next]_vars => (Core /\ ViewInv)'
    BY CoreStep, ViewStep
  <1> QED
    BY <1>1, InitCore, InitView, PTL DEF Spec

(* A receiver that heard the last birth of a node, and all that followed,    *)
(* trusts no metric of a dead one, and has every metric of a living one with *)
(* the value it last sent, as long as no Start has given one of them another *)
(* number: handlers of SparkplugNode::Message, whatever was lost before that *)
(* birth.                                                                    *)
THEOREM ViewsAreCurrent ==
  ASSUME Conforming
  PROVE  Spec => []ViewIsCurrent
  BY ViewInvariant, QuietViewIsCurrent, PTL
=============================================================================
