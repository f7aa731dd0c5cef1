--------------------------- MODULE MqttClientProofs ---------------------------
(***************************************************************************)
(* Proofs about MqttClient, for every set of topics and values.            *)
(*                                                                         *)
(* The invariant falls into two halves that do not need each other: who    *)
(* may answer whom (the connection half, ConnectionInv) and what becomes   *)
(* of an update (UpdateNotForgotten).  TypeOK serves both.                 *)
(***************************************************************************)
EXTENDS MqttClient, TLAPS

ConnectionInv ==
  /\ ConnectingPart /\ ConnectedPart /\ DisconnectingPart /\ WorkerPart
  /\ OnlineMeansAnswered /\ NoHandleWithoutWorker

-----------------------------------------------------------------------------
(* The initial states, and the types. *)

LEMMA InitIInv == Init => IInv
  <1> SUFFICES ASSUME Init PROVE IInv
    OBVIOUS
  <1>1. TypeOK
    BY DEF Init, HandleInit, TypeOK, HandleTypeOK, HandleState, ClientState,
           WorkerAt, NotWriting
  <1>2. ConnectionInv
    BY DEF Init, HandleInit, ConnectionInv, ConnectingPart, ConnectedPart,
           DisconnectingPart, WorkerPart, OnlineMeansAnswered, NoHandleWithoutWorker
  <1>3. UpdateNotForgotten
    BY DEF Init, UpdateNotForgotten, Outgoing, Topics
  <1> QED
    BY <1>1, <1>2, <1>3 DEF IInv, ConnectionInv

LEMMA WorkerType == TypeOK /\ WorkerPart /\ Worker => TypeOK'
  <1> SUFFICES ASSUME TypeOK, WorkerPart, Worker PROVE TypeOK'
    OBVIOUS
  <1> USE DEF TypeOK, HandleTypeOK, HandleState, ClientState, WorkerAt, Topics,
              others, connectVars, publishVars
  <1>1. CASE TaskStart
    BY <1>1 DEF TaskStart, Destroy
  <1>2. CASE TestStop
    BY <1>2 DEF TestStop
  <1>3. CASE TaskExit
    BY <1>3 DEF TaskExit, Destroy, SendDisconnect, Disconnect
  <1>4. CASE TaskExitWait
    BY <1>4 DEF TaskExitWait, Destroy
  <1>5. CASE DoIdleWait
    BY <1>5 DEF DoIdleWait, Destroy
  <1>6. CASE DoIdleConnect
    BY <1>6 DEF DoIdleConnect, CreateAndConnect, CreateOrConnectFails,
                CreateClientFails, SendConnect
  <1>7. CASE DoWaitOnConnectTimeout
    BY <1>7 DEF DoWaitOnConnectTimeout
  <1>8. CASE DoWaitOnConnect
    BY <1>8 DEF DoWaitOnConnect
  <1>9. CASE DoOnlineDisconnect
    BY <1>9 DEF DoOnlineDisconnect, SendDisconnect, Disconnect
  <1>10. CASE DoOnlinePublish
    BY <1>10 DEF DoOnlinePublish
  <1>11. CASE DoWaitOnDisconnect
    BY <1>11 DEF DoWaitOnDisconnect
  <1>12. ASSUME NEW t \in Published, PublishTopic(t) \/ SkipTopic(t) PROVE TypeOK'
    BY <1>12 DEF PublishTopic, SkipTopic
  <1>13. CASE PublishDone
    BY <1>13 DEF PublishDone
  <1>14. CASE GenerateText
    BY <1>14 DEF GenerateText, WorkerPart
  <1>15. CASE SendMessage
    BY <1>15 DEF SendMessage, WorkerPart
  <1> QED
    BY <1>1, <1>2, <1>3, <1>4, <1>5, <1>6, <1>7, <1>8, <1>9, <1>10, <1>11,
       <1>12, <1>13, <1>14, <1>15 DEF Worker

LEMMA AppType == TypeOK /\ App => TypeOK'
  <1> SUFFICES ASSUME TypeOK, App PROVE TypeOK'
    OBVIOUS
  <1> USE DEF TypeOK, HandleTypeOK, HandleState, ClientState, WorkerAt, Topics,
              connectVars, metricVars, publishVars, workerVars
  <1>1. CASE Start
    BY <1>1 DEF Start, StartWorker
  <1>2. CASE Restart
    BY <1>2 DEF Restart
  <1>3. CASE RestartJoined
    BY <1>3 DEF RestartJoined, StartWorker
  <1>4. CASE Stop
    BY <1>4 DEF Stop
  <1>5. CASE StopJoined
    BY <1>5 DEF StopJoined, Destroy
  <1>6. CASE SetInService
    BY <1>6 DEF SetInService
  <1>7. ASSUME NEW t \in Topics, AddMetric(t) PROVE TypeOK'
    BY <1>7 DEF AddMetric
  <1>8. ASSUME NEW t \in Published, NEW v \in Values, WriteValue(t, v) PROVE TypeOK'
    BY <1>8 DEF WriteValue
  <1>9. CASE WriteFlag
    <2>1. writing \in [topic : Published, changed : BOOLEAN]
      BY <1>9 DEF WriteFlag
    <2>2. updated' \in [Topics -> BOOLEAN]
      BY <1>9, <2>1 DEF WriteFlag
    <2> QED
      BY <1>9, <2>2 DEF WriteFlag, NotWriting
  <1> QED
    BY <1>1, <1>2, <1>3, <1>4, <1>5, <1>6, <1>7, <1>8, <1>9 DEF App

LEMMA EnvironmentType == TypeOK /\ Environment => TypeOK'
  <1> SUFFICES ASSUME TypeOK, Environment PROVE TypeOK'
    OBVIOUS
  <1>1. ASSUME handle' \in HandleState, callbacks' \subseteq Callback,
               {timerUp', delivered', connectionLost'} \subseteq BOOLEAN,
               UNCHANGED <<clientState, appVars, metricVars>>
        PROVE  TypeOK'
    BY <1>1 DEF TypeOK, HandleTypeOK, appVars, metricVars, publishVars
  <1>2. CASE NetworkEvent
    <2>1. handle' \in HandleState /\ callbacks' \subseteq Callback
      BY <1>2 DEF NetworkEvent, Accepted, Refused, Lost, Closed, Delivered, Event,
                  TypeOK, HandleTypeOK, HandleState, Callback
    <2> QED
      BY <1>1, <1>2, <2>1 DEF NetworkEvent, TypeOK, connectVars
  <1>3. CASE OnSuccess \/ OnFailure \/ OnConnectionLost \/ OnDeliveryComplete
    <2>1. handle' \in HandleState /\ callbacks' \subseteq Callback
      BY <1>3 DEF OnSuccess, OnFailure, OnConnectionLost, OnDeliveryComplete,
                  Called, TypeOK, HandleTypeOK
    <2> QED
      BY <1>1, <1>3, <2>1 DEF OnSuccess, OnFailure, OnConnectionLost,
                              OnDeliveryComplete, TypeOK
  <1>4. CASE Timeout
    BY <1>1, <1>4 DEF Timeout, TypeOK, HandleTypeOK
  <1>5. ASSUME NEW t \in Subscribed, NEW v \in Values, OnMessage(t, v) PROVE TypeOK'
    <2>1. /\ topic' \in [Topics -> {"none", "bare", "metric"}]
          /\ value' \in [Topics -> Values \union {NoValue}]
      BY <1>5 DEF OnMessage, TypeOK
    <2>2. updated' \in [Topics -> BOOLEAN]
      <3>1. CASE topic[t] = "metric"
        BY <1>5, <3>1 DEF OnMessage, TypeOK
      <3>2. CASE topic[t] # "metric"
        BY <1>5, <3>2 DEF OnMessage, TypeOK
      <3> QED
        BY <3>1, <3>2
    <2> QED
      BY <1>5, <2>1, <2>2 DEF OnMessage, TypeOK, HandleTypeOK, appVars, publishVars
  <1> QED
    BY <1>2, <1>3, <1>4, <1>5 DEF Environment

-----------------------------------------------------------------------------
(* The connection half. *)

LEMMA WorkerConnection == TypeOK /\ ConnectionInv /\ Worker => ConnectionInv'
  <1> SUFFICES ASSUME TypeOK, ConnectionInv, Worker PROVE ConnectionInv'
    OBVIOUS
  <1> USE DEF ConnectionInv, ConnectingPart, ConnectedPart, DisconnectingPart,
              WorkerPart, OnlineMeansAnswered, NoHandleWithoutWorker,
              others, connectVars, publishVars
  <1>1. CASE TaskStart
    BY <1>1 DEF TaskStart, Destroy
  <1>2. CASE TestStop
    BY <1>2 DEF TestStop
  <1>3. CASE TaskExit
    BY <1>3 DEF TaskExit, Destroy, SendDisconnect, Disconnect, isConnected,
                TypeOK, ClientState
  <1>4. CASE TaskExitWait
    BY <1>4 DEF TaskExitWait, Destroy
  <1>5. CASE DoIdleWait
    BY <1>5 DEF DoIdleWait, Destroy
  <1>6. CASE DoIdleConnect
    BY <1>6 DEF DoIdleConnect, CreateAndConnect, CreateOrConnectFails,
                CreateClientFails, SendConnect
  <1>7. CASE DoWaitOnConnectTimeout
    BY <1>7 DEF DoWaitOnConnectTimeout
  <1>8. CASE DoWaitOnConnect
    BY <1>8 DEF DoWaitOnConnect, isConnected
  <1>9. CASE DoOnlineDisconnect
    BY <1>9 DEF DoOnlineDisconnect, SendDisconnect, Disconnect
  <1>10. CASE DoOnlinePublish
    BY <1>10 DEF DoOnlinePublish
  <1>11. CASE DoWaitOnDisconnect
    BY <1>11 DEF DoWaitOnDisconnect
  <1>12. ASSUME NEW t \in Published, PublishTopic(t) \/ SkipTopic(t)
         PROVE  ConnectionInv'
    BY <1>12 DEF PublishTopic, SkipTopic
  <1>13. CASE PublishDone
    BY <1>13 DEF PublishDone
  <1>14. CASE GenerateText
    BY <1>14 DEF GenerateText
  <1>15. CASE SendMessage
    BY <1>15 DEF SendMessage
  <1> QED
    BY <1>1, <1>2, <1>3, <1>4, <1>5, <1>6, <1>7, <1>8, <1>9, <1>10, <1>11,
       <1>12, <1>13, <1>14, <1>15 DEF Worker

LEMMA AppConnection == TypeOK /\ ConnectionInv /\ App => ConnectionInv'
  <1> SUFFICES ASSUME TypeOK, ConnectionInv, App PROVE ConnectionInv'
    OBVIOUS
  <1> USE DEF ConnectionInv, ConnectingPart, ConnectedPart, DisconnectingPart,
              WorkerPart, OnlineMeansAnswered, NoHandleWithoutWorker,
              connectVars, publishVars, workerVars
  <1>1. CASE Start \/ RestartJoined
    BY <1>1 DEF Start, RestartJoined, StartWorker
  <1>2. CASE Restart \/ Stop \/ SetInService
    BY <1>2 DEF Restart, Stop, SetInService
  <1>3. CASE StopJoined
    BY <1>3 DEF StopJoined, Destroy
  <1>4. ASSUME NEW t \in Topics, AddMetric(t) PROVE ConnectionInv'
    BY <1>4 DEF AddMetric
  <1>5. ASSUME NEW t \in Published, NEW v \in Values, WriteValue(t, v)
        PROVE  ConnectionInv'
    BY <1>5 DEF WriteValue
  <1>6. CASE WriteFlag
    BY <1>6 DEF WriteFlag
  <1> QED
    BY <1>1, <1>2, <1>3, <1>4, <1>5, <1>6 DEF App

LEMMA EnvironmentConnection ==
  TypeOK /\ ConnectionInv /\ Environment => ConnectionInv'
  <1> SUFFICES ASSUME TypeOK, ConnectionInv, Environment PROVE ConnectionInv'
    OBVIOUS
  <1> USE DEF ConnectionInv, ConnectingPart, ConnectedPart, DisconnectingPart,
              WorkerPart, OnlineMeansAnswered, NoHandleWithoutWorker,
              connectVars, publishVars, appVars
  <1>1. CASE NetworkEvent
    BY <1>1 DEF NetworkEvent, Accepted, Refused, Lost, Closed, Delivered, Event
  <1>2. CASE OnSuccess
    BY <1>2 DEF OnSuccess, Called
  <1>3. CASE OnFailure
    BY <1>3 DEF OnFailure, Called
  <1>4. CASE OnConnectionLost \/ OnDeliveryComplete
    BY <1>4 DEF OnConnectionLost, OnDeliveryComplete, Called
  <1>5. CASE Timeout
    BY <1>5 DEF Timeout
  <1>6. ASSUME NEW t \in Subscribed, NEW v \in Values, OnMessage(t, v)
        PROVE  ConnectionInv'
    BY <1>6 DEF OnMessage
  <1> QED
    BY <1>1, <1>2, <1>3, <1>4, <1>5, <1>6 DEF Environment

-----------------------------------------------------------------------------
(* The update half. *)

(* A step that touches neither a metric nor what DoPublish does keeps       *)
(* every update where it is.                                                *)
LEMMA UpdateUntouched ==
  ASSUME UpdateNotForgotten,
         UNCHANGED <<value, updated, writing, publishing, body, attempted>>,
         UNCHANGED pc \/ {pc, pc'} \intersect {"text", "send"} = {}
  PROVE  UpdateNotForgotten'
  BY DEF UpdateNotForgotten, Outgoing

LEMMA UpdateStep ==
  ASSUME TypeOK, WorkerPart, UpdateNotForgotten, Next
  PROVE  UpdateNotForgotten'
  <1>1. ASSUME NEW t \in Published, PublishTopic(t) PROVE UpdateNotForgotten'
    BY <1>1 DEF PublishTopic, others, connectVars, UpdateNotForgotten, Outgoing,
                TypeOK, Topics
  <1>2. CASE GenerateText
    BY <1>2 DEF GenerateText, others, connectVars, UpdateNotForgotten, Outgoing
  <1>3. CASE SendMessage
    <2> SUFFICES ASSUME NEW t \in Published, value'[t] # Outgoing(t)'
                 PROVE  \/ updated'[t]
                        \/ writing' = [topic |-> t, changed |-> TRUE]
      BY DEF UpdateNotForgotten
    <2>1. Outgoing(t)' = attempted'[t] /\ attempted'[t] = Outgoing(t)
      BY <1>3 DEF SendMessage, Outgoing, TypeOK, Topics
    <2> QED
      BY <1>3, <2>1 DEF SendMessage, others, UpdateNotForgotten
  <1>4. ASSUME NEW t \in Published, NEW v \in Values, WriteValue(t, v)
        PROVE  UpdateNotForgotten'
    <2> SUFFICES ASSUME NEW u \in Published, value'[u] # Outgoing(u)'
                 PROVE  \/ updated'[u]
                        \/ writing' = [topic |-> u, changed |-> TRUE]
                        \/ pc' = "text" /\ publishing' = u
      BY DEF UpdateNotForgotten
    <2>1. Outgoing(u)' = Outgoing(u) /\ UNCHANGED <<updated, pc, publishing>>
      BY <1>4 DEF WriteValue, workerVars, publishVars, Outgoing
    <2>2. CASE u = t /\ v # value[t]
      BY <1>4, <2>2 DEF WriteValue
    <2>3. CASE u # t \/ v = value[t]
      <3>1. value'[u] = value[u] /\ writing = NotWriting
        BY <1>4, <2>3 DEF WriteValue, TypeOK, Topics
      <3>2. writing # [topic |-> u, changed |-> TRUE]
        BY <3>1 DEF NotWriting
      <3> QED
        BY <2>1, <3>1, <3>2 DEF UpdateNotForgotten
    <2> QED
      BY <2>2, <2>3
  <1>5. CASE WriteFlag
    <2> SUFFICES ASSUME NEW u \in Published, value'[u] # Outgoing(u)'
                 PROVE  \/ updated'[u]
                        \/ pc' = "text" /\ publishing' = u
      BY DEF UpdateNotForgotten
    <2>1. Outgoing(u)' = Outgoing(u) /\ UNCHANGED <<value, pc, publishing>>
      BY <1>5 DEF WriteFlag, workerVars, publishVars, Outgoing
    <2>2. /\ updated' = [updated EXCEPT ![writing.topic] = @ \/ writing.changed]
          /\ u \in DOMAIN updated
      BY <1>5 DEF WriteFlag, TypeOK, Topics
    <2>3. CASE writing = [topic |-> u, changed |-> TRUE]
      BY <2>2, <2>3
    <2>4. CASE updated[u]
      BY <2>2, <2>4
    <2> QED
      BY <2>1, <2>3, <2>4 DEF UpdateNotForgotten
  <1>6. ASSUME NEW t \in Subscribed, NEW v \in Values, OnMessage(t, v)
        PROVE  UpdateNotForgotten'
    <2>1. UNCHANGED <<pc, writing, publishing, body, attempted>>
      BY <1>6 DEF OnMessage, appVars, publishVars
    <2>2. \A u \in Published : value'[u] = value[u] /\ updated'[u] = updated[u]
      BY <1>6, TopicsAssumption DEF OnMessage, TypeOK, Topics
    <2> QED
      BY <2>1, <2>2 DEF UpdateNotForgotten, Outgoing
  <1>7. CASE \/ TaskStart \/ TestStop \/ TaskExit \/ TaskExitWait
             \/ DoIdleWait \/ DoIdleConnect
             \/ DoWaitOnConnectTimeout \/ DoWaitOnConnect
             \/ DoOnlineDisconnect \/ DoOnlinePublish \/ DoWaitOnDisconnect
             \/ (\E t \in Published : SkipTopic(t)) \/ PublishDone
    BY <1>7, UpdateUntouched
    DEF TaskStart, TestStop, TaskExit, TaskExitWait, DoIdleWait, DoIdleConnect,
        DoWaitOnConnectTimeout, DoWaitOnConnect, DoOnlineDisconnect,
        DoOnlinePublish, DoWaitOnDisconnect, SkipTopic, PublishDone, others,
        publishVars
  <1>8. CASE \/ Start \/ Restart \/ RestartJoined \/ Stop \/ StopJoined
             \/ SetInService \/ (\E t \in Topics : AddMetric(t))
    BY <1>8, UpdateUntouched
    DEF Start, StartWorker, Restart, RestartJoined, Stop, StopJoined,
        SetInService, AddMetric, workerVars, metricVars, publishVars
  <1>9. CASE \/ NetworkEvent \/ OnSuccess \/ OnFailure \/ OnConnectionLost
             \/ OnDeliveryComplete \/ Timeout
    BY <1>9, UpdateUntouched
    DEF NetworkEvent, OnSuccess, OnFailure, OnConnectionLost,
        OnDeliveryComplete, Timeout, appVars, metricVars, publishVars
  <1> QED
    BY <1>1, <1>2, <1>3, <1>4, <1>5, <1>6, <1>7, <1>8, <1>9
    DEF Next, Worker, App, Environment

-----------------------------------------------------------------------------
(* Both halves. *)

LEMMA ClientStep == IInv /\ [Next]_vars => IInv'
  <1> SUFFICES ASSUME IInv, [Next]_vars PROVE IInv'
    OBVIOUS
  <1>0. TypeOK /\ ConnectionInv /\ UpdateNotForgotten /\ WorkerPart
    BY DEF IInv, ConnectionInv
  <1>1. CASE Next
    <2>1. TypeOK'
      BY <1>0, <1>1, WorkerType, AppType, EnvironmentType DEF Next
    <2>2. ConnectionInv'
      BY <1>0, <1>1, WorkerConnection, AppConnection, EnvironmentConnection DEF Next
    <2>3. UpdateNotForgotten'
      BY <1>0, <1>1, UpdateStep
    <2> QED
      BY <2>1, <2>2, <2>3 DEF IInv, ConnectionInv
  <1>2. CASE UNCHANGED vars
    <2>1. TypeOK'
      BY <1>0, <1>2 DEF vars, connectVars, metricVars, publishVars, TypeOK,
                        HandleTypeOK
    <2>2. ConnectionInv'
      BY <1>0, <1>2 DEF vars, connectVars, metricVars, publishVars,
            ConnectionInv, ConnectingPart, ConnectedPart, DisconnectingPart,
            WorkerPart, OnlineMeansAnswered, NoHandleWithoutWorker
    <2>3. UpdateNotForgotten'
      BY <1>0, <1>2, UpdateUntouched DEF vars, metricVars, publishVars
    <2> QED
      BY <2>1, <2>2, <2>3 DEF IInv, ConnectionInv
  <1> QED
    BY <1>1, <1>2

-----------------------------------------------------------------------------
(* The theorems. *)

(* The invariant of the client: its types, what a callback can answer in    *)
(* each state of the handle, and where every update is.                     *)
THEOREM ClientInvariant == Spec => []IInv
  BY ClientStep, InitIInv, PTL DEF Spec

(* Every variable of the client keeps to its type.                          *)
THEOREM TypeCorrect == Spec => []TypeOK
  <1>1. IInv => TypeOK
    BY DEF IInv
  <1> QED
    BY <1>1, ClientInvariant, PTL

(* An Online client was answered in the connection it has.                  *)
THEOREM OnlineIsAnswered == Spec => []OnlineMeansAnswered
  <1>1. IInv => OnlineMeansAnswered
    BY DEF IInv
  <1> QED
    BY <1>1, ClientInvariant, PTL

(* No handle survives the worker.                                           *)
THEOREM HandleNeedsWorker == Spec => []NoHandleWithoutWorker
  <1>1. IInv => NoHandleWithoutWorker
    BY DEF IInv
  <1> QED
    BY <1>1, ClientInvariant, PTL

(* No update of a published metric is forgotten between its writer and      *)
(* DoPublish.                                                               *)
THEOREM NoUpdateForgotten == Spec => []UpdateNotForgotten
  <1>1. IInv => UpdateNotForgotten
    BY DEF IInv
  <1> QED
    BY <1>1, ClientInvariant, PTL

(* The client gives no disconnect up before its answer or its timeout.      *)
THEOREM DisconnectAwaited == Spec => DisconnectIsAwaited
  <1>1. IInv /\ [Next]_vars
          => [clientState = "WaitOnDisconnect" /\ clientState' = "Idle"
                => timerUp \/ handle # "disconnecting"]_vars
    <2> SUFFICES ASSUME IInv, Next, clientState = "WaitOnDisconnect",
                        clientState' = "Idle", handle = "disconnecting"
                 PROVE  timerUp
      BY DEF vars, connectVars
    <2>1. ~delivered
      BY DEF IInv, DisconnectingPart
    <2>2. pc # "start"
      BY DEF IInv, NoHandleWithoutWorker
    <2>3. DoWaitOnDisconnect
      BY <2>2
      DEF Next, Worker, App, Environment, TaskStart, TestStop, TaskExit,
          TaskExitWait, DoIdleWait, DoIdleConnect, DoWaitOnConnectTimeout,
          DoWaitOnConnect, DoOnlineDisconnect, DoOnlinePublish, PublishTopic,
          SkipTopic, PublishDone, GenerateText, SendMessage, Start, Restart,
          RestartJoined, Stop, StopJoined, SetInService, AddMetric, WriteValue,
          WriteFlag, NetworkEvent, OnSuccess, OnFailure, OnConnectionLost,
          OnDeliveryComplete, OnMessage, Timeout, workerVars, connectVars
    <2> QED
      BY <2>1, <2>3 DEF DoWaitOnDisconnect
  <1> QED
    BY <1>1, ClientInvariant, PTL DEF Spec, DisconnectIsAwaited

-----------------------------------------------------------------------------
(* The metrics implement MetricUpdates. *)

\* What the refinement mapping gives for one metric.
Pending(t) ==
  \/ updated[t]
  \/ writing = [topic |-> t, changed |-> TRUE]
  \/ pc = "text" /\ publishing = t

\* A step that changes nothing of what is mapped.
LEMMA UpdatesStay ==
  ASSUME \A t \in Published :
           value'[t] = value[t] /\ Pending(t)' = Pending(t) /\ Outgoing(t)' = Outgoing(t)
  PROVE  UNCHANGED Updates!vars
  BY DEF Updates!vars, Pending

LEMMA UpdatesUntouched ==
  ASSUME UNCHANGED <<value, updated, writing, publishing, body, attempted>>,
         UNCHANGED pc \/ {pc, pc'} \intersect {"text", "send"} = {}
  PROVE  UNCHANGED Updates!vars
  BY UpdatesStay DEF Pending, Outgoing

\* DoPublish reads the value: that is when it is handed over.
LEMMA GenerateTextTakes ==
  ASSUME TypeOK, WorkerPart, GenerateText
  PROVE  Updates!Next
  <1>0. PICK p \in Published : p = publishing
    BY DEF GenerateText, WorkerPart
  <1> DEFINE pend == [t \in Published |-> Pending(t)]
             out  == [t \in Published |-> Outgoing(t)]
             val  == [t \in Published |-> value[t]]
  <1>1. /\ pc = "text" /\ pc' = "send" /\ body' = value[p]
        /\ publishing = p /\ publishing' = p
        /\ UNCHANGED <<value, updated, writing, attempted>>
    BY <1>0 DEF GenerateText, others
  <1>2. \A t \in Published : t # p => Pending(t)' = Pending(t)
    BY <1>1 DEF Pending
  <1>3. \A t \in Published : Outgoing(t)' = IF t = p THEN value[t] ELSE Outgoing(t)
    BY <1>1 DEF Outgoing
  <1>4. Pending(p) /\ Pending(p)' \in BOOLEAN
    BY <1>1 DEF Pending
  <1>5. out' = [out EXCEPT ![p] = val[p]] /\ val' = val
    BY <1>1, <1>3
  <1>6. pend' = pend \/ pend' = [pend EXCEPT ![p] = FALSE]
    <2>1. CASE Pending(p)'
      <3>1. \A t \in Published : Pending(t)' = Pending(t)
        BY <1>2, <1>4, <2>1
      <3> QED
        BY <3>1
    <2>2. CASE ~Pending(p)'
      <3>1. \A t \in Published : Pending(t)' = IF t = p THEN FALSE ELSE Pending(t)
        BY <1>2, <1>4, <2>2
      <3> QED
        BY <3>1
    <2> QED
      BY <2>1, <2>2
  <1>7. Updates!Take(p)
    BY <1>1, <1>4, <1>5, <1>6 DEF Updates!Take, Pending
  <1> QED
    BY <1>7 DEF Updates!Next

\* The value is set, and that it changed is remembered: that is the write.
LEMMA WriteValueWrites ==
  ASSUME TypeOK, NEW t \in Published, NEW v \in Values, WriteValue(t, v)
  PROVE  Updates!Next
  <1> DEFINE pend == [u \in Published |-> Pending(u)]
             out  == [u \in Published |-> Outgoing(u)]
             val  == [u \in Published |-> value[u]]
  <1>1. /\ value' = [value EXCEPT ![t] = v] /\ writing = NotWriting
        /\ writing' = [topic |-> t, changed |-> v # value[t]]
        /\ UNCHANGED <<updated, pc, publishing, body, attempted>>
    BY DEF WriteValue, workerVars, publishVars
  <1>2. \A u \in Published : value'[u] = IF u = t THEN v ELSE value[u]
    BY <1>1 DEF TypeOK, Topics
  <1>3. \A u \in Published : Outgoing(u)' = Outgoing(u)
    BY <1>1 DEF Outgoing
  <1>4. ASSUME NEW u \in Published
        PROVE  Pending(u)' = IF u = t THEN Pending(t) \/ v # value[t] ELSE Pending(u)
    <2>1. /\ writing # [topic |-> u, changed |-> TRUE]
          /\ writing' = [topic |-> u, changed |-> TRUE] <=> u = t /\ v # value[t]
      <3>1. NotWriting.changed = FALSE /\ [topic |-> u, changed |-> TRUE].changed
        BY DEF NotWriting
      <3>2. /\ writing'.topic = t /\ (writing'.changed <=> v # value[t])
            /\ [topic |-> u, changed |-> TRUE].topic = u
        BY <1>1
      <3>3. u = t /\ v # value[t] => writing' = [topic |-> u, changed |-> TRUE]
        BY <1>1
      <3> QED
        BY <1>1, <3>1, <3>2, <3>3
    <2>2. updated[u] \in BOOLEAN
      BY DEF TypeOK, Topics
    <2> QED
      BY <1>1, <2>1, <2>2 DEF Pending
  <1>5. /\ val' = [val EXCEPT ![t] = v] /\ out' = out
        /\ pend' = [pend EXCEPT ![t] = @ \/ v # val[t]]
    BY <1>2, <1>3, <1>4
  <1>6. Updates!Write(t, v)
    BY <1>5 DEF Updates!Write, Pending
  <1> QED
    BY <1>6 DEF Updates!Next

\* The other steps that touch a flag, a payload or a value leave the mapping alone.
LEMMA FlagsMove ==
  ASSUME TypeOK, WorkerPart,
         \/ \E t \in Published : PublishTopic(t)
         \/ SendMessage \/ WriteFlag
         \/ \E t \in Subscribed, v \in Values : OnMessage(t, v)
  PROVE  UNCHANGED Updates!vars
  <1> USE DEF TypeOK, Topics
  <1>1. ASSUME NEW t \in Published, PublishTopic(t) PROVE UNCHANGED Updates!vars
    <2>1. /\ pc = "publish" /\ pc' = "text" /\ publishing' = t /\ updated[t]
          /\ updated' = [updated EXCEPT ![t] = FALSE]
          /\ UNCHANGED <<value, writing, body, attempted>>
      BY <1>1 DEF PublishTopic, others
    <2>2. \A u \in Published : Pending(u)' = Pending(u) /\ Outgoing(u)' = Outgoing(u)
      BY <2>1 DEF Pending, Outgoing
    <2> QED
      BY <2>1, <2>2, UpdatesStay
  <1>2. CASE SendMessage
    <2>1. /\ pc = "send" /\ pc' = "publish" /\ publishing \in Published
          /\ attempted' = [attempted EXCEPT ![publishing] = body]
          /\ UNCHANGED <<value, writing, updated>>
      BY <1>2 DEF SendMessage, WorkerPart, others
    <2>2. \A u \in Published : Pending(u)' = Pending(u) /\ Outgoing(u)' = Outgoing(u)
      BY <2>1 DEF Pending, Outgoing
    <2> QED
      BY <2>1, <2>2, UpdatesStay
  <1>3. CASE WriteFlag
    <2>1. /\ writing \in [topic : Published, changed : BOOLEAN]
          /\ writing' = NotWriting
          /\ updated' = [updated EXCEPT ![writing.topic] = @ \/ writing.changed]
          /\ UNCHANGED <<value, pc, publishing, body, attempted>>
      BY <1>3 DEF WriteFlag, workerVars, publishVars
    <2>2. ASSUME NEW u \in Published
          PROVE  Pending(u)' = Pending(u) /\ Outgoing(u)' = Outgoing(u)
      <3>1. writing' # [topic |-> u, changed |-> TRUE]
        BY <2>1 DEF NotWriting
      <3>2. writing = [topic |-> u, changed |-> TRUE]
              <=> writing.topic = u /\ writing.changed
        BY <2>1
      <3>3. updated'[u] = (updated[u] \/ (writing.topic = u /\ writing.changed))
        BY <2>1
      <3>4. Outgoing(u)' = Outgoing(u)
        BY <2>1 DEF Outgoing
      <3> QED
        BY <2>1, <3>1, <3>2, <3>3, <3>4 DEF Pending
    <2> QED
      BY <2>1, <2>2, UpdatesStay
  <1>4. ASSUME NEW t \in Subscribed, NEW v \in Values, OnMessage(t, v)
        PROVE  UNCHANGED Updates!vars
    <2>1. UNCHANGED <<pc, writing, publishing, body, attempted>>
      BY <1>4 DEF OnMessage, appVars, publishVars
    <2>2. \A u \in Published : value'[u] = value[u] /\ updated'[u] = updated[u]
      BY <1>4, TopicsAssumption DEF OnMessage
    <2> QED
      BY <2>1, <2>2, UpdatesStay DEF Pending, Outgoing
  <1> QED
    BY <1>1, <1>2, <1>3, <1>4

(* What the application writes to a metric reaches DoPublish as MetricUpdates *)
(* promises, however the writer's two steps and the worker's three interleave:*)
(* it is read while it is current, and no change is lost.                     *)
THEOREM ClientImplementsUpdates == Spec => ImplementsMetricUpdates
  <1>1. Init => Updates!Init
    <2> SUFFICES ASSUME Init PROVE Updates!Init
      OBVIOUS
    <2>1. \A t \in Published : value[t] = NoValue /\ ~Pending(t) /\ Outgoing(t) = NoValue
      BY DEF Init, Pending, Outgoing, NotWriting, Topics
    <2> QED
      BY <2>1 DEF Updates!Init, Pending
  <1>2. IInv /\ [Next]_vars => [Updates!Next]_(Updates!vars)
    <2> SUFFICES ASSUME IInv, [Next]_vars PROVE [Updates!Next]_(Updates!vars)
      OBVIOUS
    <2>1. TypeOK /\ WorkerPart
      BY DEF IInv
    <2>2. CASE \/ \E t \in Published : PublishTopic(t)
               \/ SendMessage \/ WriteFlag
               \/ \E t \in Subscribed, v \in Values : OnMessage(t, v)
      BY <2>1, <2>2, FlagsMove
    <2>3. CASE GenerateText
      BY <2>1, <2>3, GenerateTextTakes
    <2>4. CASE \E t \in Published, v \in Values : WriteValue(t, v)
      BY <2>1, <2>4, WriteValueWrites
    <2>5. CASE \/ TaskStart \/ TestStop \/ TaskExit \/ TaskExitWait
               \/ DoIdleWait \/ DoIdleConnect
               \/ DoWaitOnConnectTimeout \/ DoWaitOnConnect
               \/ DoOnlineDisconnect \/ DoOnlinePublish \/ DoWaitOnDisconnect
               \/ (\E t \in Published : SkipTopic(t)) \/ PublishDone
      BY <2>5, UpdatesUntouched
      DEF TaskStart, TestStop, TaskExit, TaskExitWait, DoIdleWait, DoIdleConnect,
          DoWaitOnConnectTimeout, DoWaitOnConnect, DoOnlineDisconnect,
          DoOnlinePublish, DoWaitOnDisconnect, SkipTopic, PublishDone, others,
          publishVars
    <2>6. CASE \/ Start \/ Restart \/ RestartJoined \/ Stop \/ StopJoined
               \/ SetInService \/ (\E t \in Topics : AddMetric(t))
      BY <2>6, UpdatesUntouched
      DEF Start, StartWorker, Restart, RestartJoined, Stop, StopJoined,
          SetInService, AddMetric, workerVars, metricVars, publishVars
    <2>7. CASE \/ NetworkEvent \/ OnSuccess \/ OnFailure \/ OnConnectionLost
               \/ OnDeliveryComplete \/ Timeout
      BY <2>7, UpdatesUntouched
      DEF NetworkEvent, OnSuccess, OnFailure, OnConnectionLost,
          OnDeliveryComplete, Timeout, appVars, metricVars, publishVars
    <2>8. CASE UNCHANGED vars
      BY <2>8, UpdatesUntouched DEF vars, metricVars, publishVars
    <2> QED
      BY <2>2, <2>3, <2>4, <2>5, <2>6, <2>7, <2>8
      DEF Next, Worker, App, Environment
  <1> QED
    BY <1>1, <1>2, ClientInvariant, PTL
       DEF Spec, ImplementsMetricUpdates, Updates!Spec
=============================================================================
