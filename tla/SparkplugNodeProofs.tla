-------------------------- MODULE SparkplugNodeProofs --------------------------
(***************************************************************************)
(* Theorems about SparkplugNode, for every set of devices, every range of  *)
(* sequence numbers and everything the application may do.                 *)
(***************************************************************************)
EXTENDS SparkplugNode, TLAPS

-----------------------------------------------------------------------------
(* Types of what the actions are built from. *)

LEMMA MessageTypes ==
  ASSUME NEW m \in Message \union {NoMessage}
  PROVE  /\ m.type \in {"NBIRTH", "NDEATH", "DBIRTH", "DDEATH", "none"}
         /\ m.device \in Devices \union {NoDevice}
         /\ m.type \in {"DBIRTH", "DDEATH"} => m.device \in Devices
         /\ m.type \in {"NBIRTH", "NDEATH", "none"} => m.device = NoDevice
         /\ m # NoMessage => m.type # "none" /\ m \in Message /\ m.seq \in Sequence
  BY SeqModulusAssumption DEF Message, NodeMessage, DeviceMessage, NoMessage, Sequence

LEMMA NextNumberType ==
  ASSUME NEW n \in Sequence
  PROVE  (n + 1) % SeqModulus \in Sequence
  BY SeqModulusAssumption DEF Sequence

(* What Seen does to a session that a message of the library meets.         *)
LEMMA SeenType ==
  ASSUME NEW s \in Session, NEW m \in Message
  PROVE  /\ Seen(s, m) \in Session
         /\ Seen(s, m).nbirth = (s.nbirth \/ m.type = "NBIRTH")
         /\ Seen(s, m).ndeath = (s.ndeath \/ m.type = "NDEATH")
         /\ \A d \in Devices :
              Seen(s, m).device[d] = IF d = m.device THEN m.type ELSE s.device[d]
  <1>1. m.seq \in Sequence /\ (m.seq + 1) % SeqModulus \in Sequence
    BY NextNumberType DEF Message, NodeMessage, DeviceMessage
  <1>2. [d \in Devices |-> IF d = m.device THEN m.type ELSE s.device[d]]
          \in [Devices -> {"none", "DBIRTH", "DDEATH"}]
    BY DevicesAssumption DEF Session, Message, NodeMessage, DeviceMessage
  <1> QED
    BY <1>1, <1>2 DEF Seen, Session

(* Taking a number and sending a message keep the publisher's variables in  *)
(* their types, and each thread touches its own message only.               *)
LEMMA TakeNumberType ==
  ASSUME TypeOK, NEW t \in Threads, NEW type, NEW d, TakeNumber(t, type, d),
         \/ type \in {"NBIRTH", "NDEATH"} /\ d = NoDevice
         \/ type \in {"DBIRTH", "DDEATH"} /\ d \in Devices
  PROVE  /\ sending' \in [Threads -> Message \union {NoMessage}]
         /\ sequenceNumber' \in Sequence
         /\ sending'[t] \in Message /\ sending'[t] # NoMessage
         /\ sending'[t].type = type /\ sending'[t].device = d
         /\ \A u \in Threads \ {t} : sending'[u] = sending[u]
  <1> DEFINE m == [type |-> type, device |-> d, seq |-> sequenceNumber]
  <1>1. m \in Message /\ m # NoMessage
    BY DEF TypeOK, Message, NodeMessage, DeviceMessage, NoMessage
  <1>2. sequenceNumber' \in Sequence
    BY NextNumberType DEF TypeOK, TakeNumber
  <1>3. sending' = [sending EXCEPT ![t] = m]
    BY DEF TakeNumber
  <1>4. sending \in [Threads -> Message \union {NoMessage}]
    BY DEF TypeOK
  <1> HIDE DEF m
  <1>5. m.type = type /\ m.device = d
    BY DEF m
  <1> QED
    BY <1>1, <1>2, <1>3, <1>4, <1>5

LEMMA SendMessageType ==
  ASSUME TypeOK, NEW t \in Threads, SendMessage(t), sending[t] # NoMessage
  PROVE  /\ sending' \in [Threads -> Message \union {NoMessage}]
         /\ sequenceNumber' \in Sequence
         /\ session' \in Session
         /\ sending[t] \in Message
         /\ \A u \in Threads \ {t} : sending'[u] = sending[u]
  <1>1. sending[t] \in Message
    BY DEF TypeOK
  <1>2. Seen(session, sending[t]) \in Session
    BY <1>1, SeenType DEF TypeOK
  <1>3. session' \in Session
    BY <1>2 DEF SendMessage, TypeOK
  <1> QED
    BY <1>1, <1>3 DEF SendMessage, TypeOK

LEMMA AfterPublishType ==
  ASSUME TypeOK, NEW type, NEW d, AfterPublish(type, d),
         \/ type \in {"NBIRTH", "NDEATH"} /\ d = NoDevice
         \/ type \in {"DBIRTH", "DDEATH"} /\ d \in Devices
  PROVE  /\ nodeState' \in NodeState
         /\ deviceState' \in [Devices -> DeviceState]
         /\ todo' \subseteq Devices
         /\ pc' \in WorkerAt
         /\ nodeState' = IF type = "NBIRTH" THEN "Online" ELSE nodeState
         /\ pc' = IF type = "NDEATH" THEN "disconnect" ELSE "poll"
  <1>1. deviceState' \in [Devices -> DeviceState]
    <2>1. CASE type \in {"NBIRTH", "NDEATH"}
      BY <2>1 DEF AfterPublish, TypeOK
    <2>2. CASE type = "DBIRTH"
      BY <2>2 DEF AfterPublish, TypeOK, DeviceState
    <2>3. CASE type = "DDEATH"
      BY <2>3 DEF AfterPublish, TypeOK, DeviceState
    <2> QED
      BY <2>1, <2>2, <2>3
  <1> QED
    BY <1>1 DEF AfterPublish, TypeOK, NodeState, WorkerAt

(* A session as it opens.                                                   *)
LEMMA NewSessionType ==
  ASSUME TypeOK
  PROVE  /\ NewSession(sequenceNumber) \in Session
         /\ ~NewSession(sequenceNumber).nbirth
         /\ ~NewSession(sequenceNumber).ndeath
         /\ \A d \in Devices : NewSession(sequenceNumber).device[d] = "none"
  BY DEF TypeOK, NewSession, Session

-----------------------------------------------------------------------------
(* The inductive invariant. *)

LEMMA InitIInv == Init => IInv
  <1> SUFFICES ASSUME Init PROVE IInv
    OBVIOUS
  <1>1. 0 \in Sequence
    BY SeqModulusAssumption DEF Sequence
  <1>2. NewSession(0) \in Session
    BY <1>1 DEF NewSession, Session
  <1>3. TypeOK
    BY <1>1, <1>2, WaitOnHostOnlineAssumption
    DEF Init, HandleInit, TypeOK, HandleTypeOK, HandleState, Callback, NodeState,
        DeviceState, WorkerAt
  <1> QED
    BY <1>3 DEF Init, HandleInit, IInv, ConnectingPart, ConnectedPart, WorkerPart,
                AppPart, BirthBeforeDevices, NoHandleWithoutWorker

(* Publishing is the part of a handler that all its publications share:     *)
(* either the worker stops between the number and the send, or, without a   *)
(* connection, goes on at once.                                             *)
LEMMA PublishIInv ==
  ASSUME IInv, NEW type, NEW d, Publish(type, d),
         \/ type = "NBIRTH" /\ d = NoDevice /\ pc = "birth"
         \/ type = "NDEATH" /\ d = NoDevice /\ pc = "death"
         \/ type \in {"DBIRTH", "DDEATH"} /\ d \in Devices /\ pc = "poll",
         closing' \in BOOLEAN,
         UNCHANGED <<handle, callbacks, timerUp, delivered, others>>
  PROVE  IInv'
  <1> USE DEF IInv, others, settings
  <1>1. CASE isConnected /\ TakeNumber("worker", type, d) /\ pc' = "send"
             /\ UNCHANGED <<nodeState, deviceState, todo, session>>
    <2>1. /\ sending' \in [Threads -> Message \union {NoMessage}]
          /\ sequenceNumber' \in Sequence
          /\ sending'["worker"] \in Message /\ sending'["worker"] # NoMessage
          /\ sending'["worker"].type = type
          /\ sending'["app"] = sending["app"]
      BY <1>1, TakeNumberType DEF Threads
    <2>2. TypeOK'
      BY <1>1, <2>1 DEF TypeOK, HandleTypeOK, WorkerAt
    <2>3. WorkerPart' /\ AppPart'
      BY <1>1, <2>1 DEF WorkerPart, AppPart
    <2>4. ConnectingPart' /\ ConnectedPart' /\ BirthBeforeDevices' /\ NoHandleWithoutWorker'
      BY <1>1, <2>1 DEF ConnectingPart, ConnectedPart, BirthBeforeDevices,
                        NoHandleWithoutWorker, isConnected
    <2> QED
      BY <2>2, <2>3, <2>4
  <1>2. CASE ~isConnected /\ AfterPublish(type, d) /\ UNCHANGED publishVars
    <2>1. /\ nodeState' \in NodeState
          /\ deviceState' \in [Devices -> DeviceState]
          /\ todo' \subseteq Devices
          /\ pc' \in WorkerAt
          /\ nodeState' = IF type = "NBIRTH" THEN "Online" ELSE nodeState
          /\ pc' = IF type = "NDEATH" THEN "disconnect" ELSE "poll"
      BY <1>2, AfterPublishType
    <2>2. TypeOK'
      BY <1>2, <2>1 DEF TypeOK, HandleTypeOK, publishVars
    <2>3. WorkerPart' /\ AppPart'
      BY <1>2, <2>1 DEF WorkerPart, AppPart, publishVars
    <2>4. ConnectingPart' /\ ConnectedPart' /\ BirthBeforeDevices' /\ NoHandleWithoutWorker'
      BY <1>2, <2>1 DEF ConnectingPart, ConnectedPart, BirthBeforeDevices,
                        NoHandleWithoutWorker, isConnected, publishVars
    <2> QED
      BY <2>2, <2>3, <2>4
  <1> QED
    BY <1>1, <1>2 DEF Publish

LEMMA WorkerSendIInv == IInv /\ WorkerSend => IInv'
  <1> SUFFICES ASSUME IInv, WorkerSend PROVE IInv'
    OBVIOUS
  <1> DEFINE m == sending["worker"]
  <1>0. pc = "send" /\ m # NoMessage /\ TypeOK /\ "worker" \in Threads
    BY DEF IInv, WorkerPart, WorkerSend, Threads
  <1>1. /\ sending' \in [Threads -> Message \union {NoMessage}]
        /\ sequenceNumber' \in Sequence
        /\ session' \in Session
        /\ m \in Message
        /\ sending'["app"] = sending["app"]
    BY <1>0, SendMessageType DEF WorkerSend, Threads
  <1>2. \/ m.type \in {"NBIRTH", "NDEATH"} /\ m.device = NoDevice
        \/ m.type \in {"DBIRTH", "DDEATH"} /\ m.device \in Devices
    BY <1>1 DEF Message, NodeMessage, DeviceMessage
  <1>3. /\ nodeState' \in NodeState
        /\ deviceState' \in [Devices -> DeviceState]
        /\ todo' \subseteq Devices
        /\ pc' \in WorkerAt
        /\ nodeState' = IF m.type = "NBIRTH" THEN "Online" ELSE nodeState
        /\ pc' = IF m.type = "NDEATH" THEN "disconnect" ELSE "poll"
    BY <1>0, <1>2, AfterPublishType DEF WorkerSend
  <1>4. handle = "connected" =>
          /\ session'.nbirth = (session.nbirth \/ m.type = "NBIRTH")
          /\ session'.ndeath = (session.ndeath \/ m.type = "NDEATH")
          /\ \A d \in Devices :
               session'.device[d] = IF d = m.device THEN m.type ELSE session.device[d]
    BY <1>0, <1>1, SeenType DEF WorkerSend, SendMessage, TypeOK
  <1>5. nodeState = IF m.type = "NBIRTH" THEN "WaitOnConnect" ELSE "Online"
    BY <1>0 DEF IInv, WorkerPart
  <1>6. UNCHANGED <<handle, callbacks, timerUp, delivered, connectionLost,
                    stopNodeTask, settings, hostOnline, deviceInService, closing,
                    app, scadaHost>>
    BY DEF WorkerSend
  <1> HIDE DEF m
  <1>7. TypeOK'
    BY <1>0, <1>1, <1>3, <1>6 DEF TypeOK, HandleTypeOK, settings
  <1>8. ConnectingPart'
    BY <1>0, <1>6 DEF IInv, ConnectingPart
  <1>9. ConnectedPart'
    <2> SUFFICES ASSUME handle' = "connected"
                 PROVE  /\ nodeState' # "WaitOnDisconnect"
                        /\ nodeState' = "Online" <=> session'.nbirth
                        /\ session'.ndeath => pc' = "disconnect"
      BY DEF ConnectedPart
    <2>1. handle = "connected"
      BY <1>6
    <2>2. /\ nodeState = "Online" <=> session.nbirth
          /\ ~session.ndeath
      BY <2>1, <1>0 DEF IInv, ConnectedPart, TypeOK, Session
    <2> QED
      BY <2>1, <2>2, <1>2, <1>3, <1>4, <1>5
  <1>10. BirthBeforeDevices'
    <2> SUFFICES ASSUME handle' = "connected", NEW d \in Devices,
                        session'.device[d] = "DBIRTH"
                 PROVE  session'.nbirth
      BY DEF BirthBeforeDevices
    <2>1. handle = "connected"
      BY <1>6
    <2>2. nodeState = "Online" <=> session.nbirth
      BY <2>1 DEF IInv, ConnectedPart
    <2>3. CASE d = m.device
      BY <2>1, <2>2, <2>3, <1>2, <1>4, <1>5
    <2>4. CASE d # m.device
      BY <2>1, <2>4, <1>4 DEF IInv, BirthBeforeDevices
    <2> QED
      BY <2>3, <2>4
  <1>11. WorkerPart' /\ AppPart' /\ NoHandleWithoutWorker'
    BY <1>1, <1>2, <1>3, <1>5, <1>6 DEF IInv, WorkerPart, AppPart, NoHandleWithoutWorker
  <1> QED
    BY <1>7, <1>8, <1>9, <1>10, <1>11 DEF IInv

LEMMA WorkerIInv == IInv /\ Worker => IInv'
  <1> SUFFICES ASSUME IInv, Worker PROVE IInv'
    OBVIOUS
  <1> USE DEF IInv, TypeOK, HandleTypeOK, ConnectingPart, ConnectedPart, WorkerPart, AppPart,
         BirthBeforeDevices, NoHandleWithoutWorker,
         HandleState, Callback, NodeState, DeviceState, WorkerAt, others, settings, publishVars
  <1>1. CASE TaskStart
    BY <1>1 DEF TaskStart, Destroy
  <1>2. CASE TestStop
    BY <1>2 DEF TestStop
  <1>3. CASE TaskExit
    BY <1>3 DEF TaskExit, Destroy, SendDisconnect, Disconnect, isConnected
  <1>4. CASE TaskExitWait
    BY <1>4 DEF TaskExitWait, Destroy
  <1>5. CASE DoIdleWait
    BY <1>5 DEF DoIdleWait, Destroy
  <1>6. CASE DoIdleConnect
    BY <1>6 DEF DoIdleConnect, CreateAndConnect, CreateOrConnectFails
  <1>7. CASE DoWaitOnConnectNotYet
    BY <1>7 DEF DoWaitOnConnectNotYet, isConnected
  <1>8. CASE DoOnline
    BY <1>8 DEF DoOnline
  <1>9. CASE PollDone
    BY <1>9 DEF PollDone
  <1>10. CASE DoOnlineDisconnect
    BY <1>10 DEF DoOnlineDisconnect, SendDisconnect, Disconnect
  <1>11. CASE DoWaitOnDisconnect
    BY <1>11 DEF DoWaitOnDisconnect
  <1>12. CASE DoWaitOnConnectSubscribe
    BY <1>12 DEF DoWaitOnConnectSubscribe, isConnected, Session
  <1>13. CASE DoWaitOnConnectBirth
    BY <1>13, PublishIInv DEF DoWaitOnConnectBirth
  <1>14. CASE DoOnlineDeath
    BY <1>14, PublishIInv DEF DoOnlineDeath
  <1>15. ASSUME NEW d \in Devices, PollDevice(d) PROVE IInv'
    <2>1. CASE PollWithMessage(d)
      BY <1>15, <2>1, PublishIInv DEF PollDevice, PollWithMessage
    <2>2. CASE PollSilently(d)
      BY <1>15, <2>2 DEF PollDevice, PollSilently
    <2> QED
      BY <1>15, <2>1, <2>2 DEF PollDevice
  <1>16. CASE WorkerSend
    BY <1>16, WorkerSendIInv
  <1> QED
    BY <1>1, <1>2, <1>3, <1>4, <1>5, <1>6, <1>7, <1>8, <1>9, <1>10, <1>11, <1>12, <1>13, <1>14, <1>15, <1>16 DEF Worker

LEMMA AppIInv == IInv /\ App => IInv'
  <1> SUFFICES ASSUME IInv, App PROVE IInv'
    OBVIOUS
  <1> USE DEF IInv, TypeOK, HandleTypeOK, ConnectingPart, ConnectedPart, WorkerPart, AppPart,
         BirthBeforeDevices, NoHandleWithoutWorker,
         HandleState, Callback, NodeState, DeviceState, WorkerAt, settings, clientVars, deviceVars, pollVars, publishVars,
         workerVars
  <1>1. CASE NodeStart
    BY <1>1 DEF NodeStart
  <1>2. CASE NodeStop
    BY <1>2 DEF NodeStop
  <1>3. CASE NodeStopReturns
    BY <1>3 DEF NodeStopReturns, Destroy
  <1>4. CASE SetInService
    BY <1>4 DEF SetInService
  <1>5. CASE SetWaitOnHostOnline
    BY <1>5 DEF SetWaitOnHostOnline
  <1>6. ASSUME NEW d \in Devices, SetDeviceInService(d) PROVE IInv'
    BY <1>6 DEF SetDeviceInService
  <1>7. ASSUME NEW d \in Devices, DeviceStart(d) PROVE IInv'
    BY <1>7 DEF DeviceStart
  <1>8. ASSUME NEW d \in Devices, DeviceStop(d) PROVE IInv'
    <2>1. /\ sending' \in [Threads -> Message \union {NoMessage}]
          /\ sequenceNumber' \in Sequence
          /\ sending'["app"].type = "DDEATH"
          /\ sending'["worker"] = sending["worker"]
      BY <1>8, TakeNumberType DEF DeviceStop, Threads
    <2> QED
      BY <1>8, <2>1 DEF DeviceStop
  <1>9. CASE DeviceStopSend
    <2> DEFINE m == sending["app"]
    <2>1. m.type = "DDEATH" /\ m # NoMessage
      BY <1>9 DEF DeviceStopSend, NoMessage
    <2>2. /\ sending' \in [Threads -> Message \union {NoMessage}]
          /\ sequenceNumber' \in Sequence
          /\ session' \in Session
          /\ m \in Message
          /\ sending'["worker"] = sending["worker"]
      BY <1>9, <2>1, SendMessageType DEF DeviceStopSend, Threads
    <2>3. handle = "connected" =>
            /\ session'.nbirth = session.nbirth
            /\ session'.ndeath = session.ndeath
            /\ \A d \in Devices :
                 session'.device[d] = "DBIRTH" => session.device[d] = "DBIRTH"
      BY <1>9, <2>1, <2>2, SeenType DEF DeviceStopSend, SendMessage, Session
    <2> QED
      BY <1>9, <2>2, <2>3 DEF DeviceStopSend
  <1> QED
    BY <1>1, <1>2, <1>3, <1>4, <1>5, <1>6, <1>7, <1>8, <1>9 DEF App

LEMMA EnvironmentIInv == IInv /\ Environment => IInv'
  <1> SUFFICES ASSUME IInv, Environment PROVE IInv'
    OBVIOUS
  <1> USE DEF IInv, TypeOK, HandleTypeOK, ConnectingPart, ConnectedPart, WorkerPart, AppPart,
         BirthBeforeDevices, NoHandleWithoutWorker,
         HandleState, Callback, NodeState, DeviceState, WorkerAt, settings, clientVars, deviceVars, pollVars, publishVars,
         appVars
  <1>1. CASE AttemptFails
    BY <1>1 DEF AttemptFails, Refused, Event
  <1>2. CASE SessionCloses
    BY <1>2 DEF SessionCloses, Closed, Event
  <1>3. CASE ConnectionBreaks
    BY <1>3 DEF ConnectionBreaks, Lost, Event
  <1>4. CASE Answers
    BY <1>4 DEF Answers, OnAnswer, Called
  <1>5. CASE OnConnectionLost
    BY <1>5 DEF OnConnectionLost, Called
  <1>6. CASE OnStateMessage
    BY <1>6 DEF OnStateMessage
  <1>7. CASE HostChanges
    BY <1>7 DEF HostChanges
  <1>8. CASE Timeout
    BY <1>8 DEF Timeout
  <1>9. CASE SessionOpens
    BY <1>9, NewSessionType DEF SessionOpens, Accepted, Event
  <1> QED
    BY <1>1, <1>2, <1>3, <1>4, <1>5, <1>6, <1>7, <1>8, <1>9 DEF Environment

(* The invariant holds in every state of every behaviour of the node.       *)
THEOREM NodeInvariant == Spec => []IInv
  <1>1. IInv /\ UNCHANGED vars => IInv'
    BY DEF IInv, TypeOK, HandleTypeOK, ConnectingPart, ConnectedPart, WorkerPart,
           AppPart, BirthBeforeDevices, NoHandleWithoutWorker, vars, clientVars,
           settings, deviceVars, pollVars, publishVars
  <1>2. IInv /\ [Next]_vars => IInv'
    BY <1>1, WorkerIInv, AppIInv, EnvironmentIInv DEF Next
  <1> QED
    BY InitIInv, <1>2, PTL DEF Spec

-----------------------------------------------------------------------------
(* The safety properties that follow from it.                               *)

(* Every variable keeps its type: TypeOK of SparkplugNode.                  *)
THEOREM TypeCorrect == Spec => []TypeOK
  <1>1. IInv => TypeOK
    BY DEF IInv
  <1> QED
    BY NodeInvariant, <1>1, PTL

(* No device is born in a connection before its node is: DoWaitOnConnect    *)
(* and DoOnline publish in that order, whatever the connection does.        *)
THEOREM BirthsInOrder == Spec => []BirthBeforeDevices
  <1>1. IInv => BirthBeforeDevices
    BY DEF IInv
  <1> QED
    BY NodeInvariant, <1>1, PTL

(* After the death of the node, the worker's next step is SendDisconnect.   *)
THEOREM DeathIsLast == Spec => []SilentAfterDeath
  <1>1. IInv => SilentAfterDeath
    BY DEF IInv, ConnectedPart, SilentAfterDeath
  <1> QED
    BY NodeInvariant, <1>1, PTL

(* Stop and the end of NodeTask leave no handle behind.                     *)
THEOREM HandleNeedsWorker == Spec => []NoHandleWithoutWorker
  <1>1. IInv => NoHandleWithoutWorker
    BY DEF IInv
  <1> QED
    BY NodeInvariant, <1>1, PTL

-----------------------------------------------------------------------------
(* The node implements EdgeSession.                                         *)

(* A step that leaves the session alone, or that happens without one, is a  *)
(* stuttering step of EdgeSession, or its Close.                            *)
LEMMA SessionUntouched ==
  ASSUME IInv, UNCHANGED <<session>>, handle' = "connected" => handle = "connected"
  PROVE  [Edge!Next]_(Edge!vars)
  BY DEF IInv, TypeOK, HandleTypeOK, Session, Edge!Next, Edge!Close, Edge!Unseen,
         Edge!vars, Phase

(* A message that reaches the broker is a birth or a death of EdgeSession.  *)
LEMMA MessageStep ==
  ASSUME IInv, NEW t \in Threads, SendMessage(t), UNCHANGED handle,
         sending[t] # NoMessage,
         handle = "connected" =>
           \/ sending[t].type = "NBIRTH" /\ ~session.nbirth /\ ~session.ndeath
           \/ sending[t].type \in {"NDEATH", "DBIRTH"} /\ session.nbirth /\ ~session.ndeath
           \/ sending[t].type = "DDEATH"
  PROVE  [Edge!Next]_(Edge!vars)
  <1> DEFINE m == sending[t]
  <1>1. CASE handle # "connected"
    BY <1>1, SessionUntouched DEF SendMessage
  <1>2. CASE handle = "connected"
    <2>1. m \in Message /\ session \in Session
      BY DEF IInv, TypeOK
    <2>2. /\ session' \in Session
          /\ session'.nbirth = (session.nbirth \/ m.type = "NBIRTH")
          /\ session'.ndeath = (session.ndeath \/ m.type = "NDEATH")
          /\ \A d \in Devices :
               session'.device[d] = IF d = m.device THEN m.type ELSE session.device[d]
      BY <1>2, <2>1, SeenType DEF SendMessage
    <2>3. /\ m.type \in {"DBIRTH", "DDEATH"} => m.device \in Devices
          /\ m.type \in {"NBIRTH", "NDEATH"} => m.device = NoDevice
      BY <2>1, MessageTypes
    <2>4. /\ session.device \in [Devices -> {"none", "DBIRTH", "DDEATH"}]
          /\ session'.device \in [Devices -> {"none", "DBIRTH", "DDEATH"}]
          /\ {session.nbirth, session.ndeath, session'.nbirth, session'.ndeath}
               \subseteq BOOLEAN
      BY <2>1, <2>2 DEF Session
    <2>5. ASSUME m.type \in {"NBIRTH", "NDEATH"} PROVE session'.device = session.device
      BY <2>2, <2>3, <2>4, <2>5, DevicesAssumption
    <2>6. ASSUME m.type \in {"DBIRTH", "DDEATH"}
          PROVE  session'.device = [session.device EXCEPT ![m.device] = m.type]
      BY <2>2, <2>3, <2>4, <2>6
    <2>7. handle' = "connected"
      BY <1>2
    <2> HIDE DEF m
    <2>9. CASE m.type = "NBIRTH"
      BY <1>2, <2>2, <2>4, <2>5, <2>7, <2>9 DEF m, Phase, Edge!Next, Edge!NodeBirth
    <2>10. CASE m.type = "NDEATH"
      BY <1>2, <2>2, <2>4, <2>5, <2>7, <2>10 DEF m, Phase, Edge!Next, Edge!NodeDeath
    <2>11. CASE m.type = "DBIRTH"
      BY <1>2, <2>2, <2>3, <2>4, <2>6, <2>7, <2>11
      DEF m, Phase, Edge!Next, Edge!DeviceBirth
    <2>12. CASE m.type = "DDEATH"
      BY <1>2, <2>2, <2>3, <2>4, <2>6, <2>7, <2>12
      DEF m, Phase, Edge!Next, Edge!DeviceDeath
    <2> QED
      BY <2>1, <2>9, <2>10, <2>11, <2>12 DEF m, Message, NodeMessage, DeviceMessage
  <1> QED
    BY <1>1, <1>2

(* Every connection of the node is a session as EdgeSession promises it.    *)
THEOREM NodeImplementsEdgeSession == Spec => ImplementsEdgeSession
  <1>1. Init => Edge!Init
    BY DEF Init, HandleInit, Edge!Init, Edge!Unseen, Phase
  <1>2. IInv /\ [Next]_vars => [Edge!Next]_(Edge!vars)
    <2> SUFFICES ASSUME IInv, [Next]_vars PROVE [Edge!Next]_(Edge!vars)
      OBVIOUS
    <2>1. CASE WorkerSend
      <3>1. /\ "worker" \in Threads /\ sending["worker"] # NoMessage
            /\ nodeState = IF sending["worker"].type = "NBIRTH"
                           THEN "WaitOnConnect" ELSE "Online"
            /\ pc = "send"
        BY <2>1 DEF WorkerSend, Threads, IInv, WorkerPart
      <3>2. sending["worker"].type \in {"NBIRTH", "NDEATH", "DBIRTH", "DDEATH"}
        BY <3>1, MessageTypes DEF IInv, TypeOK
      <3>3. handle = "connected" =>
              (nodeState = "Online" <=> session.nbirth) /\ ~session.ndeath
        BY <3>1 DEF IInv, ConnectedPart
      <3> QED
        BY <2>1, <3>1, <3>2, <3>3, MessageStep DEF WorkerSend
    <2>2. CASE DeviceStopSend
      <3>1. "app" \in Threads /\ sending["app"] # NoMessage /\ sending["app"].type = "DDEATH"
        BY <2>2 DEF DeviceStopSend, Threads, IInv, AppPart, NoMessage
      <3> QED
        BY <2>2, <3>1, MessageStep DEF DeviceStopSend
    <2>3. CASE SessionOpens
      <3>1. ~session'.nbirth /\ session'.device = [d \in Devices |-> "none"]
        BY <2>3 DEF SessionOpens, NewSession
      <3>2. handle = "connecting" /\ handle' = "connected"
        BY <2>3 DEF SessionOpens, Accepted, Event
      <3> QED
        BY <3>1, <3>2 DEF Edge!Next, Edge!Open, Phase
    <2>4. CASE DoWaitOnConnectSubscribe
      <3>1. /\ session'.nbirth = session.nbirth
            /\ session'.ndeath = session.ndeath
            /\ session'.device = session.device
            /\ handle' = handle
        BY <2>4 DEF DoWaitOnConnectSubscribe, IInv, TypeOK, Session
      <3> QED
        BY <3>1 DEF Edge!vars, Phase
    <2>5. ASSUME UNCHANGED session, handle' = "connected" => handle = "connected"
          PROVE  [Edge!Next]_(Edge!vars)
      BY <2>5, SessionUntouched
    <2>6. CASE Worker /\ ~WorkerSend /\ ~DoWaitOnConnectSubscribe
      BY <2>5, <2>6
      DEF Worker, TaskStart, TestStop, TaskExit, TaskExitWait, DoIdleWait,
          DoIdleConnect, DoWaitOnConnectNotYet, DoWaitOnConnectBirth, DoOnline,
          PollDevice, PollWithMessage, PollSilently, PollDone, DoOnlineDeath,
          DoOnlineDisconnect, DoWaitOnDisconnect, Publish, publishVars, Destroy,
          CreateAndConnect, CreateOrConnectFails, SendDisconnect, Disconnect
    <2>7. CASE App /\ ~DeviceStopSend
      BY <2>5, <2>7
      DEF App, NodeStart, NodeStop, NodeStopReturns, SetInService,
          SetWaitOnHostOnline, SetDeviceInService, DeviceStart, DeviceStop,
          publishVars, workerVars, Destroy
    <2>8. CASE Environment /\ ~SessionOpens
      BY <2>5, <2>8
      DEF Environment, AttemptFails, SessionCloses, ConnectionBreaks, Answers,
          OnAnswer, OnConnectionLost, OnStateMessage, HostChanges, Timeout,
          publishVars, Refused, Closed, Lost, Event, Called
    <2>9. CASE UNCHANGED vars
      BY <2>5, <2>9 DEF vars, publishVars
    <2> QED
      BY <2>1, <2>2, <2>3, <2>4, <2>6, <2>7, <2>8, <2>9 DEF Next
  <1> QED
    BY <1>1, <1>2, NodeInvariant, PTL DEF Spec, ImplementsEdgeSession, Edge!Spec

-----------------------------------------------------------------------------
(* Sequence numbers, as long as only the worker publishes.                  *)

\* In a live connection the node's next number is the one a subscriber expects
\* next, unless the worker has just taken that one.
NumberPart ==
  /\ app # "send"
  /\ handle = "connected" =>
       /\ session.inOrder
       /\ IF pc = "send"
          THEN /\ sending["worker"].seq = session.next
               /\ sequenceNumber = (session.next + 1) % SeqModulus
          ELSE sequenceNumber = session.next

\* A step that leaves the numbers and the session alone, and neither begins a
\* connection nor a publication, nor ends one.
LEMMA NumbersUntouched ==
  ASSUME NumberPart, UNCHANGED <<sequenceNumber, session, sending>>,
         handle' = "connected" => handle = "connected",
         app' # "send", pc' = "send" <=> pc = "send"
  PROVE  NumberPart'
  BY DEF NumberPart

\* Whoever publishes takes the number that is expected.
LEMMA PublishNumber ==
  ASSUME IInv, NumberPart, NEW type, NEW d, Publish(type, d), pc # "send",
         UNCHANGED <<handle, app>>
  PROVE  NumberPart'
  <1>1. CASE isConnected /\ TakeNumber("worker", type, d) /\ pc' = "send"
             /\ UNCHANGED <<nodeState, deviceState, todo, session>>
    <2>1. sending'["worker"].seq = sequenceNumber
      BY <1>1 DEF TakeNumber, IInv, TypeOK, Threads
    <2> QED
      BY <1>1, <2>1 DEF TakeNumber, NumberPart
  <1>2. CASE ~isConnected /\ AfterPublish(type, d) /\ UNCHANGED publishVars
    BY <1>2 DEF NumberPart, isConnected
  <1> QED
    BY <1>1, <1>2 DEF Publish

LEMMA NumberStep ==
  ASSUME "deviceStop" \notin Stimuli, IInv, NumberPart, [Next]_vars
  PROVE  NumberPart'
  <1> USE DEF others, settings
  <1>1. CASE WorkerSend
    <2>1. pc = "send" /\ pc' # "send"
      BY <1>1 DEF WorkerSend, AfterPublish
    <2>2. ASSUME handle = "connected"
          PROVE  /\ session'.next = (sending["worker"].seq + 1) % SeqModulus
                 /\ session'.inOrder
      BY <1>1, <2>1, <2>2
      DEF WorkerSend, SendMessage, Seen, NumberPart, IInv, TypeOK, Session
    <2> QED
      BY <1>1, <2>1, <2>2 DEF WorkerSend, SendMessage, NumberPart
  <1>2. CASE SessionOpens
    <2>1. pc' # "send" /\ app' # "send"
      BY <1>2 DEF SessionOpens, Accepted, Event, IInv, ConnectingPart, appVars,
                  pollVars, NumberPart
    <2> QED
      BY <1>2, <2>1 DEF SessionOpens, NewSession, NumberPart
  <1>3. CASE DoWaitOnConnectSubscribe
    <2>1. session'.next = session.next /\ session'.inOrder = session.inOrder
      BY <1>3 DEF DoWaitOnConnectSubscribe, IInv, TypeOK, Session
    <2> QED
      BY <1>3, <2>1 DEF DoWaitOnConnectSubscribe, NumberPart
  <1>4. CASE DoWaitOnConnectBirth
    BY <1>4, PublishNumber DEF DoWaitOnConnectBirth
  <1>5. CASE DoOnlineDeath
    BY <1>5, PublishNumber DEF DoOnlineDeath
  <1>6. ASSUME NEW d \in Devices, PollDevice(d) PROVE NumberPart'
    <2>1. CASE PollWithMessage(d)
      BY <1>6, <2>1, PublishNumber DEF PollDevice, PollWithMessage
    <2>2. CASE PollSilently(d)
      BY <1>6, <2>2, NumbersUntouched DEF PollDevice, PollSilently, publishVars,
                                          NumberPart
    <2> QED
      BY <1>6, <2>1, <2>2 DEF PollDevice
  <1>7. CASE TaskStart \/ TestStop \/ TaskExit \/ TaskExitWait \/ DoIdleWait
             \/ DoIdleConnect \/ DoWaitOnConnectNotYet \/ DoOnline \/ PollDone
             \/ DoOnlineDisconnect \/ DoWaitOnDisconnect
    BY <1>7, NumbersUntouched
    DEF TaskStart, TestStop, TaskExit, TaskExitWait, DoIdleWait, DoIdleConnect,
        DoWaitOnConnectNotYet, DoOnline, PollDone, DoOnlineDisconnect,
        DoWaitOnDisconnect, publishVars, Destroy, CreateAndConnect,
        CreateOrConnectFails, SendDisconnect, Disconnect, NumberPart
  <1>8. CASE App
    BY <1>8, NumbersUntouched
    DEF App, NodeStart, NodeStop, NodeStopReturns, SetInService,
        SetWaitOnHostOnline, SetDeviceInService, DeviceStart, DeviceStop,
        DeviceStopSend, publishVars, pollVars, workerVars, Destroy, NumberPart
  <1>9. CASE Environment /\ ~SessionOpens
    BY <1>9, NumbersUntouched
    DEF Environment, AttemptFails, SessionCloses, ConnectionBreaks, Answers,
        OnAnswer, OnConnectionLost, OnStateMessage, HostChanges, Timeout,
        publishVars, appVars, pollVars, Refused, Closed, Lost, Event, Called,
        NumberPart
  <1>10. CASE UNCHANGED vars
    BY <1>10, NumbersUntouched DEF vars, publishVars, pollVars, NumberPart
  <1> QED
    BY <1>1, <1>2, <1>3, <1>4, <1>5, <1>6, <1>7, <1>8, <1>9, <1>10
    DEF Next, Worker

(* A subscriber sees consecutive numbers in every connection, unless the    *)
(* application publishes the death of a device from its own thread: with    *)
(* two threads in DoPublish the order of numbers is not that of sends.      *)
THEOREM NumbersAreInOrder ==
  ASSUME "deviceStop" \notin Stimuli
  PROVE  Spec => []NumbersInOrder
  <1>1. Init => NumberPart
    BY DEF Init, HandleInit, NumberPart
  <1>2. IInv /\ NumberPart /\ [Next]_vars => NumberPart'
    BY NumberStep
  <1>3. NumberPart => NumbersInOrder
    BY DEF NumberPart, NumbersInOrder
  <1> QED
    BY NodeInvariant, <1>1, <1>2, <1>3, PTL DEF Spec
=============================================================================
