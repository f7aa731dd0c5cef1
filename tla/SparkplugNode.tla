---------------------------- MODULE SparkplugNode ----------------------------
(***************************************************************************)
(* A Sparkplug B edge node and its devices: src/src/sparkplugnode.cpp and  *)
(* src/src/sparkplugdevice.cpp.                                            *)
(*                                                                         *)
(* Three threads meet here.  The worker thread (NodeTask) runs a state     *)
(* machine every 100 ms and polls the devices; the application calls       *)
(* Start, Stop, InService and the devices' Start and Stop; Paho's thread   *)
(* calls back.  A message is published in two steps, as                    *)
(* SparkplugTopic::DoPublish does it: take the next sequence number, then  *)
(* hand the message to Paho; anything may happen between the two.          *)
(***************************************************************************)
EXTENDS MQTTAsync, Naturals

CONSTANTS
  Devices,            \* the devices of the node (device_list_)
  SeqModulus,         \* the range of sequence_number_; 256 in the code
  WaitOnHostOnline,   \* the node's setting of that name when it is created
  Stimuli             \* what the application and the SCADA host do meanwhile

AllStimuli ==
  {"stop", "inService", "deviceStart", "deviceStop", "deviceInService",
   "waitOnHostOnline", "hostState"}

NoDevice == "noDevice"

ASSUME DevicesAssumption == NoDevice \notin Devices
ASSUME SeqModulusAssumption == SeqModulus \in Nat \ {0}
ASSUME WaitOnHostOnlineAssumption == WaitOnHostOnline \in BOOLEAN
ASSUME StimuliAssumption == Stimuli \subseteq AllStimuli

VARIABLES
  nodeState,        \* node_state_
  timerUp,          \* now >= node_timer_, or the wait of the exit is over
  delivered,        \* delivered_
  connectionLost,   \* connection_lost_
  stopNodeTask,     \* stop_node_task_
  inService,        \* in_service_ of the node
  waitOnHostOnline, \* wait_on_host_online_
  hostOnline,       \* the answer of IsHostOnline()
  sequenceNumber,   \* sequence_number_
  deviceState,      \* device_state_ of each device
  deviceInService,  \* in_service_ of each device
  pc,               \* where the worker thread is
  todo,             \* the devices PollDevices has yet to poll
  closing,          \* DoOnline polls because it is about to disconnect
  app,              \* where the application thread is
  sending,          \* per thread, the message between its number and its send
  session,          \* what the broker has seen of the current connection
  scadaHost         \* the state the SCADA host last published

settings    == <<inService, waitOnHostOnline>>
clientVars  == <<nodeState, timerUp, delivered, connectionLost>>
deviceVars  == <<deviceState, deviceInService>>
pollVars    == <<pc, todo, closing>>
publishVars == <<sequenceNumber, sending, session>>
vars == <<handle, callbacks, clientVars, stopNodeTask, settings, hostOnline,
          deviceVars, pollVars, app, publishVars, scadaHost>>

NodeState   == {"Idle", "WaitOnConnect", "Online", "WaitOnDisconnect"}
DeviceState == {"Idle", "Offline", "Online"}
Threads     == {"worker", "app"}
Sequence    == 0 .. SeqModulus - 1

\* "none" no thread, "start" thread spawned, "test" the while condition,
\* "pass" one pass of the loop, "birth".."disconnect" inside a handler,
\* "exit", "exitWait" after the loop, "done" the thread function returned.
WorkerAt ==
  {"none", "start", "test", "pass", "birth", "poll", "send", "death",
   "disconnect", "exit", "exitWait", "done"}

NoMessage == [type |-> "none", device |-> NoDevice, seq |-> 0]

NodeMessage   == [type : {"NBIRTH", "NDEATH"}, device : {NoDevice}, seq : Sequence]
DeviceMessage == [type : {"DBIRTH", "DDEATH"}, device : Devices, seq : Sequence]
Message       == NodeMessage \union DeviceMessage

\* What a subscriber of the broker knows of a session: the births and deaths
\* it saw, and whether their numbers were consecutive from `next` on.
Session ==
  [subscribed : BOOLEAN, nbirth : BOOLEAN, ndeath : BOOLEAN,
   device : [Devices -> {"none", "DBIRTH", "DDEATH"}],
   next : Sequence, inOrder : BOOLEAN]

NewSession(seq) ==
  [subscribed |-> FALSE, nbirth |-> FALSE, ndeath |-> FALSE,
   device |-> [d \in Devices |-> "none"], next |-> seq, inOrder |-> TRUE]

TypeOK ==
  /\ HandleTypeOK
  /\ nodeState \in NodeState
  /\ {timerUp, delivered, connectionLost, stopNodeTask, inService,
      waitOnHostOnline, hostOnline, closing, scadaHost} \subseteq BOOLEAN
  /\ sequenceNumber \in Sequence
  /\ deviceState \in [Devices -> DeviceState]
  /\ deviceInService \in [Devices -> BOOLEAN]
  /\ pc \in WorkerAt
  /\ todo \subseteq Devices
  /\ app \in {"idle", "join", "send"}
  /\ sending \in [Threads -> Message \union {NoMessage}]
  /\ session \in Session

\* A node just constructed: in service, no thread, devices created but idle.
Init ==
  /\ HandleInit
  /\ nodeState = "Idle"
  /\ timerUp = TRUE
  /\ delivered = FALSE
  /\ connectionLost = FALSE
  /\ stopNodeTask = TRUE
  /\ inService \in BOOLEAN
  /\ waitOnHostOnline = WaitOnHostOnline
  /\ hostOnline = FALSE
  /\ sequenceNumber = 0
  /\ deviceState = [d \in Devices |-> "Idle"]
  /\ deviceInService \in [Devices -> BOOLEAN]
  /\ pc = "none"
  /\ todo = {}
  /\ closing = FALSE
  /\ app = "idle"
  /\ sending = [t \in Threads |-> NoMessage]
  /\ session = NewSession(0)
  /\ scadaHost \in BOOLEAN

-----------------------------------------------------------------------------
(* Publishing: SparkplugTopic::DoPublish behind the callers' IsConnected(). *)

\* Mutant: the number is not wrapped.
TakeNumberUnwrapped(t, type, d) ==
  /\ sending' = [sending EXCEPT
       ![t] = [type |-> type, device |-> d, seq |-> sequenceNumber]]
  /\ sequenceNumber' = sequenceNumber + 1

\* Mutant: the death is stamped with 0, as the will of SendConnect is.
TakeNumberZeroDeath(t, type, d) ==
  /\ sending' = [sending EXCEPT
       ![t] = [type |-> type, device |-> d,
               seq |-> IF type = "NDEATH" THEN 0 ELSE sequenceNumber]]
  /\ sequenceNumber' = (sequenceNumber + 1) % SeqModulus

\* NextSequenceNumber(), an atomic fetch-and-add, stamps the message.
TakeNumber(t, type, d) ==
  /\ sending' = [sending EXCEPT
       ![t] = [type |-> type, device |-> d, seq |-> sequenceNumber]]
  /\ sequenceNumber' = (sequenceNumber + 1) % SeqModulus

\* The broker's view of the session after message m.
Seen(s, m) ==
  [s EXCEPT !.nbirth  = @ \/ m.type = "NBIRTH",
            !.ndeath  = @ \/ m.type = "NDEATH",
            !.device  = [d \in Devices |-> IF d = m.device THEN m.type ELSE @[d]],
            !.next    = (m.seq + 1) % SeqModulus,
            !.inOrder = @ /\ m.seq = s.next]

\* MQTTAsync_sendMessage: without a connection it fails, which is only logged.
SendMessage(t) ==
  /\ sending' = [sending EXCEPT ![t] = NoMessage]
  /\ session' = IF handle = "connected" THEN Seen(session, sending[t]) ELSE session
  /\ UNCHANGED sequenceNumber

\* Mutant: after its death the node goes back to polling.
AfterPublishNoDisconnect(type, d) ==
  /\ nodeState' = IF type = "NBIRTH" THEN "Online" ELSE nodeState
  /\ deviceState' = CASE type = "DBIRTH" -> [deviceState EXCEPT ![d] = "Online"]
                      [] type = "DDEATH" -> [deviceState EXCEPT ![d] = "Offline"]
                      [] OTHER -> deviceState
  /\ todo' = IF type = "NBIRTH" THEN Devices ELSE todo \ {d}
  /\ pc' = "poll"

\* What the worker does once a publication of that type is over.
AfterPublish(type, d) ==
  /\ nodeState' = IF type = "NBIRTH" THEN "Online" ELSE nodeState
  /\ deviceState' = CASE type = "DBIRTH" -> [deviceState EXCEPT ![d] = "Online"]
                      [] type = "DDEATH" -> [deviceState EXCEPT ![d] = "Offline"]
                      [] OTHER -> deviceState
  /\ todo' = IF type = "NBIRTH" THEN Devices ELSE todo \ {d}
  /\ pc' = IF type = "NDEATH" THEN "disconnect" ELSE "poll"

\* PublishNodeBirth, PublishNodeDeath, PublishDeviceBirth, PublishDeviceDeath:
\* each returns without publishing when the node is not connected.
Publish(type, d) ==
  \/ /\ isConnected
     /\ TakeNumber("worker", type, d)
     /\ pc' = "send"
     /\ UNCHANGED <<nodeState, deviceState, todo, session>>
  \/ /\ ~isConnected
     /\ AfterPublish(type, d)
     /\ UNCHANGED publishVars

WorkerSend ==
  /\ pc = "send"
  /\ SendMessage("worker")
  /\ AfterPublish(sending["worker"].type, sending["worker"].device)
  /\ UNCHANGED <<handle, callbacks, timerUp, delivered, connectionLost,
                 stopNodeTask, settings, hostOnline, deviceInService, closing,
                 app, scadaHost>>

-----------------------------------------------------------------------------
(* The worker thread: SparkplugNode::NodeTask and the four state handlers. *)

\* What no handler of the worker writes.
others == <<connectionLost, stopNodeTask, settings, hostOnline,
            deviceInService, app, scadaHost>>

\* Mutant: the thread itself resets the stop flag.
TaskStartResetsStop ==
  /\ pc = "start"
  /\ pc' = "test"
  /\ timerUp' = TRUE
  /\ nodeState' = "Idle"
  /\ stopNodeTask' = FALSE
  /\ Destroy
  /\ UNCHANGED <<delivered, deviceState, todo, closing, publishVars,
                 connectionLost, settings, hostOnline, deviceInService, app,
                 scadaHost>>

TaskStart ==
  /\ pc = "start"
  /\ pc' = "test"
  /\ timerUp' = TRUE
  /\ nodeState' = "Idle"
  /\ Destroy
  /\ UNCHANGED <<delivered, deviceState, todo, closing, publishVars, others>>

\* while (!stop_node_task_)
TestStop ==
  /\ pc = "test"
  /\ pc' = IF stopNodeTask THEN "exit" ELSE "pass"
  /\ UNCHANGED <<handle, callbacks, nodeState, timerUp, delivered, deviceState,
                 todo, closing, publishVars, others>>

HostMissing == waitOnHostOnline /\ ~hostOnline

DoIdleWait ==
  /\ pc = "pass" /\ nodeState = "Idle"
  /\ ~timerUp \/ ~inService \/ HostMissing
  /\ Destroy
  /\ pc' = "test"
  /\ UNCHANGED <<nodeState, timerUp, delivered, deviceState, todo, closing,
                 publishVars, others>>

DoIdleConnect ==
  /\ pc = "pass" /\ nodeState = "Idle"
  /\ timerUp /\ inService /\ ~HostMissing
  /\ timerUp' = FALSE
  /\ pc' = "test"
  /\ \/ CreateAndConnect /\ nodeState' = "WaitOnConnect"
     \/ CreateOrConnectFails /\ UNCHANGED nodeState
  /\ UNCHANGED <<delivered, deviceState, todo, closing, publishVars, others>>

\* Mutant: no timeout.
DoWaitOnConnectForever ==
  /\ pc = "pass" /\ nodeState = "WaitOnConnect"
  /\ ~isConnected
  /\ pc' = "test"
  /\ UNCHANGED <<handle, callbacks, nodeState, timerUp, delivered, deviceState,
                 todo, closing, publishVars, others>>

\* No connection: wait on, or give up when the five seconds are over.
DoWaitOnConnectNotYet ==
  /\ pc = "pass" /\ nodeState = "WaitOnConnect"
  /\ ~isConnected
  /\ nodeState' = IF timerUp THEN "Idle" ELSE nodeState
  /\ timerUp' = FALSE
  /\ pc' = "test"
  /\ UNCHANGED <<handle, callbacks, delivered, deviceState, todo, closing,
                 publishVars, others>>

\* Mutant: the node does not look whether it is connected.
DoWaitOnConnectUnchecked ==
  /\ pc = "pass" /\ nodeState = "WaitOnConnect"
  /\ session' = [session EXCEPT !.subscribed = TRUE]
  /\ pc' = "birth"
  /\ UNCHANGED <<handle, callbacks, nodeState, timerUp, delivered, deviceState,
                 todo, closing, sequenceNumber, sending, others>>

\* StartSubscription comes before the node's birth.
DoWaitOnConnectSubscribe ==
  /\ pc = "pass" /\ nodeState = "WaitOnConnect"
  /\ isConnected
  /\ session' = [session EXCEPT !.subscribed = TRUE]
  /\ pc' = "birth"
  /\ UNCHANGED <<handle, callbacks, nodeState, timerUp, delivered, deviceState,
                 todo, closing, sequenceNumber, sending, others>>

DoWaitOnConnectBirth ==
  /\ pc = "birth"
  /\ closing' = FALSE
  /\ Publish("NBIRTH", NoDevice)
  /\ UNCHANGED <<handle, callbacks, timerUp, delivered, others>>

\* Mutants: a reason to disconnect is forgotten.
DoOnlineAnyService ==
  /\ pc = "pass" /\ nodeState = "Online"
  /\ closing' = (stopNodeTask \/ HostMissing)
  /\ todo' = Devices
  /\ pc' = "poll"
  /\ UNCHANGED <<handle, callbacks, nodeState, timerUp, delivered, deviceState,
                 publishVars, others>>

DoOnlineAnyHost ==
  /\ pc = "pass" /\ nodeState = "Online"
  /\ closing' = (stopNodeTask \/ ~inService)
  /\ todo' = Devices
  /\ pc' = "poll"
  /\ UNCHANGED <<handle, callbacks, nodeState, timerUp, delivered, deviceState,
                 publishVars, others>>

\* Online: poll the devices, and disconnect afterwards when the node must go.
DoOnline ==
  /\ pc = "pass" /\ nodeState = "Online"
  /\ closing' = (stopNodeTask \/ ~inService \/ HostMissing)
  /\ todo' = Devices
  /\ pc' = "poll"
  /\ UNCHANGED <<handle, callbacks, nodeState, timerUp, delivered, deviceState,
                 publishVars, others>>

\* SparkplugDevice::Poll, its three cases.
DeviceDies(d) ==
  /\ deviceState[d] = "Online"
  /\ ~deviceInService[d] \/ nodeState # "Online" \/ ~inService

DeviceIsBorn(d) ==
  /\ deviceState[d] = "Offline"
  /\ deviceInService[d] \/ nodeState = "Online"

PollWithMessage(d) ==
  \/ DeviceDies(d) /\ Publish("DDEATH", d)
  \/ DeviceIsBorn(d) /\ Publish("DBIRTH", d)

\* Mutant: an idle device stays idle.
PollLeavesIdle(d) ==
  /\ ~DeviceDies(d) /\ ~DeviceIsBorn(d)
  /\ todo' = todo \ {d}
  /\ UNCHANGED <<nodeState, deviceState, pc, publishVars>>

PollSilently(d) ==
  /\ ~DeviceDies(d) /\ ~DeviceIsBorn(d)
  /\ deviceState' = [deviceState EXCEPT ![d] = IF @ = "Idle" THEN "Offline" ELSE @]
  /\ todo' = todo \ {d}
  /\ UNCHANGED <<nodeState, pc, publishVars>>

PollDevice(d) ==
  /\ pc = "poll" /\ d \in todo
  /\ PollWithMessage(d) \/ PollSilently(d)
  /\ UNCHANGED <<handle, callbacks, timerUp, delivered, closing, others>>

PollDone ==
  /\ pc = "poll" /\ todo = {}
  /\ pc' = IF closing THEN "death" ELSE "test"
  /\ UNCHANGED <<handle, callbacks, nodeState, timerUp, delivered, deviceState,
                 todo, closing, publishVars, others>>

DoOnlineDeath ==
  /\ pc = "death"
  /\ Publish("NDEATH", NoDevice)
  /\ UNCHANGED <<handle, callbacks, timerUp, delivered, closing, others>>

\* Mutant: MQTTAsync_disconnect is not called.
SendDisconnectMissing ==
  /\ UNCHANGED <<handle, callbacks>>
  /\ delivered' = (handle # "connected")

\* SendDisconnect: there is nothing to wait for when the call fails.
SendDisconnect ==
  /\ Disconnect
  /\ delivered' = (handle # "connected")

DoOnlineDisconnect ==
  /\ pc = "disconnect"
  /\ SendDisconnect
  /\ timerUp' = FALSE
  /\ nodeState' = "WaitOnDisconnect"
  /\ pc' = "test"
  /\ UNCHANGED <<deviceState, todo, closing, publishVars, others>>

DoWaitOnDisconnect ==
  /\ pc = "pass" /\ nodeState = "WaitOnDisconnect"
  /\ IF timerUp \/ delivered
     THEN timerUp' = FALSE /\ nodeState' = "Idle"
     ELSE UNCHANGED <<timerUp, nodeState>>
  /\ pc' = "test"
  /\ UNCHANGED <<handle, callbacks, delivered, deviceState, todo, closing,
                 publishVars, others>>

\* After the loop: disconnect and wait up to five seconds, if connected.
TaskExit ==
  /\ pc = "exit"
  /\ IF nodeState # "Idle" /\ isConnected
     THEN /\ pc' = "exitWait"
          /\ timerUp' = FALSE
          /\ IF nodeState # "WaitOnDisconnect"
             THEN SendDisconnect
             ELSE UNCHANGED <<handle, callbacks, delivered>>
     ELSE pc' = "done" /\ Destroy /\ UNCHANGED <<timerUp, delivered>>
  /\ UNCHANGED <<nodeState, deviceState, todo, closing, publishVars, others>>

\* Mutant: the handle is not destroyed.
TaskExitLeaks ==
  /\ pc = "exitWait"
  /\ delivered \/ timerUp
  /\ pc' = "done"
  /\ UNCHANGED <<handle, callbacks, nodeState, timerUp, delivered, deviceState,
                 todo, closing, publishVars, others>>

TaskExitWait ==
  /\ pc = "exitWait"
  /\ delivered \/ timerUp
  /\ pc' = "done"
  /\ Destroy
  /\ UNCHANGED <<nodeState, timerUp, delivered, deviceState, todo, closing,
                 publishVars, others>>

Worker ==
  \/ TaskStart \/ TestStop \/ TaskExit \/ TaskExitWait
  \/ DoIdleWait \/ DoIdleConnect
  \/ DoWaitOnConnectNotYet \/ DoWaitOnConnectSubscribe \/ DoWaitOnConnectBirth
  \/ DoOnline \/ (\E d \in Devices : PollDevice(d)) \/ PollDone
  \/ DoOnlineDeath \/ DoOnlineDisconnect \/ DoWaitOnDisconnect
  \/ WorkerSend

-----------------------------------------------------------------------------
(* The application thread. *)

workerVars == <<handle, callbacks, clientVars, deviceState, pollVars,
                sequenceNumber, session>>

\* SparkplugNode::Start.  On a running node the call blocks in join().
NodeStart ==
  /\ app = "idle" /\ pc = "none"
  /\ stopNodeTask' = FALSE
  /\ pc' = "start"
  /\ UNCHANGED <<handle, callbacks, clientVars, settings, hostOnline,
                 deviceVars, todo, closing, app, publishVars, scadaHost>>

\* SparkplugNode::Stop, up to the join().
NodeStop ==
  /\ "stop" \in Stimuli
  /\ app = "idle" /\ pc # "none"
  /\ stopNodeTask' = TRUE
  /\ app' = "join"
  /\ UNCHANGED <<workerVars, settings, hostOnline, deviceInService, sending,
                 scadaHost>>

\* The join() returns and Stop destroys what handle is left.
NodeStopReturns ==
  /\ app = "join" /\ pc = "done"
  /\ pc' = "none"
  /\ app' = "idle"
  /\ Destroy
  /\ UNCHANGED <<clientVars, stopNodeTask, settings, hostOnline, deviceVars,
                 todo, closing, publishVars, scadaHost>>

SetInService ==
  /\ "inService" \in Stimuli
  /\ app = "idle"
  /\ inService' = ~inService
  /\ UNCHANGED <<workerVars, stopNodeTask, waitOnHostOnline, hostOnline,
                 deviceInService, app, sending, scadaHost>>

SetWaitOnHostOnline ==
  /\ "waitOnHostOnline" \in Stimuli
  /\ app = "idle"
  /\ waitOnHostOnline' = ~waitOnHostOnline
  /\ UNCHANGED <<workerVars, stopNodeTask, inService, hostOnline,
                 deviceInService, app, sending, scadaHost>>

SetDeviceInService(d) ==
  /\ "deviceInService" \in Stimuli
  /\ app = "idle"
  /\ deviceInService' = [deviceInService EXCEPT ![d] = ~@]
  /\ UNCHANGED <<workerVars, stopNodeTask, settings, hostOnline, app, sending,
                 scadaHost>>

\* SparkplugDevice::Start
DeviceStart(d) ==
  /\ "deviceStart" \in Stimuli
  /\ app = "idle"
  /\ deviceState' = [deviceState EXCEPT ![d] = "Idle"]
  /\ UNCHANGED <<handle, callbacks, clientVars, stopNodeTask, settings,
                 hostOnline, deviceInService, pollVars, app, publishVars,
                 scadaHost>>

\* SparkplugDevice::Stop of an online device: it publishes the death from the
\* application's thread and leaves device_state_ alone.
DeviceStop(d) ==
  /\ "deviceStop" \in Stimuli
  /\ app = "idle"
  /\ deviceState[d] = "Online" /\ nodeState = "Online" /\ isConnected
  /\ TakeNumber("app", "DDEATH", d)
  /\ app' = "send"
  /\ UNCHANGED <<handle, callbacks, clientVars, stopNodeTask, settings,
                 hostOnline, deviceVars, pollVars, session, scadaHost>>

DeviceStopSend ==
  /\ app = "send"
  /\ SendMessage("app")
  /\ app' = "idle"
  /\ UNCHANGED <<handle, callbacks, clientVars, stopNodeTask, settings,
                 hostOnline, deviceVars, pollVars, scadaHost>>

App ==
  \/ NodeStart \/ NodeStop \/ NodeStopReturns
  \/ SetInService \/ SetWaitOnHostOnline
  \/ \E d \in Devices : \/ SetDeviceInService(d)
                        \/ DeviceStart(d)
                        \/ DeviceStop(d)
  \/ DeviceStopSend

-----------------------------------------------------------------------------
(* The network and Paho's thread. *)

appVars == <<stopNodeTask, settings, deviceVars, pollVars, app>>

SessionOpens ==
  /\ Accepted
  /\ session' = NewSession(sequenceNumber)
  /\ UNCHANGED <<clientVars, appVars, hostOnline, sequenceNumber, sending,
                 scadaHost>>

AttemptFails ==
  /\ Refused
  /\ UNCHANGED <<clientVars, appVars, hostOnline, publishVars, scadaHost>>

SessionCloses ==
  /\ Closed
  /\ UNCHANGED <<clientVars, appVars, hostOnline, publishVars, scadaHost>>

ConnectionBreaks ==
  /\ Lost
  /\ UNCHANGED <<clientVars, appVars, hostOnline, publishVars, scadaHost>>

\* Connect, ConnectFailure, Disconnect, DisconnectFailure: SetDelivered().
OnAnswer(c) ==
  /\ Called(c)
  /\ delivered' = TRUE
  /\ UNCHANGED <<nodeState, timerUp, connectionLost, appVars, hostOnline,
                 publishVars, scadaHost>>

\* ConnectionLost: SetConnectionLost(), and nothing else.
OnConnectionLost ==
  /\ Called("connectionLost")
  /\ connectionLost' = TRUE
  /\ UNCHANGED <<nodeState, timerUp, delivered, appVars, hostOnline,
                 publishVars, scadaHost>>

\* HandleStateMessage: a STATE message of the SCADA host reaches the node.
OnStateMessage ==
  /\ handle = "connected" /\ session.subscribed
  /\ hostOnline # scadaHost
  /\ hostOnline' = scadaHost
  /\ UNCHANGED <<handle, callbacks, clientVars, appVars, publishVars, scadaHost>>

\* The SCADA host goes online or offline.
HostChanges ==
  /\ "hostState" \in Stimuli
  /\ scadaHost' = ~scadaHost
  /\ UNCHANGED <<handle, callbacks, clientVars, appVars, hostOnline, publishVars>>

\* The clock passes node_timer_.
Timeout ==
  /\ ~timerUp
  /\ timerUp' = TRUE
  /\ UNCHANGED <<handle, callbacks, nodeState, delivered, connectionLost,
                 appVars, hostOnline, publishVars, scadaHost>>

Answers == \E c \in Answer : OnAnswer(c)

Environment ==
  \/ SessionOpens \/ AttemptFails \/ SessionCloses \/ ConnectionBreaks
  \/ Answers \/ OnConnectionLost \/ OnStateMessage \/ HostChanges \/ Timeout

-----------------------------------------------------------------------------
Next == Worker \/ App \/ Environment

Spec == Init /\ [][Next]_vars

(***************************************************************************)
(* The worker never stops scheduling itself (a 100 ms wait, then a pass),  *)
(* a call of the application that has begun runs to its end, time passes,  *)
(* Paho ends every connect and disconnect it accepted and calls back.      *)
(* Nothing forces the application to make a call, nor the network to       *)
(* accept, to break, or to keep a connection.                              *)
(***************************************************************************)
Fairness ==
  /\ WF_vars(Worker)
  /\ WF_vars(NodeStopReturns)
  /\ WF_vars(DeviceStopSend)
  /\ WF_vars(Timeout)
  /\ WF_vars(SessionOpens \/ AttemptFails)
  /\ WF_vars(SessionCloses)
  /\ WF_vars(Answers)
  /\ WF_vars(OnConnectionLost)
  /\ WF_vars(OnStateMessage)

FairSpec == Spec /\ Fairness
-----------------------------------------------------------------------------
(* Safety. *)

(* A subscriber never sees a device born in a connection in which the node  *)
(* was not born first.  The birth of the node is sent by DoWaitOnConnect    *)
(* only; DoOnline publishes device births for as long as it stays Online,   *)
(* whatever has become of the connection in between.                        *)
BirthBeforeDevices ==
  handle = "connected" /\ (\E d \in Devices : session.device[d] = "DBIRTH")
    => session.nbirth

(* Once the death of the node went out, the worker neither gives birth to a *)
(* device nor to the node again in that connection: DoOnline goes straight  *)
(* on to SendDisconnect, although the application keeps changing the        *)
(* settings DoOnline and Poll read.                                         *)
SilentAfterDeath ==
  handle = "connected" /\ session.ndeath => pc = "disconnect"

(* Without a worker there is no handle: whatever state Stop interrupted     *)
(* (connecting, polling, waiting for the disconnect), no connection         *)
(* survives it and none is left to leak when Start spawns the next worker.  *)
NoHandleWithoutWorker ==
  pc \in {"none", "start", "done"} => handle = "null"

(* The numbers a subscriber sees in one connection are consecutive modulo   *)
(* the range of sequence_number_, as long as no SparkplugDevice::Stop runs  *)
(* DoPublish in the application's thread: a number is only taken when       *)
(* connected, and one that is lost is lost with its connection.             *)
NumbersInOrder ==
  handle = "connected" => session.inOrder

(* The node's connections implement what EdgeSession promises.              *)
Phase ==
  IF handle # "connected" THEN "closed"
  ELSE IF ~session.nbirth THEN "open"
  ELSE IF ~session.ndeath THEN "born" ELSE "dead"

Edge == INSTANCE EdgeSession WITH
  phase  <- Phase,
  device <- IF handle = "connected" THEN session.device
                                    ELSE [d \in Devices |-> "none"]

ImplementsEdgeSession == Edge!Spec

-----------------------------------------------------------------------------
(* The inductive invariant behind the safety properties: where the worker   *)
(* can be in each state of the handle, and what its node_state_ then is.    *)

\* A connection is established while the node waits for it, or has just
\* given up waiting: never behind the back of an Online node.
ConnectingPart ==
  handle = "connecting" =>
    /\ nodeState \in {"Idle", "WaitOnConnect"}
    /\ pc \in {"test", "pass", "exit"}

\* In a live connection Online means born, and dead means about to leave.
ConnectedPart ==
  handle = "connected" =>
    /\ nodeState # "WaitOnDisconnect"
    /\ nodeState = "Online" <=> session.nbirth
    /\ session.ndeath => pc = "disconnect"

\* The handlers run in their own state.
WorkerPart ==
  /\ pc \in {"poll", "death", "disconnect"} => nodeState = "Online"
  /\ pc = "birth" => nodeState = "WaitOnConnect"
  /\ pc = "send" =>
       /\ sending["worker"] # NoMessage
       /\ nodeState = IF sending["worker"].type = "NBIRTH"
                      THEN "WaitOnConnect" ELSE "Online"

\* The application only ever publishes deaths of devices.
AppPart ==
  app = "send" => sending["app"].type = "DDEATH"

IInv ==
  /\ TypeOK
  /\ ConnectingPart /\ ConnectedPart /\ WorkerPart /\ AppPart
  /\ BirthBeforeDevices /\ NoHandleWithoutWorker

-----------------------------------------------------------------------------
(* Liveness, under FairSpec. *)

(* Stop returns: the join() of Stop ends from wherever the worker is.       *)
StopReturns == app = "join" ~> app = "idle"

(* A connection attempt does not stay an attempt: NodeState::WaitOnConnect  *)
(* is left even when Paho's connect fails or its success comes too late.    *)
(* (A worker stopped in that state leaves node_state_ as it is.)            *)
AttemptEnds ==
  nodeState = "WaitOnConnect" ~> (nodeState # "WaitOnConnect" \/ pc = "none")

(* A node taken out of service ends its session and gives its handle back,  *)
(* unless the application changes its mind in the meantime.                 *)
OutOfServiceDisconnects ==
  (pc # "none" /\ ~inService) ~> (handle = "null" \/ inService)

(* A node that is to wait for its host disconnects when the host is offline *)
(* ("trigger a NDEATH command if a host is going OFFLINE"), unless the host *)
(* or the setting changes back in the meantime.                             *)
HostOfflineDisconnects ==
  (nodeState = "Online" /\ waitOnHostOnline /\ ~hostOnline)
    ~> (nodeState # "Online" \/ ~waitOnHostOnline \/ hostOnline)

(* A node that announced its death does not stay connected.                 *)
DeathEndsSession ==
  (handle = "connected" /\ session.ndeath) ~> handle # "connected"

(* A device that an online node finds Idle or Offline is born in that       *)
(* connection, whatever the other devices and the host do meanwhile.        *)
IdleDevicesAreBorn ==
  \A d \in Devices :
    (nodeState = "Online" /\ handle = "connected" /\ deviceState[d] # "Online")
      ~> (session.device[d] = "DBIRTH" \/ handle # "connected")

-----------------------------------------------------------------------------
(* What the comments of the code say and the code does not do.              *)

(* DoWaitOnConnect polls the devices after the NBIRTH to "Speed up the      *)
(* DBIRTH sending": every device of an online node is born in that          *)
(* connection, from whichever state the polls find it in.                   *)
DevicesAreBorn ==
  \A d \in Devices :
    (nodeState = "Online" /\ handle = "connected")
      ~> (session.device[d] = "DBIRTH" \/ handle # "connected")

(* connection_lost_ is used "to detect any loss of connections during       *)
(* run-time": a node told of the loss does not stay Online.                 *)
LossIsNoticed ==
  (connectionLost /\ nodeState = "Online" /\ handle = "closed")
    ~> ~(nodeState = "Online" /\ handle = "closed")

(* With wait_on_host_online_ the node waits "for a SCADA host to go ONLINE  *)
(* before sending any NBIRTH messages": when the host is online the node    *)
(* eventually tries to connect.                                             *)
HostOnlineStartsNode ==
  (pc # "none" /\ inService /\ scadaHost)
    ~> (nodeState # "Idle" \/ ~inService \/ ~scadaHost)
=============================================================================
