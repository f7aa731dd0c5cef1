------------------------------ MODULE MqttClient ------------------------------
(***************************************************************************)
(* The MQTT client: src/src/mqttclient.cpp, with the publishing of its     *)
(* topics (ipubsubclient.cpp, mqtttopic.cpp) and the metric behind each    *)
(* topic (metric.cpp).                                                     *)
(*                                                                         *)
(* Three threads: the worker (ClientTask), the application, which starts   *)
(* and stops the client and writes its metrics, and Paho's thread.  A      *)
(* metric is written in two steps (the value under its mutex, then the     *)
(* update flag) and published in three (flag reset, payload generated,     *)
(* payload handed to Paho), and nothing but the mutex orders them.         *)
(*                                                                         *)
(* A topic carries the one metric it is named after (AddMetric).  The      *)
(* validity of a metric is left out: nothing in the library reads it.      *)
(***************************************************************************)
EXTENDS MQTTAsync

CONSTANTS
  Published,    \* the topics the application writes
  Subscribed,   \* the topics the client subscribes to
  Values,       \* the values of a metric
  Stimuli       \* what the application does besides Start

AllStimuli == {"stop", "restart", "inService"}

NoTopic == "noTopic"
NoValue == "noValue"

ASSUME TopicsAssumption ==
  /\ NoTopic \notin Published \union Subscribed
  /\ Published \intersect Subscribed = {}
ASSUME ValuesAssumption == NoValue \notin Values
ASSUME StimuliAssumption == Stimuli \subseteq AllStimuli

VARIABLES
  clientState,     \* client_state_
  timerUp,         \* now >= client_timer_, or the wait of the exit is over
  delivered,       \* delivered_
  connectionLost,  \* connection_lost_
  stopClientTask,  \* stop_client_task_
  inService,       \* in_service_
  pc,              \* where the worker thread is
  app,             \* where the application thread is
  topic,           \* per name: no topic, one without metric, one with metric
  value,           \* value_ of each metric
  updated,         \* updated_ of each metric
  writing,         \* the metric whose value is set and whose flag is not yet
  todo,            \* the topics PublishTopics has yet to visit
  publishing,      \* the topic in DoPublish
  body,            \* the payload DoPublish generated
  attempted        \* the last value of each topic that was handed to Paho

connectVars == <<clientState, timerUp, delivered, connectionLost>>
publishVars == <<todo, publishing, body, attempted>>
metricVars  == <<topic, value, updated, writing>>
vars == <<handle, callbacks, connectVars, stopClientTask, inService, pc, app,
          metricVars, publishVars>>

Topics      == Published \union Subscribed
ClientState == {"Idle", "WaitOnConnect", "Online", "WaitOnDisconnect"}

\* "none" no thread, "start" thread spawned, "test" the while condition,
\* "pass" one pass of the loop, "publish".."send" inside PublishTopics,
\* "exit", "exitWait" after the loop, "done" the thread function returned.
WorkerAt ==
  {"none", "start", "test", "pass", "publish", "text", "send", "exit",
   "exitWait", "done"}

NotWriting == [topic |-> NoTopic, changed |-> FALSE]

TypeOK ==
  /\ HandleTypeOK
  /\ clientState \in ClientState
  /\ {timerUp, delivered, connectionLost, stopClientTask, inService}
       \subseteq BOOLEAN
  /\ pc \in WorkerAt
  /\ app \in {"idle", "stop", "restart"}
  /\ topic \in [Topics -> {"none", "bare", "metric"}]
  /\ value \in [Topics -> Values \union {NoValue}]
  /\ updated \in [Topics -> BOOLEAN]
  /\ writing \in [topic : Published, changed : BOOLEAN] \union {NotWriting}
  /\ todo \subseteq Published
  /\ publishing \in Published \union {NoTopic}
  /\ body \in Values \union {NoValue}
  /\ attempted \in [Topics -> Values \union {NoValue}]

\* A client just constructed; its metrics exist but have no value yet.
Init ==
  /\ HandleInit
  /\ clientState = "Idle"
  /\ timerUp = TRUE
  /\ delivered = FALSE
  /\ connectionLost = FALSE
  /\ stopClientTask = TRUE
  /\ inService \in BOOLEAN
  /\ pc = "none"
  /\ app = "idle"
  /\ topic = [t \in Topics |-> "none"]
  /\ value = [t \in Topics |-> NoValue]
  /\ updated = [t \in Topics |-> FALSE]
  /\ writing = NotWriting
  /\ todo = {}
  /\ publishing = NoTopic
  /\ body = NoValue
  /\ attempted = [t \in Topics |-> NoValue]

-----------------------------------------------------------------------------
(* The worker thread: MqttClient::ClientTask and the four state handlers. *)

\* What no handler of the worker writes.
others == <<stopClientTask, inService, app, topic, value, writing>>

TaskStart ==
  /\ pc = "start"
  /\ pc' = "test"
  /\ timerUp' = TRUE
  /\ clientState' = "Idle"
  /\ Destroy
  /\ UNCHANGED <<delivered, connectionLost, updated, publishVars, others>>

\* while (!stop_client_task_)
TestStop ==
  /\ pc = "test"
  /\ pc' = IF stopClientTask THEN "exit" ELSE "pass"
  /\ UNCHANGED <<handle, callbacks, connectVars, updated, publishVars, others>>

\* Out of service the retry timer is cleared, in service it is waited for.
DoIdleWait ==
  /\ pc = "pass" /\ clientState = "Idle"
  /\ ~timerUp \/ ~inService
  /\ Destroy
  /\ timerUp' = (timerUp \/ ~inService)
  /\ pc' = "test"
  /\ UNCHANGED <<clientState, delivered, connectionLost, updated, publishVars,
                 others>>

\* SendConnect resets both flags before MQTTAsync_connect is called.
SendConnect ==
  /\ connectionLost' = FALSE
  /\ delivered' = FALSE

\* MQTTAsync_create or MQTTAsync_setCallbacks fails: no flag is touched.
CreateClientFails ==
  /\ CreateOrConnectFails
  /\ UNCHANGED <<connectionLost, delivered>>

\* CreateClient and SendConnect; a failure of either is tried again in 10 s.
DoIdleConnect ==
  /\ pc = "pass" /\ clientState = "Idle"
  /\ timerUp /\ inService
  /\ timerUp' = FALSE
  /\ pc' = "test"
  /\ \/ /\ CreateAndConnect
        /\ SendConnect
        /\ clientState' = "WaitOnConnect"
     \/ /\ CreateClientFails \/ (CreateOrConnectFails /\ SendConnect)
        /\ UNCHANGED clientState
  /\ UNCHANGED <<updated, publishVars, others>>

\* The timeout comes first: it gives up even a connection just made.
DoWaitOnConnectTimeout ==
  /\ pc = "pass" /\ clientState = "WaitOnConnect"
  /\ timerUp
  /\ timerUp' = FALSE
  /\ clientState' = "Idle"
  /\ pc' = "test"
  /\ UNCHANGED <<handle, callbacks, delivered, connectionLost, updated,
                 publishVars, others>>

\* Mutant: the client does not wait for the answer to its connect.
DoWaitOnConnectUnanswered ==
  /\ pc = "pass" /\ clientState = "WaitOnConnect"
  /\ ~timerUp
  /\ clientState' = IF isConnected THEN "Online" ELSE clientState
  /\ pc' = "test"
  /\ UNCHANGED <<handle, callbacks, timerUp, delivered, connectionLost, updated,
                 publishVars, others>>

\* Online, and subscribed, once connected and answered.
DoWaitOnConnect ==
  /\ pc = "pass" /\ clientState = "WaitOnConnect"
  /\ ~timerUp
  /\ clientState' = IF isConnected /\ delivered THEN "Online" ELSE clientState
  /\ pc' = "test"
  /\ UNCHANGED <<handle, callbacks, timerUp, delivered, connectionLost, updated,
                 publishVars, others>>

\* Mutant: SendDisconnect forgets ResetDelivered().
SendDisconnectKeepsDelivered ==
  /\ Disconnect
  /\ connectionLost' = FALSE
  /\ UNCHANGED delivered

SendDisconnect ==
  /\ Disconnect
  /\ connectionLost' = FALSE
  /\ delivered' = FALSE

DoOnlineDisconnect ==
  /\ pc = "pass" /\ clientState = "Online"
  /\ stopClientTask \/ ~inService
  /\ SendDisconnect
  /\ timerUp' = FALSE
  /\ clientState' = "WaitOnDisconnect"
  /\ pc' = "test"
  /\ UNCHANGED <<updated, publishVars, others>>

\* Mutant: Publish() of a topic is not asked.
DoOnlinePublishAll ==
  /\ pc = "pass" /\ clientState = "Online"
  /\ ~stopClientTask /\ inService
  /\ todo' = {t \in Topics : topic[t] = "metric"}
  /\ pc' = "publish"
  /\ UNCHANGED <<handle, callbacks, connectVars, updated, publishing, body,
                 attempted, others>>

\* Otherwise PublishTopics visits the topics to publish.
DoOnlinePublish ==
  /\ pc = "pass" /\ clientState = "Online"
  /\ ~stopClientTask /\ inService
  /\ todo' = {t \in Published : topic[t] = "metric"}
  /\ pc' = "publish"
  /\ UNCHANGED <<handle, callbacks, connectVars, updated, publishing, body,
                 attempted, others>>

\* IsUpdated(), then ResetUpdated() and DoPublish.
PublishTopic(t) ==
  /\ pc = "publish" /\ t \in todo
  /\ updated[t]
  /\ updated' = [updated EXCEPT ![t] = FALSE]
  /\ publishing' = t
  /\ pc' = "text"
  /\ UNCHANGED <<handle, callbacks, connectVars, todo, body, attempted, others>>

SkipTopic(t) ==
  /\ pc = "publish" /\ t \in todo
  /\ ~updated[t]
  /\ todo' = todo \ {t}
  /\ UNCHANGED <<handle, callbacks, connectVars, pc, updated, publishing, body,
                 attempted, others>>

PublishDone ==
  /\ pc = "publish" /\ todo = {}
  /\ pc' = "test"
  /\ UNCHANGED <<handle, callbacks, connectVars, updated, publishVars, others>>

\* DoPublish: GenerateText reads the value of the metric into the body.
GenerateText ==
  /\ pc = "text"
  /\ body' = value[publishing]
  /\ pc' = "send"
  /\ UNCHANGED <<handle, callbacks, connectVars, updated, todo, publishing,
                 attempted, others>>

\* Mutant: the flag is reset after the message is sent.
SendMessageResetsUpdated ==
  /\ pc = "send"
  /\ attempted' = [attempted EXCEPT ![publishing] = body]
  /\ updated' = [updated EXCEPT ![publishing] = FALSE]
  /\ todo' = todo \ {publishing}
  /\ publishing' = NoTopic
  /\ body' = NoValue
  /\ pc' = "publish"
  /\ UNCHANGED <<handle, callbacks, connectVars, others>>

\* MQTTAsync_sendMessage; a failure is logged and the value is not kept.
SendMessage ==
  /\ pc = "send"
  /\ attempted' = [attempted EXCEPT ![publishing] = body]
  /\ todo' = todo \ {publishing}
  /\ publishing' = NoTopic
  /\ body' = NoValue
  /\ pc' = "publish"
  /\ UNCHANGED <<handle, callbacks, connectVars, updated, others>>

\* Mutant: the client waits for an answer that may never come.
DoWaitOnDisconnectForever ==
  /\ pc = "pass" /\ clientState = "WaitOnDisconnect"
  /\ IF delivered
     THEN timerUp' = FALSE /\ clientState' = "Idle"
     ELSE UNCHANGED <<timerUp, clientState>>
  /\ pc' = "test"
  /\ UNCHANGED <<handle, callbacks, delivered, connectionLost, updated,
                 publishVars, others>>

DoWaitOnDisconnect ==
  /\ pc = "pass" /\ clientState = "WaitOnDisconnect"
  /\ IF timerUp \/ delivered
     THEN timerUp' = FALSE /\ clientState' = "Idle"
     ELSE UNCHANGED <<timerUp, clientState>>
  /\ pc' = "test"
  /\ UNCHANGED <<handle, callbacks, delivered, connectionLost, updated,
                 publishVars, others>>

\* After the loop: disconnect, if connected.
TaskExit ==
  /\ pc = "exit"
  /\ IF clientState # "Idle" /\ isConnected
     THEN /\ pc' = "exitWait"
          /\ timerUp' = FALSE
          /\ IF clientState # "WaitOnDisconnect"
             THEN SendDisconnect
             ELSE UNCHANGED <<handle, callbacks, delivered, connectionLost>>
     ELSE /\ pc' = "done"
          /\ Destroy
          /\ UNCHANGED <<timerUp, delivered, connectionLost>>
  /\ UNCHANGED <<clientState, updated, publishVars, others>>

\* Mutant: the handle is not destroyed.
TaskExitLeaks ==
  /\ pc = "exitWait"
  /\ ~connectionLost \/ timerUp
  /\ pc' = "done"
  /\ UNCHANGED <<handle, callbacks, connectVars, updated, publishVars, others>>

\* Mutant: no limit to the wait.
TaskExitWaitForever ==
  /\ pc = "exitWait"
  /\ delivered
  /\ pc' = "done"
  /\ Destroy
  /\ UNCHANGED <<connectVars, updated, publishVars, others>>

\* The loop that is to wait for the disconnect: it goes on WHILE the
\* connection is lost, for at most five seconds.
TaskExitWait ==
  /\ pc = "exitWait"
  /\ ~connectionLost \/ timerUp
  /\ pc' = "done"
  /\ Destroy
  /\ UNCHANGED <<connectVars, updated, publishVars, others>>

Worker ==
  \/ TaskStart \/ TestStop \/ TaskExit \/ TaskExitWait
  \/ DoIdleWait \/ DoIdleConnect
  \/ DoWaitOnConnectTimeout \/ DoWaitOnConnect
  \/ DoOnlineDisconnect \/ DoOnlinePublish \/ DoWaitOnDisconnect
  \/ \E t \in Published : PublishTopic(t) \/ SkipTopic(t)
  \/ PublishDone \/ GenerateText \/ SendMessage

-----------------------------------------------------------------------------
(* The application thread. *)

workerVars == <<handle, callbacks, clientState, delivered, publishVars>>

\* Mutant: a stale connection_lost_ survives into the new run.
StartWorkerKeepsLost ==
  /\ timerUp' = TRUE
  /\ stopClientTask' = FALSE
  /\ pc' = "start"
  /\ UNCHANGED connectionLost

\* The second half of Start: no worker is left, a new one is spawned.
StartWorker ==
  /\ connectionLost' = FALSE
  /\ timerUp' = TRUE
  /\ stopClientTask' = FALSE
  /\ pc' = "start"

Start ==
  /\ app = "idle" /\ pc = "none"
  /\ StartWorker
  /\ UNCHANGED <<workerVars, inService, app, metricVars>>

\* Start of a running client stops the worker and joins it.
Restart ==
  /\ "restart" \in Stimuli
  /\ app = "idle" /\ pc # "none"
  /\ stopClientTask' = TRUE
  /\ app' = "restart"
  /\ UNCHANGED <<workerVars, timerUp, connectionLost, inService, pc, metricVars>>

RestartJoined ==
  /\ app = "restart" /\ pc = "done"
  /\ StartWorker
  /\ app' = "idle"
  /\ UNCHANGED <<workerVars, inService, metricVars>>

Stop ==
  /\ "stop" \in Stimuli
  /\ app = "idle" /\ pc # "none"
  /\ stopClientTask' = TRUE
  /\ app' = "stop"
  /\ UNCHANGED <<workerVars, timerUp, connectionLost, inService, pc, metricVars>>

\* The join() returns and Stop destroys what handle is left.
StopJoined ==
  /\ app = "stop" /\ pc = "done"
  /\ pc' = "none"
  /\ app' = "idle"
  /\ Destroy
  /\ UNCHANGED <<connectVars, stopClientTask, inService, metricVars, publishVars>>

SetInService ==
  /\ "inService" \in Stimuli
  /\ app = "idle"
  /\ inService' = ~inService
  /\ UNCHANGED <<workerVars, timerUp, connectionLost, stopClientTask, pc, app,
                 metricVars>>

\* AddMetric: the topic is created unless a message created it before.
AddMetric(t) ==
  /\ app = "idle" /\ writing = NotWriting
  /\ topic[t] # "metric"
  /\ topic' = [topic EXCEPT ![t] = "metric"]
  /\ UNCHANGED <<workerVars, timerUp, connectionLost, stopClientTask, inService,
                 pc, app, value, updated, writing>>

\* Metric::Value(v): the value and what changed, under the metric's mutex ...
WriteValue(t, v) ==
  /\ app = "idle" /\ writing = NotWriting
  /\ value' = [value EXCEPT ![t] = v]
  /\ writing' = [topic |-> t, changed |-> v # value[t]]
  /\ UNCHANGED <<workerVars, timerUp, connectionLost, stopClientTask, inService,
                 pc, app, topic, updated>>

\* Mutant: SetUpdated() is forgotten.
WriteFlagForgotten ==
  /\ writing # NotWriting
  /\ writing' = NotWriting
  /\ UNCHANGED <<workerVars, timerUp, connectionLost, stopClientTask, inService,
                 pc, app, topic, value, updated>>

\* ... and the flag, after the mutex is released.
WriteFlag ==
  /\ writing # NotWriting
  /\ writing' = NotWriting
  /\ updated' = [updated EXCEPT ![writing.topic] = @ \/ writing.changed]
  /\ UNCHANGED <<workerVars, timerUp, connectionLost, stopClientTask, inService,
                 pc, app, topic, value>>

App ==
  \/ Start \/ Restart \/ RestartJoined \/ Stop \/ StopJoined
  \/ SetInService
  \/ \E t \in Topics : AddMetric(t)
  \/ \E t \in Published, v \in Values : WriteValue(t, v)
  \/ WriteFlag

-----------------------------------------------------------------------------
(* The network and Paho's thread. *)

appVars == <<stopClientTask, inService, pc, app, publishVars>>

NetworkEvent ==
  /\ \/ Accepted \/ Refused \/ Lost \/ Closed
     \/ Delivered /\ \E t \in Topics : attempted[t] # NoValue
  /\ UNCHANGED <<connectVars, appVars, metricVars>>

\* Connect and Disconnect.
OnSuccess ==
  /\ Called("connect") \/ Called("disconnect")
  /\ delivered' = TRUE
  /\ connectionLost' = FALSE
  /\ UNCHANGED <<clientState, timerUp, appVars, metricVars>>

\* ConnectFailure and DisconnectFailure.
OnFailure ==
  /\ Called("connectFailure") \/ Called("disconnectFailure")
  /\ delivered' = TRUE
  /\ connectionLost' = TRUE
  /\ UNCHANGED <<clientState, timerUp, appVars, metricVars>>

OnConnectionLost ==
  /\ Called("connectionLost")
  /\ connectionLost' = TRUE
  /\ UNCHANGED <<clientState, timerUp, delivered, appVars, metricVars>>

OnDeliveryComplete ==
  /\ Called("deliveryComplete")
  /\ connectionLost' = FALSE
  /\ UNCHANGED <<clientState, timerUp, delivered, appVars, metricVars>>

\* Message: the value of a known metric is set; for an unknown topic a topic
\* is made, and a metric that is dropped when the handler returns.
OnMessage(t, v) ==
  /\ isConnected /\ clientState \in {"Online", "WaitOnDisconnect"}
  /\ connectionLost' = FALSE
  /\ IF topic[t] = "metric"
     THEN /\ value' = [value EXCEPT ![t] = v]
          /\ updated' = [updated EXCEPT ![t] = @ \/ v # value[t]]
          /\ UNCHANGED topic
     ELSE /\ topic' = [topic EXCEPT ![t] = "bare"]
          /\ UNCHANGED <<value, updated>>
  /\ UNCHANGED <<handle, callbacks, clientState, timerUp, delivered, appVars,
                 writing>>

\* The clock passes client_timer_.
Timeout ==
  /\ ~timerUp
  /\ timerUp' = TRUE
  /\ UNCHANGED <<handle, callbacks, clientState, delivered, connectionLost,
                 appVars, metricVars>>

Environment ==
  \/ NetworkEvent \/ OnSuccess \/ OnFailure \/ OnConnectionLost
  \/ OnDeliveryComplete \/ Timeout
  \/ \E t \in Subscribed, v \in Values : OnMessage(t, v)

-----------------------------------------------------------------------------
Next == Worker \/ App \/ Environment

Spec == Init /\ [][Next]_vars

(***************************************************************************)
(* The worker never stops scheduling itself, a call of the application     *)
(* that has begun runs to its end, and time passes.  Nothing is assumed of *)
(* the network or of Paho's thread: they may stay silent for ever.         *)
(***************************************************************************)
Fairness ==
  /\ WF_vars(Worker)
  /\ WF_vars(RestartJoined)
  /\ WF_vars(StopJoined)
  /\ WF_vars(WriteFlag)
  /\ WF_vars(Timeout)

FairSpec == Spec /\ Fairness
-----------------------------------------------------------------------------
(* Safety. *)

(* In a live connection the client is Online only after Connect ran for     *)
(* THIS connection: Connect sets the protocol version that StartSubscription*)
(* and DoPublish choose their options by.  An answer to an earlier connect  *)
(* or disconnect never counts.                                              *)
OnlineMeansAnswered ==
  clientState = "Online" /\ handle = "connected" => "connect" \notin callbacks

(* Without a worker there is no handle, from whatever state Stop or a       *)
(* second Start took the client away.                                       *)
NoHandleWithoutWorker ==
  pc \in {"none", "start", "done"} => handle = "null"

(* No update is forgotten: a value that differs from what was last handed   *)
(* to Paho is flagged, or the writer is about to flag it, or DoPublish is   *)
(* about to read it - however WriteValue, WriteFlag, ResetUpdated and       *)
(* GenerateText interleave.                                                 *)
Outgoing(t) == IF pc = "send" /\ publishing = t THEN body ELSE attempted[t]

UpdateNotForgotten ==
  \A t \in Published :
    value[t] # Outgoing(t) =>
      \/ updated[t]
      \/ writing = [topic |-> t, changed |-> TRUE]
      \/ pc = "text" /\ publishing = t

(* The metrics are what MetricUpdates promises: WriteValue and WriteFlag are *)
(* one write, and ResetUpdated, GenerateText and SendMessage hand over what  *)
(* is current when GenerateText reads it, however their steps interleave.    *)
Updates == INSTANCE MetricUpdates WITH
  Metrics <- Published,
  value   <- [t \in Published |-> value[t]],
  pending <- [t \in Published |->
                \/ updated[t]
                \/ writing = [topic |-> t, changed |-> TRUE]
                \/ pc = "text" /\ publishing = t],
  taken   <- [t \in Published |-> Outgoing(t)]

ImplementsMetricUpdates == Updates!Spec

(* A client in service does not give up its disconnect: it goes back to     *)
(* Idle, and destroys the handle there, when Paho has answered or when the  *)
(* five seconds are over.                                                   *)
DisconnectIsAwaited ==
  [][clientState = "WaitOnDisconnect" /\ clientState' = "Idle"
       => timerUp \/ handle # "disconnecting"]_vars

-----------------------------------------------------------------------------
(* The inductive invariant behind the safety properties. *)

\* While Paho connects, nothing of an earlier connection is left to confuse
\* the answer: no callback is pending and delivered_ is reset.
ConnectingPart ==
  handle = "connecting" =>
    /\ callbacks = {} /\ ~delivered
    /\ clientState \in {"Idle", "WaitOnConnect"}
    /\ pc \in {"test", "pass", "exit"}

\* In a live connection delivered_ is the answer to the connect.
ConnectedPart ==
  handle = "connected" =>
    /\ callbacks \subseteq {"connect", "deliveryComplete"}
    /\ "connect" \in callbacks => ~delivered
    /\ clientState # "WaitOnDisconnect"

\* An Online client that disconnects has no answer but that disconnect's
\* to wait for.
DisconnectingPart ==
  handle = "disconnecting" /\ clientState = "WaitOnDisconnect" =>
    callbacks \subseteq {"deliveryComplete"} /\ ~delivered

\* The worker publishes when it is Online, and one topic at a time.
WorkerPart ==
  /\ pc \in {"publish", "text", "send"} => clientState = "Online"
  /\ pc \in {"text", "send"} => publishing \in Published
  /\ handle = "disconnecting" =>
       clientState = "WaitOnDisconnect" \/ pc = "exitWait" \/ clientState = "Idle"

IInv ==
  /\ TypeOK
  /\ ConnectingPart /\ ConnectedPart /\ DisconnectingPart /\ WorkerPart
  /\ OnlineMeansAnswered /\ NoHandleWithoutWorker /\ UpdateNotForgotten

-----------------------------------------------------------------------------
(* Liveness, under FairSpec. *)

(* Stop, and Start on a running client, return: the join() ends from        *)
(* wherever the worker is, even when Paho never answers.                    *)
CallsReturn == app # "idle" ~> app = "idle"

(* A client out of service gives its handle back, from every state and even *)
(* when Paho never answers, unless the application changes its mind.        *)
OutOfServiceDisconnects ==
  (pc # "none" /\ ~inService) ~> (handle = "null" \/ inService)

(* An update of a published metric reaches Paho, or is overwritten, as long *)
(* as the client stays online.                                              *)
UpdatesAreSent ==
  \A t \in Published, v \in Values :
    (clientState = "Online" /\ topic[t] = "metric" /\ value[t] = v
       /\ attempted[t] # v)
      ~> (attempted[t] = v \/ value[t] # v \/ clientState # "Online"
            \/ pc = "none")

-----------------------------------------------------------------------------
(* What the comments of the code say and the code does not do.              *)

(* The exit of the worker is to "Wait for 5s for the disconnect to be       *)
(* delivered" before it destroys the handle.                                *)
ExitAwaitsDisconnect ==
  [][pc = "exitWait" /\ pc' = "done" => timerUp \/ handle # "disconnecting"]_vars
=============================================================================
