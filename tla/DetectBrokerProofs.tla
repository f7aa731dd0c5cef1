-------------------------- MODULE DetectBrokerProofs --------------------------
(***************************************************************************)
(* Proofs about DetectBroker, for every set of brokers and every number of *)
(* polls.  A step of the detector is a step of the client below, which     *)
(* keeps the client's invariant (ClientStep), except that DetectStart puts *)
(* the client in service.                                                  *)
(***************************************************************************)
EXTENDS DetectBroker, MqttClientProofs

-----------------------------------------------------------------------------
(* The client below. *)

LEMMA ClientBelow ==
  ASSUME IInv, [DetectNext]_allVars
  PROVE  IInv'
  <1>1. ASSUME NEW b \in Brokers, DetectStart(b) PROVE IInv'
    BY <1>1
    DEF DetectStart, IInv, TypeOK, HandleTypeOK, ConnectingPart, ConnectedPart,
        DisconnectingPart, WorkerPart, OnlineMeansAnswered, NoHandleWithoutWorker,
        UpdateNotForgotten, Outgoing, workerVars, publishVars, metricVars
  <1>2. CASE [Next]_vars
    BY <1>2, ClientStep
  <1>3. CASE ClientStart \/ ClientStartJoined \/ FoundStop \/ CallerStop
             \/ DetectStopJoined
    BY <1>2, <1>3
    DEF ClientStart, ClientStartJoined, FoundStop, CallerStop, DetectStopJoined,
        Next, App
  <1>4. CASE PollLost \/ PollConnected \/ UNCHANGED allVars
    BY <1>2, <1>4 DEF PollLost, PollConnected, allVars
  <1>5. CASE DetectWorker \/ DetectNetwork \/ DetectCallback \/ DetectTimeout
    BY <1>2, <1>5
    DEF DetectWorker, DetectNetwork, DetectCallback, DetectTimeout, Next,
        Environment
  <1> QED
    BY <1>1, <1>3, <1>4, <1>5 DEF DetectNext, Detect

-----------------------------------------------------------------------------
(* The calls of the detector, and the types of its variables. *)

LEMMA DetectorType ==
  ASSUME DetectTypeOK, CallPart, [DetectNext]_allVars, TypeOK'
  PROVE  DetectTypeOK'
  <1> USE DEF DetectTypeOK, DetectingAt
  <1>1. ASSUME NEW b \in Brokers, DetectStart(b) PROVE DetectTypeOK'
    <2>1. delay' \in 0 .. MaxPolls
      BY <1>1, MaxPollsAssumption DEF DetectStart
    <2> QED
      BY <1>1, <2>1 DEF DetectStart
  <1>2. CASE ClientStart \/ ClientStartJoined \/ FoundStop \/ CallerStop
             \/ DetectStopJoined \/ PollLost
    BY <1>2
    DEF ClientStart, ClientStartJoined, FoundStop, CallerStop, DetectStopJoined,
        PollLost, detectVars
  <1>3. CASE PollConnected
    BY <1>3, MaxPollsAssumption DEF PollConnected, CallPart
  <1>4. CASE DetectWorker \/ DetectNetwork \/ DetectCallback \/ DetectTimeout
    BY <1>4
    DEF DetectWorker, DetectNetwork, DetectCallback, DetectTimeout, detectVars
  <1>5. CASE UNCHANGED allVars
    BY <1>5 DEF allVars, detectVars
  <1> QED
    BY <1>1, <1>2, <1>3, <1>4, <1>5 DEF DetectNext, Detect

LEMMA DetectorCalls ==
  ASSUME DetectTypeOK, CallPart, [DetectNext]_allVars
  PROVE  CallPart'
  <1> USE DEF CallPart
  <1>1. ASSUME NEW b \in Brokers, DetectStart(b) PROVE CallPart'
    BY <1>1, MaxPollsAssumption DEF DetectStart
  <1>2. CASE ClientStart
    BY <1>2 DEF ClientStart, Start, Restart
  <1>3. CASE ClientStartJoined
    BY <1>3 DEF ClientStartJoined, RestartJoined, detectVars
  <1>4. CASE PollLost
    BY <1>4 DEF PollLost, vars
  <1>5. CASE PollConnected
    BY <1>5, MaxPollsAssumption DEF PollConnected, vars, DetectTypeOK
  <1>6. CASE FoundStop \/ CallerStop
    BY <1>6 DEF FoundStop, CallerStop, Stop, detectVars
  <1>7. CASE DetectStopJoined
    BY <1>7 DEF DetectStopJoined, StopJoined
  <1>8. CASE DetectWorker
    <2>1. UNCHANGED app
      BY <1>8
      DEF DetectWorker, Worker, TaskStart, TestStop, TaskExit, TaskExitWait,
          DoIdleWait, DoIdleConnect, DoWaitOnConnectTimeout, DoWaitOnConnect,
          DoOnlineDisconnect, DoOnlinePublish, DoWaitOnDisconnect, PublishTopic,
          SkipTopic, PublishDone, GenerateText, SendMessage, others
    <2> QED
      BY <1>8, <2>1 DEF DetectWorker, detectVars
  <1>9. CASE DetectNetwork \/ DetectCallback \/ DetectTimeout
    BY <1>9
    DEF DetectNetwork, DetectCallback, DetectTimeout, NetworkEvent, OnSuccess,
        OnFailure, OnConnectionLost, Timeout, appVars, detectVars
  <1>10. CASE UNCHANGED allVars
    BY <1>10 DEF allVars, vars, detectVars
  <1> QED
    BY <1>1, <1>2, <1>3, <1>4, <1>5, <1>6, <1>7, <1>8, <1>9, <1>10
    DEF DetectNext, Detect

-----------------------------------------------------------------------------
(* What the network answered. *)

\* A worker makes no connection and no answer: it can only begin, end or give
\* back a connection, and resets connection_lost_.
LEMMA WorkerAnswers ==
  ASSUME IInv, handle = "null" => callbacks = {}, Worker
  PROVE  /\ handle' = "null" => callbacks' = {}
         /\ isConnected' => isConnected
         /\ callbacks' \subseteq callbacks
         /\ connectionLost' => connectionLost
         /\ UNCHANGED app
  BY DEF Worker, TaskStart, TestStop, TaskExit, TaskExitWait, DoIdleWait,
         DoIdleConnect, DoWaitOnConnectTimeout, DoWaitOnConnect,
         DoOnlineDisconnect, DoOnlinePublish, DoWaitOnDisconnect, PublishTopic,
         SkipTopic, PublishDone, GenerateText, SendMessage, others, connectVars,
         Destroy, CreateAndConnect, CreateOrConnectFails, CreateClientFails,
         SendConnect, SendDisconnect, Disconnect, isConnected

LEMMA DetectorAnswers ==
  ASSUME DetectInv, [DetectNext]_allVars
  PROVE  AnswerPart'
  <1> USE DEF AnswerPart, Searching
  <1>0. IInv /\ CallPart /\ AnswerPart /\ NoHandleWithoutWorker
    BY DEF DetectInv, IInv
  <1>1. ASSUME NEW b \in Brokers, DetectStart(b) PROVE AnswerPart'
    BY <1>0, <1>1 DEF DetectStart, workerVars
  <1>2. CASE ClientStart
    <2>1. CASE Start
      BY <1>0, <1>2, <2>1
      DEF ClientStart, Start, StartWorker, workerVars, NoHandleWithoutWorker,
          isConnected
    <2>2. CASE Restart
      BY <1>0, <1>2, <2>2 DEF ClientStart, Restart, workerVars
    <2> QED
      BY <1>2, <2>1, <2>2 DEF ClientStart
  <1>3. CASE ClientStartJoined
    BY <1>0, <1>3
    DEF ClientStartJoined, RestartJoined, StartWorker, workerVars, detectVars,
        NoHandleWithoutWorker, isConnected, CallPart
  <1>4. CASE PollLost \/ PollConnected
    BY <1>0, <1>4 DEF PollLost, PollConnected, vars, connectVars, isConnected,
                      CallPart
  <1>5. CASE FoundStop \/ CallerStop
    BY <1>0, <1>5 DEF FoundStop, CallerStop, Stop, workerVars, detectVars
  <1>6. CASE DetectStopJoined
    BY <1>0, <1>6 DEF DetectStopJoined, StopJoined, Destroy
  <1>7. CASE DetectWorker
    <2>1. /\ handle' = "null" => callbacks' = {}
          /\ isConnected' => isConnected
          /\ callbacks' \subseteq callbacks
          /\ connectionLost' => connectionLost
          /\ UNCHANGED app
      BY <1>0, <1>7, WorkerAnswers DEF DetectWorker
    <2> QED
      BY <1>0, <1>7, <2>1 DEF DetectWorker, detectVars
  <1>8. CASE DetectNetwork
    BY <1>0, <1>8
    DEF DetectNetwork, NetworkEvent, Accepted, Refused, Lost, Closed, Delivered,
        Event, connectVars, appVars, isConnected
  <1>9. CASE DetectCallback
    BY <1>0, <1>9
    DEF DetectCallback, OnSuccess, OnFailure, OnConnectionLost, Called, appVars,
        isConnected
  <1>10. CASE DetectTimeout
    BY <1>0, <1>10 DEF DetectTimeout, Timeout, appVars, detectVars, isConnected
  <1>11. CASE UNCHANGED allVars
    BY <1>0, <1>11 DEF allVars, vars, connectVars, detectVars, isConnected
  <1> QED
    BY <1>1, <1>2, <1>3, <1>4, <1>5, <1>6, <1>7, <1>8, <1>9, <1>10, <1>11
    DEF DetectNext, Detect

LEMMA DetectorFound ==
  ASSUME DetectInv, [DetectNext]_allVars
  PROVE  FoundMeansAccepted'
  <1> USE DEF FoundMeansAccepted
  <1>1. CASE DetectStopJoined
    BY <1>1 DEF DetectStopJoined, DetectInv, AnswerPart
  <1>2. CASE ClientStart \/ ClientStartJoined
    BY <1>2 DEF ClientStart, ClientStartJoined, RestartJoined, DetectInv, CallPart
  <1>3. CASE ~(DetectStopJoined \/ ClientStart \/ ClientStartJoined)
    BY <1>3
    DEF DetectInv, DetectNext, Detect, DetectStart, PollLost, PollConnected,
        FoundStop, CallerStop, DetectWorker, DetectNetwork, DetectCallback,
        DetectTimeout, detectVars, allVars
  <1> QED
    BY <1>1, <1>2, <1>3

-----------------------------------------------------------------------------
(* The theorems. *)

LEMMA DetectInitInv == DetectInit => DetectInv
  <1> SUFFICES ASSUME DetectInit PROVE DetectInv
    OBVIOUS
  <1>1. IInv /\ handle = "null" /\ callbacks = {} /\ app = "idle"
    BY InitIInv DEF DetectInit, Init, HandleInit
  <1>2. DetectTypeOK
    <2>1. delay \in 0 .. MaxPolls
      BY MaxPollsAssumption DEF DetectInit
    <2>2. TypeOK
      BY <1>1 DEF IInv
    <2> QED
      BY <2>1, <2>2 DEF DetectInit, DetectTypeOK, DetectingAt
  <1> QED
    BY <1>1, <1>2 DEF DetectInit, DetectInv, CallPart, AnswerPart, Searching,
                      FoundMeansAccepted

LEMMA DetectStep == DetectInv /\ [DetectNext]_allVars => DetectInv'
  <1> SUFFICES ASSUME DetectInv, [DetectNext]_allVars PROVE DetectInv'
    OBVIOUS
  <1>1. IInv' /\ TypeOK'
    BY ClientBelow DEF DetectInv, IInv
  <1>2. DetectTypeOK' /\ CallPart'
    BY <1>1, DetectorType, DetectorCalls DEF DetectInv
  <1> QED
    BY <1>1, <1>2, DetectorAnswers, DetectorFound DEF DetectInv

(* The invariant of a search: what a poll can read is an answer to this     *)
(* search, whatever an earlier worker has left behind.                      *)
THEOREM DetectInvariant == DetectSpec => []DetectInv
  BY DetectInitInv, DetectStep, PTL DEF DetectSpec

(* The detector's variables, and those of its client, keep to their types.  *)
THEOREM DetectTypes == DetectSpec => []DetectTypeOK
  <1>1. DetectInv => DetectTypeOK
    BY DEF DetectInv
  <1> QED
    BY <1>1, DetectInvariant, PTL

(* A broker that was found has accepted a connection of the search.         *)
THEOREM FoundBrokerAccepted == DetectSpec => []FoundMeansAccepted
  <1>1. DetectInv => FoundMeansAccepted
    BY DEF DetectInv
  <1> QED
    BY <1>1, DetectInvariant, PTL

(* A search that ends early was refused, or lost its connection.            *)
THEOREM NoSearchEndsForAnother == DetectSpec => GivesUpForAReason
  <1>1. DetectInv /\ [DetectNext]_allVars
          => [detecting = "lost" /\ detecting' = "idle" => "failed" \in seen]_allVars
    <2> SUFFICES ASSUME DetectInv, DetectNext, detecting = "lost",
                        detecting' = "idle"
                 PROVE  "failed" \in seen
      BY DEF allVars, detectVars
    <2>1. PollLost \/ DetectStopJoined
      BY DEF DetectNext, Detect, DetectStart, ClientStart, ClientStartJoined,
             PollConnected, FoundStop, CallerStop, DetectWorker, DetectNetwork,
             DetectCallback, DetectTimeout, detectVars
    <2>2. ~DetectStopJoined
      BY DEF DetectStopJoined, StopJoined, DetectInv, CallPart
    <2> QED
      BY <2>1, <2>2 DEF PollLost, DetectInv, AnswerPart, Searching
  <1> QED
    BY <1>1, DetectInvariant, PTL DEF DetectSpec, GivesUpForAReason
=============================================================================
