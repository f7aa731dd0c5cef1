----------------------------- MODULE DetectBroker -----------------------------
(***************************************************************************)
(* The broker detector: src/src/detectbroker.cpp.  It is an MqttClient     *)
(* whose Start, called in the application's thread, waits up to ten        *)
(* seconds for a connection of the client it just started, in              *)
(* polls of 100 ms that read connection_lost_ and then the handle while    *)
(* the worker and Paho's thread change both.                               *)
(***************************************************************************)
EXTENDS MqttClient, Naturals

CONSTANTS
  Brokers,    \* the addresses tried with one detector
  MaxPolls    \* the polls of one Start; 100 in the code

NoBroker == "noBroker"

ASSUME BrokersAssumption == NoBroker \notin Brokers /\ Brokers # {}
ASSUME MaxPollsAssumption == MaxPolls \in Nat \ {0}

VARIABLES
  detecting,  \* where DetectBroker::Start is
  delay,      \* the polls done
  found,      \* what the last Start returned
  broker,     \* Broker()
  name,       \* the broker Name() was taken from
  seen        \* history: what the network answered the worker of the search

detectVars == <<detecting, delay, found, broker, name, seen>>
allVars == <<vars, detectVars>>

\* "start" MqttClient::Start, "lost" and "connected" the two reads of a poll,
\* "stop" and "join" MqttClient::Stop.
DetectingAt == {"idle", "start", "lost", "connected", "stop", "join"}

DetectTypeOK ==
  /\ TypeOK
  /\ detecting \in DetectingAt
  /\ delay \in 0 .. MaxPolls
  /\ found \in BOOLEAN
  /\ broker \in Brokers
  /\ name \in Brokers \union {NoBroker}
  /\ seen \subseteq {"accepted", "failed"}

DetectInit ==
  /\ Init
  /\ detecting = "idle"
  /\ delay = 0
  /\ found = FALSE
  /\ broker \in Brokers
  /\ name = NoBroker
  /\ seen = {}

-----------------------------------------------------------------------------
(* DetectBroker::Start. *)

\* Broker(b), then Start: it puts the client in service.
DetectStart(b) ==
  /\ detecting = "idle" /\ app = "idle"
  /\ detecting' = "start"
  /\ broker' = b
  /\ inService' = TRUE
  /\ found' = FALSE
  /\ delay' = 0
  /\ UNCHANGED <<workerVars, timerUp, connectionLost, stopClientTask, pc, app,
                 metricVars, name, seen>>

\* MqttClient::Start, at once or through the join() of an earlier worker.
ClientStart ==
  /\ detecting = "start"
  /\ Start \/ Restart
  /\ detecting' = "lost"
  /\ seen' = {}
  /\ UNCHANGED <<delay, found, broker, name>>

ClientStartJoined ==
  /\ RestartJoined
  /\ seen' = {}
  /\ UNCHANGED <<detecting, delay, found, broker, name>>

\* IsConnectionLost() ends the search, not the client.
PollLost ==
  /\ detecting = "lost" /\ app = "idle"
  /\ detecting' = IF connectionLost THEN "idle" ELSE "connected"
  /\ UNCHANGED <<vars, delay, found, broker, name, seen>>

\* Mutant: the search has no end.
PollConnectedForever ==
  /\ detecting = "connected"
  /\ detecting' = IF isConnected THEN "stop" ELSE "lost"
  /\ UNCHANGED <<vars, delay, found, broker, name, seen>>

\* Mutant: one poll too many.
PollConnectedOffByOne ==
  /\ detecting = "connected"
  /\ IF isConnected
     THEN detecting' = "stop" /\ UNCHANGED delay
     ELSE /\ delay' = delay + 1
          /\ detecting' = IF delay = MaxPolls THEN "idle" ELSE "lost"
  /\ UNCHANGED <<vars, found, broker, name, seen>>

\* IsConnected() ends it too; else the next poll, if there is one left.
PollConnected ==
  /\ detecting = "connected"
  /\ IF isConnected
     THEN detecting' = "stop" /\ UNCHANGED delay
     ELSE /\ delay' = delay + 1
          /\ detecting' = IF delay + 1 = MaxPolls THEN "idle" ELSE "lost"
  /\ UNCHANGED <<vars, found, broker, name, seen>>

\* Stop() of a detector that found its broker.
FoundStop ==
  /\ detecting = "stop"
  /\ Stop
  /\ detecting' = "join"
  /\ UNCHANGED <<delay, found, broker, name, seen>>

\* ... and by the caller after a search, if the worker is still there.
CallerStop ==
  /\ detecting = "idle"
  /\ Stop
  /\ UNCHANGED detectVars

DetectStopJoined ==
  /\ StopJoined
  /\ found' = (found \/ detecting = "join")
  /\ detecting' = "idle"
  /\ UNCHANGED <<delay, broker, name, seen>>

Detect ==
  \/ \E b \in Brokers : DetectStart(b)
  \/ ClientStart \/ ClientStartJoined
  \/ PollLost \/ PollConnected
  \/ FoundStop \/ CallerStop \/ DetectStopJoined

-----------------------------------------------------------------------------
(* The client below, and what it tells the detector. *)

DetectWorker == Worker /\ UNCHANGED detectVars

\* The network's answers, noted in `seen`.
DetectNetwork ==
  /\ NetworkEvent
  /\ seen' = seen \union (IF handle' = "connected" THEN {"accepted"} ELSE
                          IF handle' = "closed"    THEN {"failed"} ELSE {})
  /\ UNCHANGED <<detecting, delay, found, broker, name>>

\* Connect names the client after the broker, if it has no name yet.
DetectCallback ==
  /\ OnSuccess \/ OnFailure \/ OnConnectionLost
  /\ name' = IF name = NoBroker /\ "connect" \in callbacks \ callbacks'
             THEN broker ELSE name
  /\ UNCHANGED <<detecting, delay, found, broker, seen>>

DetectTimeout == Timeout /\ UNCHANGED detectVars

DetectNext ==
  Detect \/ DetectWorker \/ DetectNetwork \/ DetectCallback \/ DetectTimeout

DetectSpec == DetectInit /\ [][DetectNext]_allVars

\* The two threads run on, and time passes; a call that has begun ends.
DetectFairness ==
  /\ WF_allVars(DetectWorker)
  /\ WF_allVars(ClientStart \/ ClientStartJoined \/ PollLost \/ PollConnected
                  \/ FoundStop \/ DetectStopJoined)
  /\ WF_allVars(DetectTimeout)

FairDetectSpec == DetectSpec /\ DetectFairness

-----------------------------------------------------------------------------
(* Properties. *)

(* A broker is only found when it accepted a connection of THIS search,     *)
(* although the polls read the handle while an earlier worker may still be  *)
(* taking its connection down.                                              *)
FoundMeansAccepted == found => "accepted" \in seen

(* A search that gives up before its time is up does so for a refusal or a  *)
(* loss of its own: no connection_lost_ of an earlier search ends it.       *)
GivesUpForAReason ==
  [][detecting = "lost" /\ detecting' = "idle" => "failed" \in seen]_allVars

-----------------------------------------------------------------------------
(* The inductive invariant behind them. *)

\* Start waits for the worker of an earlier search before it polls, and Stop
\* ends a search or comes after one.
CallPart ==
  /\ app = "restart" => detecting = "lost"
  /\ app = "stop" => detecting \in {"idle", "join"}
  /\ detecting = "connected" => app = "idle"
  /\ detecting \in {"start", "lost", "connected"} => delay < MaxPolls
  /\ detecting # "idle" => ~found

Searching == detecting \in {"lost", "connected"} /\ app = "idle"

\* What a search can see of the handle and of connection_lost_, now or once
\* Paho's thread has called back, the network answered in this search.
AnswerPart ==
  /\ handle = "null" => callbacks = {}
  /\ Searching /\ isConnected => "accepted" \in seen
  /\ Searching /\ (connectionLost \/ callbacks \intersect
                     {"connectFailure", "disconnectFailure", "connectionLost"} # {})
       => "failed" \in seen
  /\ detecting \in {"stop", "join"} => "accepted" \in seen

\* Together with the invariant of the client: who is called and what was
\* answered, in every step of a search.
DetectInv == IInv /\ DetectTypeOK /\ CallPart /\ AnswerPart /\ FoundMeansAccepted

-----------------------------------------------------------------------------
(* Liveness, under FairDetectSpec. *)

(* A search ends, even when the broker never answers.                       *)
SearchEnds == detecting # "idle" ~> detecting = "idle"
=============================================================================
