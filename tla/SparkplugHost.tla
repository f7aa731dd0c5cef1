----------------------------- MODULE SparkplugHost -----------------------------
(***************************************************************************)
(* A SCADA host: src/src/sparkplughost.cpp, and the broker that retains    *)
(* its STATE.                                                              *)
(*                                                                         *)
(* The host creates its handle in Start, connects from its worker thread   *)
(* (HostTask) and publishes a retained STATE, online or offline, every     *)
(* time its service state changes; its will is an offline STATE.  Unlike a *)
(* node it keeps one handle from Start to Stop, and connects it again when *)
(* an attempt took too long.  connection_lost_ is left out: the host sets  *)
(* and resets it but never reads it.                                       *)
(*                                                                         *)
(* Of the STATE messages on their way to the broker only the last one      *)
(* matters: it is what the broker will retain.                             *)
(***************************************************************************)
EXTENDS MQTTAsync

CONSTANT Stimuli   \* what the application does besides Start

AllStimuli == {"stop", "inService"}

ASSUME StimuliAssumption == Stimuli \subseteq AllStimuli

VARIABLES
  workState,     \* work_state_
  timerUp,       \* now >= host_timer_, or the wait of the exit is over
  delivered,     \* delivered_
  stopWorkTask,  \* stop_work_task_
  inService,     \* in_service_
  pc,            \* where the worker thread is
  app,           \* where the application thread is
  sent,          \* the last STATE handed to Paho in this connection
  retained       \* the STATE the broker retains

stateVars == <<sent, retained>>
vars == <<handle, callbacks, workState, timerUp, delivered, stopWorkTask,
          inService, pc, app, stateVars>>

WorkState == {"Idle", "WaitOnConnect", "Online", "Offline", "WaitOnDisconnect"}
StateMessage == {"none", "offline", "online"}

\* "none" no thread, "start" thread spawned, "test" the while condition,
\* "pass" one pass of the loop, "exit", "exitWait" after the loop, "done" the
\* thread function returned.
WorkerAt == {"none", "start", "test", "pass", "exit", "exitWait", "done"}

TypeOK ==
  /\ HandleTypeOK
  /\ workState \in WorkState
  /\ {timerUp, delivered, stopWorkTask, inService} \subseteq BOOLEAN
  /\ pc \in WorkerAt
  /\ app \in {"idle", "join"}
  /\ sent \in StateMessage
  /\ retained \in StateMessage

\* A host just constructed; nothing is retained of it.
Init ==
  /\ HandleInit
  /\ workState = "Idle"
  /\ timerUp = TRUE
  /\ delivered = FALSE
  /\ stopWorkTask = TRUE
  /\ inService \in BOOLEAN
  /\ pc = "none"
  /\ app = "idle"
  /\ sent = "none"
  /\ retained = "none"

-----------------------------------------------------------------------------
(* The broker's side of a connection. *)

\* What the broker retains when all that was handed to Paho has arrived.
LastWord == IF sent = "none" THEN retained ELSE sent

\* A connection that ends with the host's consent: the broker gets the
\* disconnect after the last STATE, or loses the host first and publishes
\* its will.
Ends ==
  /\ retained' \in {LastWord, "offline"}
  /\ sent' = "none"

\* A connection the network broke.
WillIsPublished ==
  /\ retained' = "offline"
  /\ sent' = "none"

-----------------------------------------------------------------------------
(* The worker thread: SparkplugHost::HostTask and its state handlers. *)

\* Mutant: the word of the service state is sent as the retained one.
PublishStateUntyped(state) ==
  /\ sent' = IF handle = "connected" THEN workState ELSE sent
  /\ UNCHANGED retained

\* Mutant: what is sent without a connection is kept for the next one.
PublishStateKept(state) ==
  /\ sent' = state
  /\ UNCHANGED retained

\* PublishState: without a connection MQTTAsync_sendMessage fails, unnoticed.
PublishState(state) ==
  /\ sent' = IF handle = "connected" THEN state ELSE sent
  /\ UNCHANGED retained

\* SendDisconnect of the node: an error is an answer too.
SendDisconnect ==
  /\ Disconnect
  /\ delivered' = (handle # "connected")

others == <<stopWorkTask, inService, app>>

TaskStart ==
  /\ pc = "start"
  /\ pc' = "test"
  /\ timerUp' = TRUE
  /\ workState' = "Idle"
  /\ UNCHANGED <<handle, callbacks, delivered, stateVars, others>>

\* while (!stop_work_task_)
TestStop ==
  /\ pc = "test"
  /\ pc' = IF stopWorkTask THEN "exit" ELSE "pass"
  /\ UNCHANGED <<handle, callbacks, workState, timerUp, delivered, stateVars,
                 others>>

DoIdleWait ==
  /\ pc = "pass" /\ workState = "Idle"
  /\ ~timerUp
  /\ pc' = "test"
  /\ UNCHANGED <<handle, callbacks, workState, timerUp, delivered, stateVars,
                 others>>

\* MQTTAsync_connect on a handle that has been used before: one that is
\* connecting or connected stays as it is, and may or may not answer again.
Connect ==
  \/ /\ handle \in {"created", "closed"}
     /\ handle' = "connecting"
     /\ UNCHANGED callbacks
  \/ /\ handle \in {"connecting", "connected"}
     /\ UNCHANGED handle
     /\ \/ UNCHANGED callbacks
        \/ handle = "connected" /\ callbacks' = callbacks \union {"connect"}

\* SendConnect resets delivered_ whether MQTTAsync_connect succeeds or not.
DoIdleConnect ==
  /\ pc = "pass" /\ workState = "Idle"
  /\ timerUp
  /\ timerUp' = FALSE
  /\ delivered' = FALSE
  /\ pc' = "test"
  /\ \/ Connect /\ workState' = "WaitOnConnect"
     \/ UNCHANGED <<handle, callbacks, workState>>
  /\ UNCHANGED <<stateVars, others>>

\* The timeout comes first: it gives up even a connection just made.
DoWaitOnConnectNotYet ==
  /\ pc = "pass" /\ workState = "WaitOnConnect"
  /\ timerUp \/ ~isConnected \/ ~delivered
  /\ workState' = IF timerUp THEN "Idle" ELSE workState
  /\ timerUp' = FALSE
  /\ pc' = "test"
  /\ UNCHANGED <<handle, callbacks, delivered, stateVars, others>>

\* Connected and answered: subscribe, and tell the broker which it is.
DoWaitOnConnect ==
  /\ pc = "pass" /\ workState = "WaitOnConnect"
  /\ ~timerUp /\ isConnected /\ delivered
  /\ PublishState(IF inService THEN "online" ELSE "offline")
  /\ workState' = IF inService THEN "Online" ELSE "Offline"
  /\ pc' = "test"
  /\ UNCHANGED <<handle, callbacks, timerUp, delivered, others>>

\* Stop, when the handler is the first to see it: a last STATE, the
\* disconnect, and HostTask leaves its loop with WaitOnDisconnect.  (It never
\* comes back to it: DoWaitOnDisconnect of the code does not run.)
StopConnection ==
  /\ stopWorkTask
  /\ SendDisconnect
  /\ workState' = "WaitOnDisconnect"
  /\ timerUp' = FALSE

\* Mutant: no STATE before the disconnect of a stopped host.
DoOnlineStopsSilently ==
  /\ pc = "pass" /\ workState = "Online"
  /\ \/ StopConnection /\ UNCHANGED stateVars
     \/ /\ ~stopWorkTask
        /\ IF inService
           THEN UNCHANGED <<workState, stateVars>>
           ELSE PublishState("offline") /\ workState' = "Offline"
        /\ UNCHANGED <<handle, callbacks, timerUp, delivered>>
  /\ pc' = "test"
  /\ UNCHANGED others

\* Mutant: a host taken out of service does not say so.
DoOnlineLeavesSilently ==
  /\ pc = "pass" /\ workState = "Online"
  /\ \/ StopConnection /\ PublishState("offline")
     \/ /\ ~stopWorkTask
        /\ workState' = IF inService THEN "Online" ELSE "Offline"
        /\ UNCHANGED <<handle, callbacks, timerUp, delivered, stateVars>>
  /\ pc' = "test"
  /\ UNCHANGED others

DoOnline ==
  /\ pc = "pass" /\ workState = "Online"
  /\ \/ StopConnection /\ PublishState("offline")
     \/ /\ ~stopWorkTask
        /\ IF inService
           THEN UNCHANGED <<workState, stateVars>>
           ELSE PublishState("offline") /\ workState' = "Offline"
        /\ UNCHANGED <<handle, callbacks, timerUp, delivered>>
  /\ pc' = "test"
  /\ UNCHANGED others

\* Mutant: Offline is for good.
DoOfflineForGood ==
  /\ pc = "pass" /\ workState = "Offline"
  /\ \/ StopConnection /\ UNCHANGED stateVars
     \/ /\ ~stopWorkTask
        /\ UNCHANGED <<handle, callbacks, workState, timerUp, delivered, stateVars>>
  /\ pc' = "test"
  /\ UNCHANGED others

DoOffline ==
  /\ pc = "pass" /\ workState = "Offline"
  /\ \/ StopConnection /\ UNCHANGED stateVars
     \/ /\ ~stopWorkTask
        /\ IF inService
           THEN PublishState("online") /\ workState' = "Online"
           ELSE UNCHANGED <<workState, stateVars>>
        /\ UNCHANGED <<handle, callbacks, timerUp, delivered>>
  /\ pc' = "test"
  /\ UNCHANGED others

\* After the loop: disconnect, if connected.  The handle is left to Stop.
TaskExit ==
  /\ pc = "exit"
  /\ IF workState # "Idle" /\ isConnected
     THEN /\ pc' = "exitWait"
          /\ timerUp' = FALSE
          /\ IF workState # "WaitOnDisconnect"
             THEN SendDisconnect
             ELSE UNCHANGED <<handle, callbacks, delivered>>
     ELSE /\ pc' = "done"
          /\ UNCHANGED <<handle, callbacks, timerUp, delivered>>
  /\ UNCHANGED <<workState, stateVars, others>>

\* Mutant: no limit to the wait.
TaskExitWaitForever ==
  /\ pc = "exitWait"
  /\ delivered
  /\ pc' = "done"
  /\ UNCHANGED <<handle, callbacks, workState, timerUp, delivered, stateVars,
                 others>>

\* The answer to the disconnect is waited for, for at most ten seconds.
TaskExitWait ==
  /\ pc = "exitWait"
  /\ delivered \/ timerUp
  /\ pc' = "done"
  /\ UNCHANGED <<handle, callbacks, workState, timerUp, delivered, stateVars,
                 others>>

Worker ==
  \/ TaskStart \/ TestStop \/ TaskExit \/ TaskExitWait
  \/ DoIdleWait \/ DoIdleConnect
  \/ DoWaitOnConnectNotYet \/ DoWaitOnConnect
  \/ DoOnline \/ DoOffline

-----------------------------------------------------------------------------
(* The application thread. *)

\* Start creates the handle before it spawns the worker.  (Start of a running
\* host waits for a worker nobody stopped: it is not modelled.)
Start ==
  /\ app = "idle" /\ pc = "none"
  /\ handle' = "created"
  /\ callbacks' = {}
  /\ delivered' = FALSE
  /\ stopWorkTask' = FALSE
  /\ pc' = "start"
  /\ UNCHANGED <<workState, timerUp, inService, app, stateVars>>

\* MQTTAsync_createWithOptions or MQTTAsync_setCallbacks fails; the second
\* leaves a handle that a later Start replaces.
StartFails ==
  /\ app = "idle" /\ pc = "none"
  /\ \/ UNCHANGED <<handle, delivered>>
     \/ handle' = "created" /\ delivered' = FALSE
  /\ UNCHANGED <<callbacks, workState, timerUp, stopWorkTask, inService, pc,
                 app, stateVars>>

Stop ==
  /\ "stop" \in Stimuli
  /\ app = "idle"
  /\ stopWorkTask' = TRUE
  /\ app' = "join"
  /\ UNCHANGED <<handle, callbacks, workState, timerUp, delivered, inService, pc,
                 stateVars>>

\* The join() returns and Stop destroys the handle, with what is left of its
\* connection.
StopJoined ==
  /\ app = "join" /\ pc \in {"none", "done"}
  /\ Destroy
  /\ IF isConnected THEN Ends ELSE UNCHANGED stateVars
  /\ app' = "idle"
  /\ pc' = "none"
  /\ UNCHANGED <<workState, timerUp, delivered, stopWorkTask, inService>>

SetInService ==
  /\ "inService" \in Stimuli
  /\ app = "idle"
  /\ inService' = ~inService
  /\ UNCHANGED <<handle, callbacks, workState, timerUp, delivered, stopWorkTask,
                 pc, app, stateVars>>

App == Start \/ StartFails \/ Stop \/ StopJoined \/ SetInService

-----------------------------------------------------------------------------
(* The network, the broker and Paho's thread. *)

hostVars == <<workState, timerUp, stopWorkTask, inService, pc, app>>

ConnectionOpens ==
  /\ Accepted
  /\ UNCHANGED <<delivered, hostVars, stateVars>>

ConnectionRefused ==
  /\ Refused
  /\ UNCHANGED <<delivered, hostVars, stateVars>>

ConnectionBreaks ==
  /\ Lost
  /\ WillIsPublished
  /\ UNCHANGED <<delivered, hostVars>>

ConnectionCloses ==
  /\ Closed
  /\ Ends
  /\ UNCHANGED <<delivered, hostVars>>

\* The STATE arrives at the broker.
StateArrives ==
  /\ isConnected
  /\ retained # LastWord
  /\ retained' = LastWord
  /\ UNCHANGED <<handle, callbacks, delivered, hostVars, sent>>

\* Connect, ConnectFailure, Disconnect, DisconnectFailure: SetDelivered().
OnAnswer ==
  /\ \E c \in Answer : Called(c)
  /\ delivered' = TRUE
  /\ UNCHANGED <<hostVars, stateVars>>

OnConnectionLost ==
  /\ Called("connectionLost")
  /\ UNCHANGED <<delivered, hostVars, stateVars>>

\* The clock passes host_timer_.
Timeout ==
  /\ ~timerUp
  /\ timerUp' = TRUE
  /\ UNCHANGED <<handle, callbacks, workState, delivered, stopWorkTask, inService,
                 pc, app, stateVars>>

Environment ==
  \/ ConnectionOpens \/ ConnectionRefused \/ ConnectionBreaks
  \/ ConnectionCloses \/ StateArrives
  \/ OnAnswer \/ OnConnectionLost \/ Timeout

-----------------------------------------------------------------------------
Next == Worker \/ App \/ Environment

Spec == Init /\ [][Next]_vars

(***************************************************************************)
(* The worker never stops scheduling itself, a Stop that has begun runs to *)
(* its end, time passes, and a message handed to Paho arrives unless the   *)
(* connection goes first.  No answer of Paho is relied on.                 *)
(***************************************************************************)
Fairness ==
  /\ WF_vars(Worker)
  /\ WF_vars(StopJoined)
  /\ WF_vars(Timeout)
  /\ WF_vars(StateArrives)

FairSpec == Spec /\ Fairness

-----------------------------------------------------------------------------
(* Safety. *)

(* What IsOnline() and IsOffline() tell the application is what the host    *)
(* last told the broker in this connection, whatever attempts, timeouts and *)
(* late connections came before.                                            *)
StateAnnounced ==
  handle = "connected" =>
    /\ workState = "Online"  => sent = "online"
    /\ workState = "Offline" => sent = "offline"

(* A host that was stopped out of service, or whose handler saw the stop,   *)
(* is not retained online, however its connection ended.                    *)
StoppedMeansOffline ==
  pc = "none" /\ workState \in {"Offline", "WaitOnDisconnect"}
    => retained # "online"

-----------------------------------------------------------------------------
(* The inductive invariant behind them. *)

\* An attempt, and a connection nothing was published in yet.
ConnectingPart ==
  /\ handle = "connecting" => workState \in {"Idle", "WaitOnConnect"}
  /\ handle = "connected" => workState # "WaitOnDisconnect"

\* A host that says it is not online has told so, or was told so by its will.
OfflinePart ==
  workState \in {"Offline", "WaitOnDisconnect"} =>
    IF isConnected THEN sent = "offline" ELSE retained # "online"

\* The will has spoken for an Online host whose connection broke.
LostPart ==
  workState = "Online" /\ pc \in {"test", "pass"} /\ ~isConnected
    => retained # "online"

\* Only a host that leaves disconnects: no handler runs after that.
WorkerPart ==
  /\ pc \in {"none", "start"} => ~isConnected /\ handle # "connecting"
  /\ pc \in {"exit", "exitWait", "done"} \/ app = "join" => stopWorkTask
  /\ handle = "disconnecting" \/ (workState = "WaitOnDisconnect" /\ pc = "test")
       => stopWorkTask
  /\ handle = "disconnecting" =>
       \/ pc = "test" /\ workState = "WaitOnDisconnect"
       \/ pc \in {"exit", "exitWait", "done"}
  /\ pc = "pass" => workState # "WaitOnDisconnect"

HostInv ==
  /\ TypeOK
  /\ ConnectingPart /\ OfflinePart /\ LostPart /\ WorkerPart
  /\ StateAnnounced /\ StoppedMeansOffline

-----------------------------------------------------------------------------
(* The host's connections, seen from the broker, are what HostPresence       *)
(* promises: whatever attempts, timeouts and late answers HostTask goes       *)
(* through, it announces nothing the application did not decide, nothing     *)
(* without a connection and nothing after its disconnect.                    *)
Presence == INSTANCE HostPresence WITH
  service    <- inService,
  connection <- CASE handle = "connected" -> "open"
                  [] handle = "disconnecting" -> "leaving"
                  [] OTHER -> "closed",
  said       <- sent

ImplementsHostPresence == Presence!Spec

-----------------------------------------------------------------------------
(* Liveness, under FairSpec. *)

(* Stop returns, even when the broker never answers the disconnect.         *)
StopReturns == app = "join" ~> app = "idle"

(* What the application decides about the service of a connected host is    *)
(* what everyone else can read from the broker in the end, unless it        *)
(* changes its mind, stops the host or the connection breaks.               *)
Undecided(service) ==
  inService # service \/ stopWorkTask \/ handle # "connected"

ServiceIsAnnounced ==
  /\ (workState = "Online" /\ ~inService)
       ~> (retained = "offline" \/ Undecided(FALSE))
  /\ (workState = "Offline" /\ inService)
       ~> (retained = "online" \/ Undecided(TRUE))
=============================================================================
