-------------------------- MODULE SparkplugHostProofs --------------------------
(***************************************************************************)
(* Proofs about SparkplugHost, for every choice of stimuli.                *)
(*                                                                         *)
(* HostInv is inductive with its type invariant; StoppedMeansOffline is    *)
(* the case of OfflinePart in which there is no worker, so that the steps  *)
(* need only be shown to keep the other parts (Core).                      *)
(***************************************************************************)
EXTENDS SparkplugHost, TLAPS

Core ==
  /\ TypeOK
  /\ ConnectingPart /\ OfflinePart /\ LostPart /\ WorkerPart
  /\ StateAnnounced

LEMMA CoreIsHostInv == Core => HostInv
  <1> SUFFICES ASSUME Core PROVE StoppedMeansOffline
    BY DEF Core, HostInv
  <1> QED
    BY DEF Core, OfflinePart, WorkerPart, StoppedMeansOffline

LEMMA InitCore == Init => Core
  BY DEF Init, HandleInit, Core, TypeOK, HandleTypeOK, HandleState, WorkState,
         WorkerAt, StateMessage, ConnectingPart, OfflinePart, LostPart,
         WorkerPart,
         StateAnnounced, isConnected

\* The worker's steps.
LEMMA WorkerStep == Core /\ Worker => Core'
  <1> SUFFICES ASSUME Core, Worker PROVE Core'
    OBVIOUS
  <1> USE DEF Core, TypeOK, HandleTypeOK, HandleState, WorkState, WorkerAt,
              StateMessage, ConnectingPart, OfflinePart, LostPart, WorkerPart,
              StateAnnounced, isConnected, others, stateVars
  <1>1. CASE TaskStart
    BY <1>1 DEF TaskStart
  <1>2. CASE TestStop
    BY <1>2 DEF TestStop
  <1>3. CASE TaskExit
    BY <1>3 DEF TaskExit, SendDisconnect, Disconnect
  <1>4. CASE TaskExitWait
    BY <1>4 DEF TaskExitWait
  <1>5. CASE DoIdleWait
    BY <1>5 DEF DoIdleWait
  <1>6. CASE DoIdleConnect
    BY <1>6 DEF DoIdleConnect, Connect, Callback
  <1>7. CASE DoWaitOnConnectNotYet
    BY <1>7 DEF DoWaitOnConnectNotYet
  <1>8. CASE DoWaitOnConnect
    BY <1>8 DEF DoWaitOnConnect, PublishState
  <1>9. CASE DoOnline
    <2>1. CASE stopWorkTask
      BY <1>9, <2>1 DEF DoOnline, StopConnection, SendDisconnect, Disconnect,
                        PublishState
    <2>2. CASE ~stopWorkTask
      BY <1>9, <2>2 DEF DoOnline, StopConnection, PublishState
    <2> QED
      BY <2>1, <2>2
  <1>10. CASE DoOffline
    BY <1>10 DEF DoOffline, StopConnection, SendDisconnect, Disconnect, PublishState
  <1> QED
    BY <1>1, <1>2, <1>3, <1>4, <1>5, <1>6, <1>7, <1>8, <1>9, <1>10 DEF Worker

\* The application's steps.
LEMMA AppStep == Core /\ App => Core'
  <1> SUFFICES ASSUME Core, App PROVE Core'
    OBVIOUS
  <1> USE DEF Core, TypeOK, HandleTypeOK, HandleState, WorkState, WorkerAt,
              StateMessage, ConnectingPart, OfflinePart, LostPart, WorkerPart,
              StateAnnounced, isConnected, stateVars
  <1>1. CASE Start
    BY <1>1 DEF Start
  <1>2. CASE StartFails
    BY <1>2 DEF StartFails
  <1>3. CASE Stop
    BY <1>3 DEF Stop
  <1>4. CASE StopJoined
    BY <1>4 DEF StopJoined, Destroy, Ends, LastWord
  <1>5. CASE SetInService
    BY <1>5 DEF SetInService
  <1> QED
    BY <1>1, <1>2, <1>3, <1>4, <1>5 DEF App

\* The steps of the network, the broker and Paho's thread.
LEMMA EnvironmentStep == Core /\ Environment => Core'
  <1> SUFFICES ASSUME Core, Environment PROVE Core'
    OBVIOUS
  <1> USE DEF Core, TypeOK, HandleTypeOK, HandleState, WorkState, WorkerAt,
              StateMessage, ConnectingPart, OfflinePart, LostPart, WorkerPart,
              StateAnnounced, isConnected, hostVars, stateVars
  <1>1. CASE ConnectionOpens
    BY <1>1 DEF ConnectionOpens, Accepted, Event, Callback
  <1>2. CASE ConnectionRefused
    BY <1>2 DEF ConnectionRefused, Refused, Event, Callback
  <1>3. CASE ConnectionBreaks
    BY <1>3 DEF ConnectionBreaks, Lost, Event, WillIsPublished, Callback
  <1>4. CASE ConnectionCloses
    BY <1>4 DEF ConnectionCloses, Closed, Event, Ends, LastWord, Callback
  <1>5. CASE StateArrives
    BY <1>5 DEF StateArrives, LastWord
  <1>6. CASE OnAnswer
    BY <1>6 DEF OnAnswer, Called
  <1>7. CASE OnConnectionLost
    BY <1>7 DEF OnConnectionLost, Called
  <1>8. CASE Timeout
    BY <1>8 DEF Timeout
  <1> QED
    BY <1>1, <1>2, <1>3, <1>4, <1>5, <1>6, <1>7, <1>8 DEF Environment

LEMMA CoreStep == Core /\ [Next]_vars => Core'
  <1> SUFFICES ASSUME Core, [Next]_vars PROVE Core'
    OBVIOUS
  <1>1. CASE Next
    BY <1>1, WorkerStep, AppStep, EnvironmentStep DEF Next
  <1>2. CASE UNCHANGED vars
    BY <1>2 DEF vars, stateVars, Core, TypeOK, HandleTypeOK,
                ConnectingPart, OfflinePart, LostPart, WorkerPart, StateAnnounced,
                isConnected
  <1> QED
    BY <1>1, <1>2

-----------------------------------------------------------------------------
(* The inductive invariant of the host: HostInv holds of every reachable    *)
(* state of the worker, the handle and the STATE at the broker.             *)
THEOREM HostInvariant == Spec => []HostInv
  BY CoreStep, InitCore, CoreIsHostInv, PTL DEF Spec

(* What IsOnline() and IsOffline() answer is what the host last told the    *)
(* broker in its connection.                                                *)
THEOREM AnnouncedStateIsTrue == Spec => []StateAnnounced
  <1>1. HostInv => StateAnnounced
    BY DEF HostInv
  <1> QED
    BY <1>1, HostInvariant, PTL

(* A host that had told it is offline before its thread ended is not        *)
(* retained online after Stop.                                              *)
THEOREM StoppedHostIsOffline == Spec => []StoppedMeansOffline
  <1>1. HostInv => StoppedMeansOffline
    BY DEF HostInv
  <1> QED
    BY <1>1, HostInvariant, PTL

(* Every variable of the host, its handle and the broker keeps its type.    *)
THEOREM HostTypes == Spec => []TypeOK
  <1>1. HostInv => TypeOK
    BY DEF HostInv
  <1> QED
    BY <1>1, HostInvariant, PTL

-----------------------------------------------------------------------------
(* The host implements HostPresence. *)

\* A step that announces nothing, or has no connection to announce it in.
LEMMA PresenceUntouched ==
  ASSUME UNCHANGED <<handle, inService, sent, retained>>
  PROVE  UNCHANGED Presence!vars
  BY DEF Presence!vars

\* A disconnect, with the last word that may go before.
LEMMA LeaveStep ==
  ASSUME Disconnect, UNCHANGED <<inService, retained>>,
         sent' = sent \/ (handle = "connected" /\ sent = "online" /\ sent' = "offline")
  PROVE  [Presence!Leave]_(Presence!vars)
  BY DEF Disconnect, Presence!Leave, Presence!vars

\* What the worker says in a connection that lasts.
LEMMA AnnounceStep ==
  ASSUME TypeOK, UNCHANGED <<handle, inService>>,
         PublishState(IF inService THEN "online" ELSE "offline")
  PROVE  [Presence!Announce]_(Presence!vars)
  BY DEF PublishState, Presence!Announce, Presence!vars

LEMMA WorkerAnnounces ==
  ASSUME Core, Worker
  PROVE  [Presence!Next]_(Presence!vars)
  <1> USE DEF Core, Presence!Next
  <1>1. CASE TaskStart \/ TestStop \/ TaskExitWait \/ DoIdleWait \/ DoWaitOnConnectNotYet
    BY <1>1, PresenceUntouched DEF TaskStart, TestStop, TaskExitWait, DoIdleWait,
         DoWaitOnConnectNotYet, others, stateVars
  <1>2. CASE TaskExit
    <2>1. CASE UNCHANGED handle
      BY <1>2, <2>1, PresenceUntouched DEF TaskExit, others, stateVars
    <2>2. CASE ~UNCHANGED handle
      BY <1>2, <2>2, LeaveStep DEF TaskExit, SendDisconnect, others, stateVars
    <2> QED
      BY <2>1, <2>2
  <1>3. CASE DoIdleConnect
    BY <1>3 DEF DoIdleConnect, Connect, others, stateVars, Presence!vars
  <1>4. CASE DoWaitOnConnect
    BY <1>4, AnnounceStep DEF DoWaitOnConnect, others
  <1>5. CASE DoOnline
    <2>1. handle = "connected" => sent = "online"
      BY <1>5 DEF DoOnline, StateAnnounced
    <2>2. CASE stopWorkTask
      BY <1>5, <2>1, <2>2, LeaveStep DEF DoOnline, StopConnection, SendDisconnect,
           PublishState, others
    <2>3. CASE ~stopWorkTask /\ inService
      BY <1>5, <2>3, PresenceUntouched DEF DoOnline, StopConnection, others, stateVars
    <2>4. CASE ~stopWorkTask /\ ~inService
      BY <1>5, <2>4, AnnounceStep DEF DoOnline, StopConnection, others
    <2> QED
      BY <2>2, <2>3, <2>4
  <1>6. CASE DoOffline
    <2>1. CASE stopWorkTask
      BY <1>6, <2>1, LeaveStep DEF DoOffline, StopConnection, SendDisconnect,
           others, stateVars
    <2>2. CASE ~stopWorkTask /\ ~inService
      BY <1>6, <2>2, PresenceUntouched DEF DoOffline, StopConnection, others, stateVars
    <2>3. CASE ~stopWorkTask /\ inService
      BY <1>6, <2>3, AnnounceStep DEF DoOffline, StopConnection, others
    <2> QED
      BY <2>1, <2>2, <2>3
  <1> QED
    BY <1>1, <1>2, <1>3, <1>4, <1>5, <1>6 DEF Worker

\* A connection is opened while nothing is said, and takes with it what was said.
LEMMA OthersAnnounce ==
  ASSUME Core, App \/ Environment
  PROVE  [Presence!Next]_(Presence!vars)
  <1> USE DEF Core, Presence!Next, TypeOK, HandleTypeOK, HandleState
  <1>1. CASE Start \/ StartFails
    <2>1. handle \notin {"connected", "disconnecting"}
      BY <1>1 DEF Start, StartFails, WorkerPart, isConnected
    <2> QED
      BY <1>1, <2>1 DEF Start, StartFails, stateVars, Presence!vars
  <1>2. CASE Stop \/ OnAnswer \/ OnConnectionLost \/ Timeout
    BY <1>2, PresenceUntouched DEF Stop, OnAnswer, OnConnectionLost, Timeout,
         Called, hostVars, stateVars
  <1>3. CASE StopJoined
    <2>1. CASE isConnected
      BY <1>3, <2>1 DEF StopJoined, Destroy, Ends, LastWord, isConnected,
           Presence!Close, Presence!vars
    <2>2. CASE ~isConnected
      BY <1>3, <2>2 DEF StopJoined, Destroy, isConnected, stateVars, Presence!vars
    <2> QED
      BY <2>1, <2>2
  <1>4. CASE SetInService
    BY <1>4 DEF SetInService, stateVars, Presence!Decide
  <1>5. CASE ConnectionOpens
    BY <1>5 DEF ConnectionOpens, Accepted, Event, hostVars, stateVars, Presence!Open
  <1>6. CASE ConnectionRefused
    BY <1>6 DEF ConnectionRefused, Refused, Event, hostVars, stateVars, Presence!vars
  <1>7. CASE ConnectionBreaks
    BY <1>7 DEF ConnectionBreaks, Lost, Event, WillIsPublished, hostVars,
         Presence!Break
  <1>8. CASE ConnectionCloses
    BY <1>8 DEF ConnectionCloses, Closed, Event, Ends, LastWord, hostVars,
         Presence!Close
  <1>9. CASE StateArrives
    BY <1>9 DEF StateArrives, LastWord, isConnected, hostVars, Presence!Arrive
  <1> QED
    BY <1>1, <1>2, <1>3, <1>4, <1>5, <1>6, <1>7, <1>8, <1>9 DEF App, Environment

(* Everyone who reads the STATE of a host sees what HostPresence promises:    *)
(* in each connection decisions of the application, in order, none after the *)
(* disconnect, and offline when the connection breaks.                       *)
THEOREM HostImplementsPresence == Spec => ImplementsHostPresence
  <1>1. Init => Presence!Init
    BY DEF Init, HandleInit, Presence!Init
  <1>2. Core /\ [Next]_vars => [Presence!Next]_(Presence!vars)
    <2> SUFFICES ASSUME Core, [Next]_vars PROVE [Presence!Next]_(Presence!vars)
      OBVIOUS
    <2>1. CASE Next
      BY <2>1, WorkerAnnounces, OthersAnnounce DEF Next
    <2>2. CASE UNCHANGED vars
      BY <2>2, PresenceUntouched DEF vars, stateVars
    <2> QED
      BY <2>1, <2>2
  <1> QED
    BY <1>1, <1>2, InitCore, CoreStep, PTL
       DEF Spec, ImplementsHostPresence, Presence!Spec
=============================================================================
