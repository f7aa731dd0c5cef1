------------------------------ MODULE MQTTAsync ------------------------------
(***************************************************************************)
(* The Eclipse Paho MQTTAsync handle, as the clients of the library use    *)
(* it.  Paho is not part of the repository: this module is what the calls  *)
(* and the callbacks in sparkplugnode.cpp, sparkplughost.cpp and           *)
(* mqttclient.cpp rely on.                                                 *)
(*                                                                         *)
(* Paho runs a thread of its own.  A network event first changes what      *)
(* MQTTAsync_isConnected answers and only later, in that thread, calls the *)
(* client's callback: the pending calls are kept in `callbacks`.  No       *)
(* client asks for an automatic reconnect (automaticReconnect = 0), so a   *)
(* closed handle stays closed until the client destroys it.                *)
(***************************************************************************)

VARIABLES
  handle,     \* the state of the handle; "null" when the client has none
  callbacks   \* the callbacks that Paho's thread has yet to call

HandleState ==
  {"null", "created", "connecting", "connected", "disconnecting", "closed"}

\* The answers to a connect and to a disconnect.
Answer == {"connect", "connectFailure", "disconnect", "disconnectFailure"}

Callback ==
  {"connect", "connectFailure", "disconnect", "disconnectFailure",
   "connectionLost", "deliveryComplete"}

HandleTypeOK ==
  /\ handle \in HandleState
  /\ callbacks \subseteq Callback

HandleInit ==
  /\ handle = "null"
  /\ callbacks = {}

\* MQTTAsync_isConnected: a disconnect on its way out still counts.
isConnected == handle \in {"connected", "disconnecting"}

-----------------------------------------------------------------------------
(* Calls made by the client. *)

\* MQTTAsync_destroy: the handle is gone, and its pending callbacks with it.
Destroy ==
  /\ handle' = "null"
  /\ callbacks' = {}

\* MQTTAsync_create and MQTTAsync_connect, when both succeed.
CreateAndConnect ==
  /\ handle' = "connecting"
  /\ callbacks' = {}

\* One of MQTTAsync_create, _setCallbacks and _connect fails.
CreateOrConnectFails ==
  /\ handle' \in {"null", "created"}
  /\ callbacks' = {}

\* MQTTAsync_disconnect; it returns an error when there is no connection.
Disconnect ==
  /\ handle' = IF handle = "connected" THEN "disconnecting" ELSE handle
  /\ UNCHANGED callbacks

-----------------------------------------------------------------------------
(* Steps of the network and of Paho's thread. *)

\* `from` ends in `to`, and the client will be called back with `callback`.
Event(from, to, callback) ==
  /\ handle = from
  /\ handle' = to
  /\ callbacks' = callbacks \union {callback}

Accepted   == Event("connecting", "connected", "connect")
Refused    == Event("connecting", "closed", "connectFailure")
Lost       == Event("connected", "closed", "connectionLost")
Closed     == \E c \in {"disconnect", "disconnectFailure"} :
                Event("disconnecting", "closed", c)
Delivered  == Event("connected", "connected", "deliveryComplete")

\* Paho's thread calls the callback c.
Called(c) ==
  /\ c \in callbacks
  /\ callbacks' = callbacks \ {c}
  /\ UNCHANGED handle
=============================================================================
