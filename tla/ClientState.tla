---------------------------- MODULE ClientState ----------------------------
(***************************************************************************)
(* The client's life-cycle states (enum ClientState) and the predicates    *)
(* the API functions test before they start.  The names are those of the   *)
(* enum without the prefix CLIENT_STATE_.                                  *)
(***************************************************************************)

ClientStates ==
    { "INVALID", "INITIALIZED", "CONNECTING", "CONNECTED_IDLE",
      "CONNECTED_YIELD_IN_PROGRESS", "CONNECTED_PUBLISH_IN_PROGRESS",
      "CONNECTED_SUBSCRIBE_IN_PROGRESS", "CONNECTED_UNSUBSCRIBE_IN_PROGRESS",
      "CONNECTED_RESUBSCRIBE_IN_PROGRESS", "CONNECTED_WAIT_FOR_CB_RETURN",
      "DISCONNECTING", "DISCONNECTED_ERROR", "DISCONNECTED_MANUALLY",
      "PENDING_RECONNECT" }

ConnectedStates ==
    { "CONNECTED_IDLE", "CONNECTED_YIELD_IN_PROGRESS",
      "CONNECTED_PUBLISH_IN_PROGRESS", "CONNECTED_SUBSCRIBE_IN_PROGRESS",
      "CONNECTED_UNSUBSCRIBE_IN_PROGRESS",
      "CONNECTED_RESUBSCRIBE_IN_PROGRESS", "CONNECTED_WAIT_FOR_CB_RETURN" }

\* aws_iot_mqtt_is_client_connected
IsClientConnected(s) == s \in ConnectedStates

\* _aws_iot_mqtt_is_client_state_valid_for_connect
ValidForConnect(s) ==
    s \in { "INITIALIZED", "DISCONNECTED_ERROR", "DISCONNECTED_MANUALLY",
            "PENDING_RECONNECT" }

\* publish, subscribe and unsubscribe start only from these two states.
ReadyForRequest(s) == s \in { "CONNECTED_IDLE", "CONNECTED_WAIT_FOR_CB_RETURN" }

\* The operations that send a packet and then wait for its acknowledgement.
Requests == { "publish", "subscribe", "unsubscribe", "resubscribe" }

\* Everything that occupies the call stack of a thread: the API functions and
\* the delivery of a received message to the application's handlers.
Ops == Requests \cup { "connect", "disconnect", "attempt_reconnect", "yield",
                       "deliver" }

\* The state an operation puts the client in while it runs; attempt_reconnect
\* has none of its own.
Busy(op) ==
    CASE op = "connect"     -> "CONNECTING"
      [] op = "disconnect"  -> "DISCONNECTING"
      [] op = "publish"     -> "CONNECTED_PUBLISH_IN_PROGRESS"
      [] op = "subscribe"   -> "CONNECTED_SUBSCRIBE_IN_PROGRESS"
      [] op = "unsubscribe" -> "CONNECTED_UNSUBSCRIBE_IN_PROGRESS"
      [] op = "resubscribe" -> "CONNECTED_RESUBSCRIBE_IN_PROGRESS"
      [] op = "yield"       -> "CONNECTED_YIELD_IN_PROGRESS"
      [] op = "deliver"     -> "CONNECTED_WAIT_FOR_CB_RETURN"

\* The states that say that no operation is under way.
Quiescent == { "INVALID", "INITIALIZED", "CONNECTED_IDLE", "DISCONNECTED_ERROR",
               "DISCONNECTED_MANUALLY", "PENDING_RECONNECT" }

\* Where a client in this state is in the life of its connection (Connection).
PhaseOf(s) ==
    CASE s = "CONNECTING"            -> "opening"
      [] s = "DISCONNECTING"         -> "closing"
      [] s = "DISCONNECTED_ERROR"    -> "lost"
      [] s = "DISCONNECTED_MANUALLY" -> "closed"
      [] s = "PENDING_RECONNECT"     -> "waiting"
      [] IsClientConnected(s)        -> "open"
      [] OTHER                       -> "new"

=============================================================================
