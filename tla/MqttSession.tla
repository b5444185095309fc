---------------------------- MODULE MqttSession ----------------------------
(***************************************************************************)
(* The MQTT client's API as it is executed by one or more threads that     *)
(* share one AWS_IoT_Client.  Every API function checks the client state,  *)
(* moves it to a state of its own with a compare-and-set, talks to the     *)
(* network and moves it back.  A received message is delivered from within *)
(* whatever call is reading the network, and its handler may call the API  *)
(* again: each thread therefore has a stack of calls.                      *)
(*                                                                         *)
(* One step is one access to the state that threads share: a read or a     *)
(* compare-and-set of the client state, or one exchange with the network.  *)
(* The mutex around the compare-and-set is taken in blocking mode          *)
(* (isBlockOnThreadLockEnabled), so the compare-and-set is one step.  The  *)
(* outcome of a network exchange, and of a timer, is a free choice.        *)
(***************************************************************************)
EXTENDS ClientState, Naturals, Sequences

CONSTANTS
    Threads,        \* the threads that use the client
    Calls,          \* the API functions each thread calls, by thread
    CallbackCalls,  \* the API functions a message handler calls
    HandlerCalls,   \* the API functions the disconnect handler calls
    EnableAutoReconnect, \* the values of enableAutoReconnect passed to init
    Delivers,       \* does the broker send messages to this client
    MaxDepth        \* bound: a handler calls the API only at this depth or less

ApiCalls == (Ops \ { "deliver" }) \cup { "autoreconnect_set_status" }

ASSUME SessionAssumption ==
    /\ Threads # {}
    /\ Calls \in [Threads -> SUBSET ApiCalls]
    /\ CallbackCalls \subseteq ApiCalls
    /\ HandlerCalls \subseteq ApiCalls
    /\ EnableAutoReconnect \subseteq BOOLEAN
    /\ Delivers \in BOOLEAN
    /\ MaxDepth \in Nat

VARIABLES
    clientState,      \* clientStatus.clientState
    tls,              \* is the TLS context of networkStack set up and usable
    autoReconnect,    \* clientStatus.isAutoReconnectEnabled
    stack,            \* the calls in progress on each thread, innermost last
    appDisconnected   \* history: the application's last word was disconnect

vars == << clientState, tls, autoReconnect, stack, appDisconnected >>

-----------------------------------------------------------------------------
(* Stacks of calls *)

\* Return codes, as far as a caller tells them apart.
Rcs == { "SUCCESS", "ERROR", "NETWORK_DISCONNECTED_ERROR",
         "NETWORK_ATTEMPTING_RECONNECT", "NETWORK_RECONNECTED" }

\* Where a call stands; the names say what it does next.
PcsOf(op) ==
    CASE op = "connect" -> { "cas", "tls_connect", "connack", "ok", "failed" }
      [] op = "disconnect" -> { "check", "cas", "send", "done", "undo" }
      [] op \in Requests -> { "cas", "rollback", "send", "wait", "restore" }
      [] op = "attempt_reconnect" -> { "connect", "after_connect", "pending",
                                       "resubscribe", "after_resubscribe" }
      [] op = "deliver" -> { "cas", "callback" }
      [] op = "yield" -> { "cas", "loop", "reconnect", "reconnected", "read",
                           "delivered", "keep_alive", "disconnect",
                           "after_disconnect", "force", "handler", "lost",
                           "again", "exit" }

Pcs == UNION { PcsOf(op) : op \in Ops }

\* saved: the client state the function read on entry (clientState in the code)
Frames ==
    { f \in [op : Ops, pc : Pcs, saved : ClientStates, rc : Rcs] :
        f.pc \in PcsOf(f.op) }

Frame(op, pc, saved) == [op |-> op, pc |-> pc, saved |-> saved, rc |-> "SUCCESS"]

Depth(t) == Len(stack[t])

Top(t) == stack[t][Depth(t)]

At(t, op, pc) == Depth(t) > 0 /\ Top(t).op = op /\ Top(t).pc = pc

\* The innermost call of t goes on at pc, with rc as its pending result.
WithTop(s, pc, rc) ==
    [s EXCEPT ![Len(s)] = [op |-> @.op, pc |-> pc, saved |-> @.saved, rc |-> rc]]

Goto(t, pc, rc) == stack' = [stack EXCEPT ![t] = WithTop(@, pc, rc)]

\* The innermost call of t calls another function and will go on at pc.
Invoke(t, pc, frame) ==
    stack' = [stack EXCEPT ![t] = Append(WithTop(@, pc, "SUCCESS"), frame)]

\* The innermost call returns rc.  Handlers ignore what the API returns.
Pop(s) == [i \in 1..(Len(s) - 1) |-> s[i]]

Returned(s, rc) ==
    LET rest == Pop(s)
    IN  IF Len(rest) = 0 \/ rest[Len(rest)].pc \in {"callback", "handler"}
        THEN rest
        ELSE WithTop(rest, rest[Len(rest)].pc, rc)

Return(t, rc) == stack' = [stack EXCEPT ![t] = Returned(@, rc)]

\* aws_iot_mqtt_set_client_state
SetClientState(expected, new) ==
    clientState' = IF clientState = expected THEN new ELSE clientState

\* What a restoring call returns: its own error first, then that of the
\* compare-and-set.
RestoreRc(rc, expected) ==
    IF rc = "SUCCESS" /\ clientState # expected THEN "ERROR" ELSE rc

-----------------------------------------------------------------------------
(* Calls made by the application: from a thread with no call in progress,  *)
(* from a message handler or from the disconnect handler.  A call that its *)
(* function refuses on entry changes nothing and is not a step.            *)

MayCall(t, op) ==
    \/ Depth(t) = 0 /\ op \in Calls[t]
    \/ /\ Depth(t) \in 1..MaxDepth
       /\ \/ Top(t).pc = "callback" /\ op \in CallbackCalls
          \/ Top(t).pc = "handler" /\ op \in HandlerCalls

Push(t, frame) == stack' = [stack EXCEPT ![t] = Append(@, frame)]

\* Was the innermost call of t made by the application.
CalledByApp(t) ==
    Depth(t) = 1 \/ stack[t][Depth(t) - 1].pc \in {"callback", "handler"}

CallConnect(t) ==
    /\ MayCall(t, "connect")
    /\ ValidForConnect(clientState)
    /\ Push(t, Frame("connect", "cas", clientState))
    /\ appDisconnected' = FALSE
    /\ UNCHANGED << clientState, tls, autoReconnect >>

CallDisconnect(t) ==
    /\ MayCall(t, "disconnect")
    /\ Push(t, Frame("disconnect", "check", clientState))
    /\ UNCHANGED << clientState, tls, autoReconnect, appDisconnected >>

CallAttemptReconnect(t) ==
    /\ MayCall(t, "attempt_reconnect")
    /\ ~IsClientConnected(clientState)
    /\ Push(t, Frame("attempt_reconnect", "connect", "CONNECTED_IDLE"))
    /\ appDisconnected' = FALSE
    /\ UNCHANGED << clientState, tls, autoReconnect >>

CallPublish(t) ==
    /\ MayCall(t, "publish")
    /\ ReadyForRequest(clientState)
    /\ Push(t, Frame("publish", "cas", clientState))
    /\ UNCHANGED << clientState, tls, autoReconnect, appDisconnected >>

CallSubscribe(t) ==
    /\ MayCall(t, "subscribe")
    /\ ReadyForRequest(clientState)
    /\ Push(t, Frame("subscribe", "cas", clientState))
    /\ UNCHANGED << clientState, tls, autoReconnect, appDisconnected >>

CallUnsubscribe(t) ==
    /\ MayCall(t, "unsubscribe")
    /\ ReadyForRequest(clientState)
    /\ Push(t, Frame("unsubscribe", "cas", clientState))
    /\ UNCHANGED << clientState, tls, autoReconnect, appDisconnected >>

CallResubscribe(t) ==
    /\ MayCall(t, "resubscribe")
    /\ clientState = "CONNECTED_IDLE"
    /\ Push(t, Frame("resubscribe", "cas", "CONNECTED_IDLE"))
    /\ UNCHANGED << clientState, tls, autoReconnect, appDisconnected >>

\* A client that waits for its next reconnect attempt yields without taking
\* the state YIELD_IN_PROGRESS.
CallYield(t) ==
    /\ MayCall(t, "yield")
    /\ \/ /\ clientState = "CONNECTED_IDLE"
          /\ Push(t, Frame("yield", "cas", "CONNECTED_IDLE"))
       \/ /\ clientState = "PENDING_RECONNECT"
          /\ Push(t, Frame("yield", "loop", "CONNECTED_IDLE"))
    /\ UNCHANGED << clientState, tls, autoReconnect, appDisconnected >>

SetAutoReconnect(t) ==
    /\ MayCall(t, "autoreconnect_set_status")
    /\ autoReconnect' \in BOOLEAN
    /\ UNCHANGED << clientState, tls, stack, appDisconnected >>

-----------------------------------------------------------------------------
(* connect *)

\* The result of the compare-and-set is ignored.
ConnectStart(t) ==
    /\ At(t, "connect", "cas")
    /\ SetClientState(Top(t).saved, "CONNECTING")
    /\ Goto(t, "tls_connect", "SUCCESS")
    /\ UNCHANGED << tls, autoReconnect, appDisconnected >>

\* The TLS handshake.  After a failure connect closes and destroys the stack.
ConnectTls(t) ==
    /\ At(t, "connect", "tls_connect")
    /\ \/ tls' = TRUE /\ Goto(t, "connack", "SUCCESS")
       \/ tls' = FALSE /\ Goto(t, "failed", "SUCCESS")
    /\ UNCHANGED << clientState, autoReconnect, appDisconnected >>

\* CONNECT is sent and CONNACK awaited.  A broker sends nothing before it.
ConnectAck(t) ==
    /\ At(t, "connect", "connack")
    /\ \/ tls /\ tls' = tls /\ Goto(t, "ok", "SUCCESS")
       \/ tls' = FALSE /\ Goto(t, "failed", "SUCCESS")
    /\ UNCHANGED << clientState, autoReconnect, appDisconnected >>

ConnectDone(t) ==
    /\ At(t, "connect", "ok")
    /\ SetClientState("CONNECTING", "CONNECTED_IDLE")
    /\ Return(t, "SUCCESS")
    /\ UNCHANGED << tls, autoReconnect, appDisconnected >>

\* Mutant: a failed connect goes back to the state it came from.
ConnectFailedBack(t) ==
    /\ At(t, "connect", "failed")
    /\ SetClientState("CONNECTING", Top(t).saved)
    /\ Return(t, "ERROR")
    /\ UNCHANGED << tls, autoReconnect, appDisconnected >>

ConnectFailed(t) ==
    /\ At(t, "connect", "failed")
    /\ SetClientState("CONNECTING", "DISCONNECTED_ERROR")
    /\ Return(t, "ERROR")
    /\ UNCHANGED << tls, autoReconnect, appDisconnected >>

-----------------------------------------------------------------------------
(* disconnect *)

\* The state is read twice: into saved by the call, and here for the check.
DisconnectCheck(t) ==
    /\ At(t, "disconnect", "check")
    /\ IF IsClientConnected(clientState)
       THEN Goto(t, "cas", "SUCCESS")
       ELSE Return(t, "NETWORK_DISCONNECTED_ERROR")
    /\ UNCHANGED << clientState, tls, autoReconnect, appDisconnected >>

DisconnectStart(t) ==
    /\ At(t, "disconnect", "cas")
    /\ SetClientState(Top(t).saved, "DISCONNECTING")
    /\ IF clientState = Top(t).saved
       THEN Goto(t, "send", "SUCCESS")
       ELSE Return(t, "ERROR")
    /\ UNCHANGED << tls, autoReconnect, appDisconnected >>

\* Mutant: the network stack is destroyed whatever came of DISCONNECT.
DisconnectSendReleasing(t) ==
    /\ At(t, "disconnect", "send")
    /\ tls' = FALSE
    /\ \/ tls /\ Goto(t, "done", "SUCCESS")
       \/ Goto(t, "undo", "SUCCESS")
    /\ UNCHANGED << clientState, autoReconnect, appDisconnected >>

\* The network stack is closed and destroyed only if DISCONNECT could be sent.
DisconnectSend(t) ==
    /\ At(t, "disconnect", "send")
    /\ \/ tls /\ tls' = FALSE /\ Goto(t, "done", "SUCCESS")
       \/ tls' = tls /\ Goto(t, "undo", "SUCCESS")
    /\ UNCHANGED << clientState, autoReconnect, appDisconnected >>

\* Neither outcome looks at the current state again.
DisconnectDone(t) ==
    /\ At(t, "disconnect", "done")
    /\ clientState' = "DISCONNECTED_MANUALLY"
    /\ appDisconnected' = (appDisconnected \/ CalledByApp(t))
    /\ Return(t, "SUCCESS")
    /\ UNCHANGED << tls, autoReconnect >>

DisconnectUndo(t) ==
    /\ At(t, "disconnect", "undo")
    /\ clientState' = Top(t).saved
    /\ Return(t, "ERROR")
    /\ UNCHANGED << tls, autoReconnect, appDisconnected >>

-----------------------------------------------------------------------------
(* publish, subscribe, unsubscribe and resubscribe *)

\* Mutant: the result of the compare-and-set is ignored, as it is in connect.
RequestStartIgnoringResult(t) ==
    /\ \E op \in Requests : At(t, op, "cas")
    /\ SetClientState(Top(t).saved, Busy(Top(t).op))
    /\ Goto(t, "send", "SUCCESS")
    /\ UNCHANGED << tls, autoReconnect, appDisconnected >>

RequestStart(t) ==
    /\ \E op \in Requests : At(t, op, "cas")
    /\ SetClientState(Top(t).saved, Busy(Top(t).op))
    /\ IF clientState = Top(t).saved THEN Goto(t, "send", "SUCCESS")
       ELSE IF Top(t).op = "unsubscribe" THEN Goto(t, "rollback", "SUCCESS")
       ELSE Return(t, "ERROR")
    /\ UNCHANGED << tls, autoReconnect, appDisconnected >>

\* unsubscribe answers a failed compare-and-set with the reverse one.
UnsubscribeRollback(t) ==
    /\ At(t, "unsubscribe", "rollback")
    /\ SetClientState(Busy("unsubscribe"), Top(t).saved)
    /\ Return(t, RestoreRc("SUCCESS", Busy("unsubscribe")))
    /\ UNCHANGED << tls, autoReconnect, appDisconnected >>

\* The packet is built and sent.  A QoS 0 publish is then complete, and so is
\* resubscribe when no topic is left.
RequestSend(t) ==
    /\ \E op \in Requests : At(t, op, "send")
    /\ \/ Goto(t, "restore", "ERROR")
       \/ tls /\ Goto(t, "wait", "SUCCESS")
       \/ /\ \/ Top(t).op = "publish" /\ tls
             \/ Top(t).op = "resubscribe"
          /\ Goto(t, "restore", "SUCCESS")
    /\ UNCHANGED << clientState, tls, autoReconnect, appDisconnected >>

\* wait_for_read: the acknowledgement arrives, or the command times out, or
\* a message arrives first and is delivered from here.
RequestWait(t) ==
    /\ \E op \in Requests : At(t, op, "wait")
    /\ \/ tls /\ Goto(t, IF Top(t).op = "resubscribe" THEN "send" ELSE "restore",
                      "SUCCESS")
       \/ Goto(t, "restore", "ERROR")
       \/ Delivers /\ tls /\ Invoke(t, "wait", Frame("deliver", "cas", clientState))
    /\ UNCHANGED << clientState, tls, autoReconnect, appDisconnected >>

\* Mutant: a request that failed returns without restoring the state.
RequestRestoreOnSuccessOnly(t) ==
    /\ \E op \in Requests : At(t, op, "restore")
    /\ IF Top(t).rc = "SUCCESS"
       THEN SetClientState(Busy(Top(t).op), Top(t).saved)
       ELSE UNCHANGED clientState
    /\ Return(t, RestoreRc(Top(t).rc, Busy(Top(t).op)))
    /\ UNCHANGED << tls, autoReconnect, appDisconnected >>

RequestRestore(t) ==
    /\ \E op \in Requests : At(t, op, "restore")
    /\ SetClientState(Busy(Top(t).op), Top(t).saved)
    /\ Return(t, RestoreRc(Top(t).rc, Busy(Top(t).op)))
    /\ UNCHANGED << tls, autoReconnect, appDisconnected >>

-----------------------------------------------------------------------------
(* attempt_reconnect *)

\* The return code of connect is ignored: the state afterwards decides.
AttemptConnect(t) ==
    /\ At(t, "attempt_reconnect", "connect")
    /\ IF ValidForConnect(clientState)
       THEN Invoke(t, "after_connect", Frame("connect", "cas", clientState))
       ELSE Goto(t, "after_connect", "SUCCESS")
    /\ UNCHANGED << clientState, tls, autoReconnect, appDisconnected >>

AttemptAfterConnect(t) ==
    /\ At(t, "attempt_reconnect", "after_connect")
    /\ Goto(t, IF clientState = "CONNECTED_IDLE" THEN "resubscribe" ELSE "pending",
            "SUCCESS")
    /\ UNCHANGED << clientState, tls, autoReconnect, appDisconnected >>

AttemptPending(t) ==
    /\ At(t, "attempt_reconnect", "pending")
    /\ SetClientState("DISCONNECTED_ERROR", "PENDING_RECONNECT")
    /\ Return(t, "NETWORK_ATTEMPTING_RECONNECT")
    /\ UNCHANGED << tls, autoReconnect, appDisconnected >>

AttemptResubscribe(t) ==
    /\ At(t, "attempt_reconnect", "resubscribe")
    /\ \/ /\ clientState = "CONNECTED_IDLE"
          /\ Invoke(t, "after_resubscribe",
                    Frame("resubscribe", "cas", "CONNECTED_IDLE"))
       \/ /\ clientState # "CONNECTED_IDLE"
          /\ Return(t, IF IsClientConnected(clientState) THEN "ERROR"
                       ELSE "NETWORK_DISCONNECTED_ERROR")
    /\ UNCHANGED << clientState, tls, autoReconnect, appDisconnected >>

AttemptAfterResubscribe(t) ==
    /\ At(t, "attempt_reconnect", "after_resubscribe")
    /\ Return(t, IF Top(t).rc = "SUCCESS" THEN "NETWORK_RECONNECTED" ELSE Top(t).rc)
    /\ UNCHANGED << clientState, tls, autoReconnect, appDisconnected >>

-----------------------------------------------------------------------------
(* Delivery of a received message to the application's handlers *)

\* Mutant: the handlers run without announcing it in the client state.
DeliverStartSilently(t) ==
    /\ At(t, "deliver", "cas")
    /\ Goto(t, "callback", "SUCCESS")
    /\ UNCHANGED << clientState, tls, autoReconnect, appDisconnected >>

\* The state was read into saved when the message arrived; the result of this
\* compare-and-set is ignored.
DeliverStart(t) ==
    /\ At(t, "deliver", "cas")
    /\ SetClientState(Top(t).saved, Busy("deliver"))
    /\ Goto(t, "callback", "SUCCESS")
    /\ UNCHANGED << tls, autoReconnect, appDisconnected >>

DeliverReturn(t) ==
    /\ At(t, "deliver", "callback")
    /\ SetClientState(Busy("deliver"), Top(t).saved)
    /\ Return(t, RestoreRc("SUCCESS", Busy("deliver")))
    /\ UNCHANGED << tls, autoReconnect, appDisconnected >>

-----------------------------------------------------------------------------
(* yield *)

YieldStart(t) ==
    /\ At(t, "yield", "cas")
    /\ SetClientState("CONNECTED_IDLE", Busy("yield"))
    /\ IF clientState = "CONNECTED_IDLE" THEN Goto(t, "loop", "SUCCESS")
       ELSE Return(t, "ERROR")
    /\ UNCHANGED << tls, autoReconnect, appDisconnected >>

\* Waiting for a reconnect: the back-off has run out of attempts, or its delay
\* has not passed yet, or it is time for the next attempt.
YieldLoop(t) ==
    /\ At(t, "yield", "loop")
    /\ IF clientState = "PENDING_RECONNECT"
       THEN \/ Goto(t, "exit", "ERROR")
            \/ Goto(t, "again", "NETWORK_ATTEMPTING_RECONNECT")
            \/ Goto(t, "reconnect", "SUCCESS")
       ELSE Goto(t, "read", "SUCCESS")
    /\ UNCHANGED << clientState, tls, autoReconnect, appDisconnected >>

YieldReconnect(t) ==
    /\ At(t, "yield", "reconnect")
    /\ IF IsClientConnected(clientState)
       THEN Goto(t, "reconnected", "ERROR")
       ELSE Invoke(t, "reconnected",
                   Frame("attempt_reconnect", "connect", "CONNECTED_IDLE"))
    /\ UNCHANGED << clientState, tls, autoReconnect, appDisconnected >>

\* The end of handle_reconnect.  A failed attempt doubles the interval and may
\* exceed its maximum, which replaces the return code.
YieldReconnected(t) ==
    /\ At(t, "yield", "reconnected")
    /\ \/ /\ Top(t).rc = "NETWORK_RECONNECTED"
          /\ SetClientState("CONNECTED_IDLE", Busy("yield"))
          /\ Goto(t, "again", IF clientState = "CONNECTED_IDLE"
                             THEN "NETWORK_RECONNECTED" ELSE "ERROR")
       \/ /\ Top(t).rc # "NETWORK_RECONNECTED"
          /\ \E rc \in { Top(t).rc, "ERROR" } : Goto(t, "again", rc)
          /\ UNCHANGED clientState
    /\ UNCHANGED << tls, autoReconnect, appDisconnected >>

\* cycle_read: nothing or a packet that needs no work, an error of the TLS
\* layer, another error (a packet that cannot be used), or a message.
YieldRead(t) ==
    /\ At(t, "yield", "read")
    /\ \/ tls /\ Goto(t, "keep_alive", "SUCCESS")
       \/ Goto(t, "disconnect", "SUCCESS")
       \/ tls /\ Goto(t, "exit", "ERROR")
       \/ Delivers /\ tls /\ Invoke(t, "delivered", Frame("deliver", "cas", clientState))
    /\ UNCHANGED << clientState, tls, autoReconnect, appDisconnected >>

\* The delivery is over; a QoS 1 message is acknowledged, which may fail.
\* send_packet turns every write error into FAILURE, so yield does not take it
\* for a lost connection.
YieldDelivered(t) ==
    /\ At(t, "yield", "delivered")
    /\ \/ /\ Top(t).rc = "SUCCESS"
          /\ \/ Goto(t, "keep_alive", "SUCCESS")
             \/ Goto(t, "exit", "ERROR")
       \/ /\ Top(t).rc # "SUCCESS"
          /\ Goto(t, "exit", Top(t).rc)
    /\ UNCHANGED << clientState, tls, autoReconnect, appDisconnected >>

\* The connection is alive, or a ping was due and could not be sent or was
\* not answered.
KeepAlive(t) ==
    /\ At(t, "yield", "keep_alive")
    /\ \/ Goto(t, "again", "SUCCESS")
       \/ Goto(t, "disconnect", "SUCCESS")
    /\ UNCHANGED << clientState, tls, autoReconnect, appDisconnected >>

HandleDisconnect(t) ==
    /\ At(t, "yield", "disconnect")
    /\ Invoke(t, "after_disconnect", Frame("disconnect", "check", clientState))
    /\ UNCHANGED << clientState, tls, autoReconnect, appDisconnected >>

HandleDisconnectResult(t) ==
    /\ At(t, "yield", "after_disconnect")
    /\ \/ /\ Top(t).rc = "SUCCESS"
          /\ Goto(t, "handler", "SUCCESS")
          /\ UNCHANGED clientState
       \/ /\ Top(t).rc # "SUCCESS"
          /\ clientState' = "DISCONNECTED_ERROR"
          /\ Goto(t, "force", "SUCCESS")
    /\ UNCHANGED << tls, autoReconnect, appDisconnected >>

\* Mutant: the forced disconnect forgets to destroy the network stack.
ForceClientDisconnectLeaking(t) ==
    /\ At(t, "yield", "force")
    /\ Goto(t, "handler", "SUCCESS")
    /\ UNCHANGED << clientState, tls, autoReconnect, appDisconnected >>

ForceClientDisconnect(t) ==
    /\ At(t, "yield", "force")
    /\ tls' = FALSE
    /\ Goto(t, "handler", "SUCCESS")
    /\ UNCHANGED << clientState, autoReconnect, appDisconnected >>

\* The disconnect handler returns; the state is overwritten whatever it is.
DisconnectHandlerReturn(t) ==
    /\ At(t, "yield", "handler")
    /\ clientState' = "DISCONNECTED_ERROR"
    /\ Goto(t, "lost", "SUCCESS")
    /\ UNCHANGED << tls, autoReconnect, appDisconnected >>

YieldLost(t) ==
    /\ At(t, "yield", "lost")
    /\ \/ /\ autoReconnect
          /\ SetClientState("DISCONNECTED_ERROR", "PENDING_RECONNECT")
          /\ IF clientState = "DISCONNECTED_ERROR"
             THEN Goto(t, "again", "NETWORK_ATTEMPTING_RECONNECT")
             ELSE Goto(t, "exit", "ERROR")
       \/ /\ ~autoReconnect
          /\ Goto(t, "exit", "NETWORK_DISCONNECTED_ERROR")
          /\ UNCHANGED clientState
    /\ UNCHANGED << tls, autoReconnect, appDisconnected >>

\* The loop condition: has the time given to yield passed.
YieldAgain(t) ==
    /\ At(t, "yield", "again")
    /\ \/ Goto(t, "loop", "SUCCESS")
       \/ Goto(t, "exit", Top(t).rc)
    /\ UNCHANGED << clientState, tls, autoReconnect, appDisconnected >>

\* A lost connection leaves the state to the disconnect and reconnect code.
YieldExit(t) ==
    /\ At(t, "yield", "exit")
    /\ IF Top(t).rc \in { "NETWORK_DISCONNECTED_ERROR",
                          "NETWORK_ATTEMPTING_RECONNECT" }
       THEN UNCHANGED clientState /\ Return(t, Top(t).rc)
       ELSE /\ SetClientState(Busy("yield"), "CONNECTED_IDLE")
            /\ Return(t, RestoreRc(Top(t).rc, Busy("yield")))
    /\ UNCHANGED << tls, autoReconnect, appDisconnected >>

-----------------------------------------------------------------------------
(* The specification *)

\* aws_iot_mqtt_init has succeeded.
Init ==
    /\ clientState = "INITIALIZED"
    /\ tls = FALSE
    /\ autoReconnect \in EnableAutoReconnect
    /\ stack = [t \in Threads |-> << >>]
    /\ appDisconnected = FALSE

AppCall(t) ==
    \/ CallConnect(t) \/ CallDisconnect(t) \/ CallAttemptReconnect(t)
    \/ CallPublish(t) \/ CallSubscribe(t) \/ CallUnsubscribe(t)
    \/ CallResubscribe(t) \/ CallYield(t) \/ SetAutoReconnect(t)

ConnectStep(t) ==
    \/ ConnectStart(t) \/ ConnectTls(t) \/ ConnectAck(t)
    \/ ConnectDone(t) \/ ConnectFailed(t)

DisconnectStep(t) ==
    \/ DisconnectCheck(t) \/ DisconnectStart(t) \/ DisconnectSend(t)
    \/ DisconnectDone(t) \/ DisconnectUndo(t)

RequestStep(t) ==
    \/ RequestStart(t) \/ UnsubscribeRollback(t) \/ RequestSend(t)
    \/ RequestWait(t) \/ RequestRestore(t)

AttemptStep(t) ==
    \/ AttemptConnect(t) \/ AttemptAfterConnect(t) \/ AttemptPending(t)
    \/ AttemptResubscribe(t) \/ AttemptAfterResubscribe(t)

DeliverStep(t) == DeliverStart(t) \/ DeliverReturn(t)

YieldStep(t) ==
    \/ YieldStart(t) \/ YieldLoop(t) \/ YieldReconnect(t)
    \/ YieldReconnected(t) \/ YieldRead(t) \/ YieldDelivered(t)
    \/ KeepAlive(t) \/ HandleDisconnect(t) \/ HandleDisconnectResult(t)
    \/ ForceClientDisconnect(t) \/ DisconnectHandlerReturn(t)
    \/ YieldLost(t) \/ YieldAgain(t) \/ YieldExit(t)

ThreadStep(t) ==
    \/ AppCall(t) \/ ConnectStep(t) \/ DisconnectStep(t) \/ RequestStep(t)
    \/ AttemptStep(t) \/ DeliverStep(t) \/ YieldStep(t)

Next == \E t \in Threads : ThreadStep(t)

Spec == Init /\ [][Next]_vars

-----------------------------------------------------------------------------
(* Properties *)

\* Every variable stays in its type: each thread's stack holds frames whose
\* operation, position, saved state and pending result are those of the code.
TypeOK ==
    /\ clientState \in ClientStates
    /\ tls \in BOOLEAN
    /\ autoReconnect \in BOOLEAN
    /\ stack \in [Threads -> Seq(Frames)]
    /\ appDisconnected \in BOOLEAN

\* "Check if client is idle, if not another operation is in progress and we
\* should return" (yield): a client whose state says that an operation is under
\* way really has a call in progress on some thread.  Otherwise every later
\* yield is refused and the client never reads the network again.
NotIdleMeansInProgress ==
    (\A t \in Threads : Depth(t) = 0) => clientState \in Quiescent

\* What makes NotIdleMeansInProgress true of one thread: however deep handlers
\* call the API again, the client state is quiescent or belongs to the
\* innermost call, and the state a call read on entry is quiescent or belongs
\* to the call below it, so a restoring compare-and-set always hands the state
\* back to a call that is still there.
Owned(f) ==
    IF f.op = "attempt_reconnect" THEN Quiescent
    ELSE Quiescent \cup { Busy(f.op) }

Below(s, i) == IF i = 1 THEN Quiescent ELSE Owned(s[i - 1])

\* before its first compare-and-set a call has not changed what it read
StateOfTop(f) ==
    IF f.pc \in {"check", "cas"} THEN { f.saved } ELSE Owned(f)

Disciplined(s, state) ==
    /\ \A i \in 1..Len(s) : s[i].saved \in Below(s, i)
    /\ \A i \in 1..(Len(s) - 1) : s[i].pc \notin {"check", "cas"}
    /\ state \in IF Len(s) = 0 THEN Quiescent ELSE StateOfTop(s[Len(s)])

\* The return codes for which yield leaves the state as it is on its way out.
LostRcs == { "NETWORK_DISCONNECTED_ERROR", "NETWORK_ATTEMPTING_RECONNECT" }

\* A call that has lost the connection is the innermost one, a yield, and no
\* operation owns the state any more; the calls that report a lost connection
\* to yield were made by it or by a handler, which ignores what they return.
Lost(f) == f.rc \in LostRcs \/ f.pc = "lost"

FromHandler(s, i) == i = 1 \/ s[i - 1].pc \in {"callback", "handler"}

LostReported(s, state) ==
    \A i \in 1..Len(s) :
        /\ Lost(s[i]) => /\ i = Len(s) /\ s[i].op = "yield" /\ s[i].pc # "handler"
                         /\ state \in Quiescent
        /\ s[i].op = "yield" => FromHandler(s, i)
        /\ s[i].op \in {"attempt_reconnect", "disconnect"} =>
              FromHandler(s, i) \/ s[i - 1].op = "yield"

StackDiscipline ==
    \A t \in Threads :
        Disciplined(stack[t], clientState) /\ LostReported(stack[t], clientState)

\* "while callback return is in progress, Yield should not be called. The state
\* for CB_RETURN accomplishes that" (deliver_message): while a message handler
\* runs on some thread, the client is not in yield's state.
InCallback(t) ==
    \E i \in 1..Depth(t) : stack[t][i].op = "deliver" /\ stack[t][i].pc = "callback"

NoYieldDuringCallback ==
    clientState = "CONNECTED_YIELD_IN_PROGRESS" => \A t \in Threads : ~InCallback(t)

\* "only used in single-threaded mode where one command at a time is in
\* process" (wait_for_read): two threads are never both reading the network,
\* one for the answer to its request and the other for an answer of its own or
\* in yield, so no thread consumes the acknowledgement another one waits for.
\* This is claimed of clients that do not reconnect by themselves.
Reading(t) ==
    \E i \in 1..Depth(t) :
        \/ stack[t][i].op \in Requests /\ stack[t][i].pc = "wait"
        \/ stack[t][i].op = "yield" /\ stack[t][i].pc = "read"

OneReader ==
    ~autoReconnect => \A t, u \in Threads : Reading(t) /\ Reading(u) => t = u

\* Between calls, a client that reports itself disconnected has released its
\* TLS context: the next connect does not overwrite a live one.
TlsClosedWhileDisconnected ==
    (\A t \in Threads : Depth(t) = 0) /\ ~IsClientConnected(clientState) => ~tls

\* Handlers, nested calls and other threads notwithstanding, the client state and
\* the TLS context go through the life of one connection: connect never sets up
\* a context over a live one, a client counts as connected only with a context,
\* a disconnect is complete or undone, and a lost connection gives up its context
\* before the next attempt.
Contract ==
    INSTANCE Connection WITH phase <- PhaseOf(clientState), link <- tls, manual <- FALSE

ImplementsConnection == Contract!Spec

\* The same of a client that does not reconnect by itself, whose connection also
\* stays closed from the time the application closes it, in a handler or
\* elsewhere, until it calls connect.
ManualContract ==
    INSTANCE Connection WITH phase <- PhaseOf(clientState), link <- tls,
                             manual <- appDisconnected

ImplementsManualConnection == ManualContract!Spec

=============================================================================
