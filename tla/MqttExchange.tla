---------------------------- MODULE MqttExchange ----------------------------
(***************************************************************************)
(* What a connected client and its broker say to each other: requests and  *)
(* their acknowledgements, packet identifiers, the table of message        *)
(* handlers, the delivery of received messages and the subscriptions made  *)
(* again after a reconnect.  One thread uses the client; a message handler *)
(* may call the API while the request it interrupted still waits, so the   *)
(* calls in progress form a stack.  TLS keeps each direction in order and  *)
(* loses packets only with the connection.                                 *)
(***************************************************************************)
EXTENDS Naturals, SequencesExt

CONSTANTS
    Topics,
    NoTopic,        \* NULL as a topic name
    NumHandlers,    \* AWS_IOT_MQTT_NUM_SUBSCRIBE_HANDLERS
    MaxPacketId,    \* MAX_PACKET_ID
    AppCalls,       \* what the application calls
    CallbackCalls,  \* what a message handler calls
    MaxDepth,       \* bound: calls in progress when a handler calls the API
    MaxRequests,    \* bound: requests the application makes
    MaxMessages,    \* bound: messages the broker sends
    MaxTimeouts,    \* bound: commands that time out on a live connection
    MaxDrops,       \* bound: connections lost
    MaxRefusals     \* bound: subscriptions the broker refuses

ApiCalls == { "publish0", "publish", "subscribe", "unsubscribe", "yield" }

ASSUME ExchangeAssumption ==
    /\ NoTopic \notin Topics
    /\ NumHandlers \in Nat \ {0}
    /\ MaxPacketId \in Nat \ {0}
    /\ AppCalls \subseteq ApiCalls
    /\ CallbackCalls \subseteq ApiCalls \ { "yield" }
    /\ { MaxDepth, MaxRequests, MaxMessages, MaxTimeouts, MaxDrops, MaxRefusals } \subseteq Nat

VARIABLES
    up,            \* is the connection up
    toBroker,      \* packets on their way, in order
    toClient,
    brokerSubs,    \* the topics the broker has a subscription for
    awaiting,      \* the QoS 1 messages the broker wants acknowledged
    acked,         \* history: identifiers whose last publish the broker has acknowledged
    handlers,      \* messageHandlers[i].topicName
    nextPacketId,
    bufTopic,      \* the bytes of readBuf a message's topic name was read from
    calls,         \* the calls in progress, innermost last
    expired,       \* has the timer of the waiting call run out
    confirmed,     \* history: topics whose subscribe succeeded
    unacked,       \* history: QoS 1 messages the client has not acknowledged and will not
    unsubscribed,  \* history: has an unsubscribe been sent
    requests, messages, timeouts, drops, refusals

broker == << brokerSubs, awaiting, acked >>
marks == << expired, unacked, unsubscribed >>
bounds == << requests, messages, timeouts, drops, refusals >>
vars == << up, toBroker, toClient, broker, handlers, nextPacketId, bufTopic,
           calls, confirmed, marks, bounds >>

-----------------------------------------------------------------------------
(* Packets, calls and the handler table *)

Slots == 0..(NumHandlers - 1)

PacketTypes == { "PUBLISH", "PUBACK", "SUBSCRIBE", "SUBACK", "UNSUBSCRIBE", "UNSUBACK" }

\* id 0: no identifier, as in a QoS 0 message
Packet(type, topic, id) == [type |-> type, topic |-> topic, id |-> id]

Packets == [type : PacketTypes, topic : Topics \cup { NoTopic },
            id : 0..(MaxPacketId + MaxMessages)]

\* The packet wait_for_read is told to wait for.
AckOf(op) == CASE op = "publish"     -> "PUBACK"
               [] op = "subscribe"   -> "SUBACK"
               [] op = "resubscribe" -> "SUBACK"
               [] op = "unsubscribe" -> "UNSUBACK"
               [] op = "deliver"     -> "PUBACK"

\* n: the handler slot a subscribe has chosen, or how far a loop has come;
\* count: the number of subscriptions resubscribe sends
Call(op, topic, id, n, count, pc) ==
    [op |-> op, topic |-> topic, id |-> id, n |-> n, count |-> count, pc |-> pc]

CallFrames ==
    [op : { "publish", "subscribe", "unsubscribe", "resubscribe", "deliver" },
     topic : Topics \cup { NoTopic }, id : 0..(MaxPacketId + MaxMessages),
     n : 0..NumHandlers, count : 0..NumHandlers,
     pc : { "wait", "send", "match", "callback" }]

Top == Last(calls)

InCall(op, pc) == calls # << >> /\ Top.op = op /\ Top.pc = pc

Return == calls' = Front(calls)

Goto(n, pc) == calls' = [calls EXCEPT ![Len(calls)].n = n, ![Len(calls)].pc = pc]

Enter(frame) == calls' = Append(calls, frame)

\* aws_iot_mqtt_get_next_packet_id
NextPacketId == IF nextPacketId = MaxPacketId THEN 1 ELSE nextPacketId + 1

\* _aws_iot_mqtt_get_free_message_handler_index: the first free slot, or
\* NumHandlers
FreeIndex ==
    CHOOSE i \in 0..NumHandlers :
        /\ i \in Slots => handlers[i] = NoTopic
        /\ \A j \in Slots : j < i => handlers[j] # NoTopic

Handled == { handlers[i] : i \in Slots } \ { NoTopic }

Send(packet) == toBroker' = Append(toBroker, packet)

-----------------------------------------------------------------------------
(* Requests *)

\* From the application between calls, or from a handler.
MayCall(op) ==
    /\ requests < MaxRequests
    /\ requests' = requests + 1
    /\ \/ calls = << >> /\ op \in AppCalls
       \/ /\ calls # << >> /\ Len(calls) <= MaxDepth
          /\ Top.pc = "callback" /\ op \in CallbackCalls

\* A new identifier is taken and the request sent; on a dead connection the
\* write fails and the call returns.
StartRequest(packet, frame) ==
    /\ nextPacketId' = NextPacketId
    /\ acked' = IF packet.type = "PUBLISH" THEN acked \ { NextPacketId } ELSE acked
    /\ IF up THEN Send(packet) /\ Enter(frame) ELSE UNCHANGED << toBroker, calls >>
    /\ unsubscribed' = (unsubscribed \/ (up /\ packet.type = "UNSUBSCRIBE"))
    /\ UNCHANGED << up, toClient, brokerSubs, awaiting, handlers, bufTopic, expired,
                    confirmed, unacked, messages, timeouts, drops, refusals >>

PublishQos0 ==
    /\ MayCall("publish0")
    /\ up
    /\ Send(Packet("PUBLISH", NoTopic, 0))
    /\ UNCHANGED << up, toClient, broker, handlers, nextPacketId, bufTopic, calls,
                    confirmed, marks, messages, timeouts, drops, refusals >>

Publish ==
    /\ MayCall("publish")
    /\ StartRequest(Packet("PUBLISH", NoTopic, NextPacketId),
                    Call("publish", NoTopic, NextPacketId, 0, 0, "wait"))

\* The slot is chosen before the request is sent.
Subscribe(topic) ==
    /\ MayCall("subscribe")
    /\ IF FreeIndex \in Slots
       THEN StartRequest(Packet("SUBSCRIBE", topic, NextPacketId),
                         Call("subscribe", topic, NextPacketId, FreeIndex, 0, "wait"))
       ELSE /\ nextPacketId' = NextPacketId
            /\ UNCHANGED << up, toBroker, toClient, broker, handlers, bufTopic,
                            calls, confirmed, marks, messages, timeouts, drops,
                            refusals >>

Unsubscribe(topic) ==
    /\ MayCall("unsubscribe")
    /\ topic \in Handled
    /\ StartRequest(Packet("UNSUBSCRIBE", topic, NextPacketId),
                    Call("unsubscribe", topic, NextPacketId, 0, 0, "wait"))

-----------------------------------------------------------------------------
(* Reading: by yield between calls, or by a request that waits *)

Waiting == calls # << >> /\ Top.pc = "wait"

\* What a packet leaves of the topic name that was in the read buffer.  A
\* short message's topic begins behind the four bytes of PUBACK and UNSUBACK;
\* the fifth byte of SUBACK falls on it, or on the length before it.
Overwrite(packet) ==
    CASE packet.type = "PUBLISH" -> { packet.topic }
      [] packet.type = "SUBACK"  -> { bufTopic, NoTopic }
      [] OTHER                   -> { bufTopic }

ReadPacket ==
    /\ up /\ ~expired /\ toClient # << >>
    /\ toClient' = Tail(toClient)
    /\ bufTopic' \in Overwrite(Head(toClient))
    /\ UNCHANGED << up, broker, marks, bounds >>

ReadMessage ==
    /\ Waiting \/ (calls = << >> /\ "yield" \in AppCalls)
    /\ ReadPacket
    /\ Head(toClient).type = "PUBLISH"
    /\ Enter(Call("deliver", Head(toClient).topic, Head(toClient).id, 0, 0, "match"))
    /\ UNCHANGED << toBroker, handlers, nextPacketId, confirmed >>

\* A message longer than the read buffer is read through it and dropped, and is
\* not acknowledged.  Any part of it may be left where the topic name was.
ReadTooLong ==
    /\ Waiting \/ (calls = << >> /\ "yield" \in AppCalls)
    /\ up /\ ~expired /\ toClient # << >>
    /\ Head(toClient).type = "PUBLISH"
    /\ toClient' = Tail(toClient)
    /\ bufTopic' \in Topics \cup { NoTopic }
    /\ unacked' = IF Head(toClient).id = 0 THEN unacked
                  ELSE unacked \cup { Head(toClient).id }
    /\ UNCHANGED << up, toBroker, broker, handlers, nextPacketId, calls, expired,
                    confirmed, unsubscribed, bounds >>

\* Mutant: whatever is not the awaited acknowledgement is skipped.
ReadStrayOfAnyType ==
    /\ ReadPacket
    /\ \/ Waiting /\ Head(toClient).type # AckOf(Top.op)
       \/ calls = << >> /\ "yield" \in AppCalls /\ Head(toClient).type # "PUBLISH"
    /\ UNCHANGED << toBroker, handlers, nextPacketId, calls, confirmed >>

\* An acknowledgement nobody waits for is read and forgotten.
ReadStray ==
    /\ ReadPacket
    /\ \/ Waiting /\ Head(toClient).type \notin { "PUBLISH", AckOf(Top.op) }
       \/ calls = << >> /\ "yield" \in AppCalls /\ Head(toClient).type # "PUBLISH"
    /\ UNCHANGED << toBroker, handlers, nextPacketId, calls, confirmed >>

\* Mutant: the first packet that is read ends the wait.
ReadAnswerOfAnyType(op) ==
    /\ Waiting /\ Top.op = op
    /\ ReadPacket

\* The type of an acknowledgement is compared with what the request waits for,
\* its identifier is not.
ReadAnswer(op) ==
    /\ Waiting /\ Top.op = op
    /\ ReadPacket
    /\ Head(toClient).type = AckOf(op)

PublishAnswered ==
    /\ ReadAnswer("publish")
    /\ Return
    /\ UNCHANGED << toBroker, handlers, nextPacketId, confirmed >>

\* Mutant: the table of handlers is written one slot too far.
SubscribeAnsweredOffByOne ==
    /\ ReadAnswer("subscribe")
    /\ handlers' = [handlers EXCEPT ![(Top.n + 1) % NumHandlers] = Top.topic]
    /\ confirmed' = confirmed \cup { Top.topic }
    /\ Return
    /\ UNCHANGED << toBroker, nextPacketId >>

SubscribeAnswered ==
    /\ ReadAnswer("subscribe")
    /\ handlers' = [handlers EXCEPT ![Top.n] = Top.topic]
    /\ confirmed' = confirmed \cup { Top.topic }
    /\ Return
    /\ UNCHANGED << toBroker, nextPacketId >>

UnsubscribeAnswered ==
    /\ ReadAnswer("unsubscribe")
    /\ handlers' = [i \in Slots |->
                      IF handlers[i] = Top.topic THEN NoTopic ELSE handlers[i]]
    /\ confirmed' = confirmed \ { Top.topic }
    /\ Return
    /\ UNCHANGED << toBroker, nextPacketId >>

\* The command timer runs out; on a dead connection it always does.
CommandTimeout ==
    /\ Waiting
    /\ \/ ~up /\ UNCHANGED timeouts
       \/ up /\ timeouts < MaxTimeouts /\ timeouts' = timeouts + 1
    /\ Return
    /\ expired' = FALSE
    /\ UNCHANGED << up, toBroker, toClient, broker, handlers, nextPacketId, bufTopic,
                    confirmed, unacked, unsubscribed, requests, messages, drops,
                    refusals >>

-----------------------------------------------------------------------------
(* Delivery: the handlers are tried one after the other against the topic  *)
(* name where it lies in the read buffer                                   *)

DeliverMatch ==
    /\ InCall("deliver", "match")
    /\ Top.n \in Slots
    /\ IF handlers[Top.n] # NoTopic /\ handlers[Top.n] = bufTopic
       THEN Goto(Top.n, "callback")
       ELSE Goto(Top.n + 1, "match")
    /\ UNCHANGED << up, toBroker, toClient, broker, handlers, nextPacketId, bufTopic,
                    confirmed, marks, bounds >>

CallbackReturn ==
    /\ InCall("deliver", "callback")
    /\ Goto(Top.n + 1, "match")
    /\ UNCHANGED << up, toBroker, toClient, broker, handlers, nextPacketId, bufTopic,
                    confirmed, marks, bounds >>

\* A QoS 1 message is acknowledged with the identifier read on arrival.
DeliverDone ==
    /\ InCall("deliver", "match")
    /\ Top.n = NumHandlers
    /\ IF Top.id # 0 /\ up THEN Send(Packet("PUBACK", NoTopic, Top.id))
       ELSE UNCHANGED toBroker
    /\ Return
    /\ UNCHANGED << up, toClient, broker, handlers, nextPacketId, bufTopic,
                    confirmed, marks, bounds >>

\* The handlers have used up the time of the call that read the message:
\* send_packet sends nothing under a timer that has run out.  The call, when it
\* is a request, times out before it reads again; yield returns.
DeliverDoneLate ==
    /\ InCall("deliver", "match")
    /\ Top.n = NumHandlers
    /\ Top.id # 0 /\ up
    /\ Len(calls) > 1 => timeouts < MaxTimeouts
    /\ expired' = (Len(calls) > 1)
    /\ unacked' = unacked \cup { Top.id }
    /\ Return
    /\ UNCHANGED << up, toBroker, toClient, broker, handlers, nextPacketId, bufTopic,
                    confirmed, unsubscribed, bounds >>

-----------------------------------------------------------------------------
(* Reconnect: yield reconnects and subscribes again *)

\* Mutant: the last subscription is left out.
ReconnectAllButLast ==
    /\ ~up /\ calls = << >> /\ "yield" \in AppCalls
    /\ up' = TRUE
    /\ Enter(Call("resubscribe", NoTopic, 0, 0,
                  IF FreeIndex = 0 THEN 0 ELSE FreeIndex - 1, "send"))
    /\ UNCHANGED << toBroker, toClient, broker, handlers, nextPacketId, bufTopic,
                    confirmed, marks, bounds >>

\* Mutant: the handlers are counted, whichever slots they are in.
ReconnectCountingHandlers ==
    /\ ~up /\ calls = << >> /\ "yield" \in AppCalls
    /\ up' = TRUE
    /\ Enter(Call("resubscribe", NoTopic, 0, 0,
                  Cardinality({ i \in Slots : handlers[i] # NoTopic }), "send"))
    /\ UNCHANGED << toBroker, toClient, broker, handlers, nextPacketId, bufTopic,
                    confirmed, marks, bounds >>

\* The number of subscriptions is taken to be the first free index.
Reconnect ==
    /\ ~up /\ calls = << >> /\ "yield" \in AppCalls
    /\ up' = TRUE
    /\ Enter(Call("resubscribe", NoTopic, 0, 0, FreeIndex, "send"))
    /\ UNCHANGED << toBroker, toClient, broker, handlers, nextPacketId, bufTopic,
                    confirmed, marks, bounds >>

ResubscribeSend ==
    /\ InCall("resubscribe", "send")
    /\ \/ /\ Top.n < Top.count
          /\ nextPacketId' = NextPacketId
          /\ IF up
             THEN /\ Send(Packet("SUBSCRIBE", handlers[Top.n], NextPacketId))
                  /\ Goto(Top.n, "wait")
             ELSE Return /\ UNCHANGED toBroker
       \/ /\ Top.n = Top.count
          /\ Return
          /\ UNCHANGED << toBroker, nextPacketId >>
    /\ UNCHANGED << up, toClient, broker, handlers, bufTopic, confirmed, marks, bounds >>

ResubscribeAnswered ==
    /\ ReadAnswer("resubscribe")
    /\ Goto(Top.n + 1, "send")
    /\ UNCHANGED << toBroker, handlers, nextPacketId, confirmed >>

-----------------------------------------------------------------------------
(* The broker and the connection *)

Reply(packet) ==
    CASE packet.type = "SUBSCRIBE"   -> << Packet("SUBACK", NoTopic, packet.id) >>
      [] packet.type = "UNSUBSCRIBE" -> << Packet("UNSUBACK", NoTopic, packet.id) >>
      [] packet.type = "PUBLISH" /\ packet.id # 0
                                     -> << Packet("PUBACK", NoTopic, packet.id) >>
      [] OTHER                       -> << >>

BrokerReceive ==
    /\ toBroker # << >>
    /\ LET p == Head(toBroker)
       IN  /\ toBroker' = Tail(toBroker)
           /\ toClient' = toClient \o Reply(p)
           /\ brokerSubs' = CASE p.type = "SUBSCRIBE"   -> brokerSubs \cup { p.topic }
                              [] p.type = "UNSUBSCRIBE" -> brokerSubs \ { p.topic }
                              [] OTHER                  -> brokerSubs
           /\ awaiting' = IF p.type = "PUBACK" THEN awaiting \ { p.id } ELSE awaiting
           /\ acked' = IF p.type = "PUBLISH" /\ p.id # 0 THEN acked \cup { p.id } ELSE acked
    /\ UNCHANGED << up, handlers, nextPacketId, bufTopic, calls, confirmed, marks, bounds >>

\* A subscription is refused with the return code 0x80 of SUBACK, which the
\* client reads as a granted QoS and does not look at.
BrokerRefuse ==
    /\ toBroker # << >> /\ Head(toBroker).type = "SUBSCRIBE"
    /\ refusals < MaxRefusals
    /\ refusals' = refusals + 1
    /\ toBroker' = Tail(toBroker)
    /\ toClient' = toClient \o Reply(Head(toBroker))
    /\ UNCHANGED << up, broker, handlers, nextPacketId, bufTopic, calls, confirmed,
                    marks, requests, messages, timeouts, drops >>

\* A message on a subscribed topic, with QoS 0 or 1.
BrokerPublish(topic) ==
    /\ up /\ topic \in brokerSubs
    /\ messages < MaxMessages
    /\ messages' = messages + 1
    /\ \/ /\ toClient' = Append(toClient, Packet("PUBLISH", topic, 0))
          /\ UNCHANGED awaiting
       \/ /\ toClient' = Append(toClient, Packet("PUBLISH", topic, messages + 1))
          /\ awaiting' = awaiting \cup { messages + 1 }
    /\ UNCHANGED << up, toBroker, brokerSubs, acked, handlers, nextPacketId, bufTopic,
                    calls, confirmed, marks, requests, timeouts, drops, refusals >>

\* The connection is lost with everything on its way.  The session was clean,
\* so the broker forgets the subscriptions.
ConnectionLost ==
    /\ up /\ drops < MaxDrops
    /\ drops' = drops + 1
    /\ up' = FALSE
    /\ toBroker' = << >> /\ toClient' = << >>
    /\ brokerSubs' = {} /\ awaiting' = {} /\ unacked' = {}
    /\ UNCHANGED << acked, handlers, nextPacketId, bufTopic, calls, expired, confirmed,
                    unsubscribed, requests, messages, timeouts, refusals >>

-----------------------------------------------------------------------------
(* The specification *)

Init ==
    /\ up = TRUE
    /\ toBroker = << >> /\ toClient = << >>
    /\ brokerSubs = {} /\ awaiting = {} /\ acked = {}
    /\ handlers = [i \in Slots |-> NoTopic]
    /\ nextPacketId = 1
    /\ bufTopic = NoTopic
    /\ calls = << >>
    /\ expired = FALSE
    /\ confirmed = {} /\ unacked = {} /\ unsubscribed = FALSE
    /\ requests = 0 /\ messages = 0 /\ timeouts = 0 /\ drops = 0 /\ refusals = 0

Client ==
    \/ PublishQos0 \/ Publish
    \/ \E topic \in Topics : Subscribe(topic) \/ Unsubscribe(topic)
    \/ ReadMessage \/ ReadTooLong \/ ReadStray
    \/ PublishAnswered \/ SubscribeAnswered \/ UnsubscribeAnswered
    \/ CommandTimeout
    \/ DeliverMatch \/ CallbackReturn \/ DeliverDone \/ DeliverDoneLate
    \/ Reconnect \/ ResubscribeSend \/ ResubscribeAnswered

Network ==
    \/ BrokerReceive \/ BrokerRefuse
    \/ \E topic \in Topics : BrokerPublish(topic)
    \/ ConnectionLost

Next == Client \/ Network

Spec == Init /\ [][Next]_vars

-----------------------------------------------------------------------------
(* Properties *)

\* The variables have their types: packet identifiers wrap at their maximum and
\* skip 0, and no handler is put beyond the table.
TypeOK ==
    /\ up \in BOOLEAN
    /\ toBroker \in Seq(Packets) /\ toClient \in Seq(Packets)
    /\ brokerSubs \subseteq Topics \cup { NoTopic }
    /\ awaiting \subseteq 1..MaxMessages
    /\ acked \subseteq 1..MaxPacketId
    /\ handlers \in [Slots -> Topics \cup { NoTopic }]
    /\ nextPacketId \in 1..MaxPacketId
    /\ bufTopic \in Topics \cup { NoTopic }
    /\ calls \in Seq(CallFrames)
    /\ confirmed \subseteq Topics
    /\ unacked \subseteq 1..MaxMessages
    /\ expired \in BOOLEAN /\ unsubscribed \in BOOLEAN
    /\ requests \in 0..MaxRequests /\ messages \in 0..MaxMessages
    /\ timeouts \in 0..MaxTimeouts /\ drops \in 0..MaxDrops
    /\ refusals \in 0..MaxRefusals

\* "In the case of QoS 1 the function returns after the receipt of the PUBACK
\* control packet" (publish): a QoS 1 publish that returns SUCCESS has been
\* acknowledged by the broker, not some publish before it, as long as no
\* command has timed out.
PublishConfirmed == [][timeouts = 0 /\ PublishAnswered => Top.id \in acked]_vars

\* "subscribing to MQTT topics which will call a configurable callback function
\* when these topics are received": once subscribe has returned SUCCESS the
\* topic keeps a handler until it is unsubscribed, over refusals, timeouts and
\* reconnects and whatever handlers publish or unsubscribe meanwhile.  It fails
\* when handlers subscribe: the slot a subscribe has chosen is not reserved
\* while it waits, and a second one takes it too.
SubscriptionKept == confirmed \subseteq Handled

\* Between calls on a live connection the handler table and the broker agree:
\* every topic with a handler is subscribed, also after a reconnect, and every
\* subscribed topic has a handler.  Commands that timed out, subscriptions that
\* were refused and a reconnect after an unsubscribe, which leaves a gap in the
\* table, are left aside.
InSync ==
    /\ up /\ calls = << >>
    /\ timeouts = 0 /\ refusals = 0 /\ (drops = 0 \/ ~unsubscribed)
    => Handled = brokerSubs

\* Resubscribe sends each topic "that the client has active subscriptions on",
\* and never a slot that has been freed since it counted them, as long as no
\* command has timed out.
ResubscribeHasTopic ==
    timeouts = 0 /\ InCall("resubscribe", "send") /\ Top.n < Top.count =>
        handlers[Top.n] # NoTopic

\* A QoS 1 message is never forgotten and never acknowledged early: as long as
\* the broker waits for its PUBACK, the message is on its way to the client, or
\* being delivered, or its PUBACK is on its way, and only one of the three.  It
\* is none of them only after the two ways the client gives up a message: it
\* did not fit the read buffer, or its handlers outlasted the call's timer.
OnItsWay(id) == { i \in 1..Len(toClient) :
                    toClient[i].type = "PUBLISH" /\ toClient[i].id = id }

BeingDelivered(id) == { i \in 1..Len(calls) :
                          calls[i].op = "deliver" /\ calls[i].id = id }

BeingAcked(id) == { i \in 1..Len(toBroker) :
                      toBroker[i].type = "PUBACK" /\ toBroker[i].id = id }

MessageAccounted ==
    up => \A id \in awaiting :
            Cardinality(OnItsWay(id)) + Cardinality(BeingDelivered(id))
               + Cardinality(BeingAcked(id)) = IF id \in unacked THEN 0 ELSE 1

=============================================================================
