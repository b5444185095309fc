--------------------------- MODULE ShadowRecords ---------------------------
(***************************************************************************)
(* Thing Shadow actions: update, get and delete publish a request and wait *)
(* for a response on a pair of topics.  A list of waiting actions and a    *)
(* list of reference-counted topic subscriptions keep track of them.  The  *)
(* subscribe and unsubscribe calls made on the way read the network while  *)
(* they wait, so a response, or an application message whose handler       *)
(* starts another action, may be handled in the middle of an action: the   *)
(* calls in progress form a stack.                                         *)
(*                                                                         *)
(* A key is a thing name with an action; the payload of a message is its   *)
(* client token.  The MQTT client is represented by its table of message   *)
(* handlers, which holds pointers to the topic names kept here, and by the *)
(* broker's subscriptions.                                                 *)
(***************************************************************************)
EXTENDS Naturals, SequencesExt

CONSTANTS
    Keys,           \* pairs of a thing name and an action
    Tokens,         \* client tokens: one for every action
    AckSlots,       \* indexes of AckWaitList, 0 .. MAX_ACKS_... - 1
    SubSlots,       \* indexes of SubscriptionList
    HandlerSlots,   \* indexes of the MQTT client's messageHandlers
    Stickies,       \* values of isPersistentSubscribe the application uses, by key
    CallbacksAct,   \* do response callbacks start actions
    HandlersAct,    \* do handlers of other messages start actions
    MaxDepth,       \* bound: calls in progress when a callback starts an action
    MaxFailures,    \* bound: MQTT calls that fail on a working connection
    MaxConnects     \* bound: connects after the first one

None == "none"
NoSlot == 1000

Status == { "accepted", "rejected" }
Topics == Keys \X Status
NoTopic == << None, None >>

ASSUME ShadowAssumption ==
    /\ { MaxDepth, MaxFailures, MaxConnects } \subseteq Nat
    /\ { CallbacksAct, HandlersAct } \subseteq BOOLEAN
    /\ Stickies \in [Keys -> SUBSET BOOLEAN]
    /\ \E n \in 0..NoSlot : AckSlots = 0..(n - 1)
    /\ SubSlots \cup HandlerSlots \subseteq 0..(NoSlot - 1)
    /\ None \notin Keys \cup Tokens

VARIABLES
    ackWaitList,      \* isFree, client token and key of each waiting action
    subscriptionList, \* isFree, topic, count and isSticky of each subscription
    messageHandlers,  \* the subscription slot each handler's topicName points to
    brokerSubs,       \* the topics the broker has a subscription for
    pending,          \* requests the Shadow service has not answered
    expired,          \* AckWaitList entries whose timer has run out
    stack,            \* the calls in progress, innermost last
    tracked,          \* history: actions that returned SUCCESS
    callbacks,        \* history: how often each action's callback was called
    persistent,       \* history: keys with a persistent subscription
    used,             \* client tokens already taken
    failures, connects

records == << ackWaitList, subscriptionList >>
mqtt == << messageHandlers, brokerSubs >>
history == << tracked, callbacks, persistent >>
vars == << records, mqtt, pending, expired, stack, history, used, failures, connects >>

-----------------------------------------------------------------------------
(* Calls in progress *)

\* i: the AckWaitList entry; acc, rej: SubscriptionList entries; ret: the value
\* the action will return if nothing else goes wrong
Frame(op, pc, key, token, sticky, i, acc, rej, ret) ==
    [op |-> op, pc |-> pc, key |-> key, token |-> token, sticky |-> sticky,
     i |-> i, acc |-> acc, rej |-> rej, ret |-> ret]

Pcs == { "subscribe_accepted", "subscribe_rejected", "cleanup", "publish",
         "scan", "callback", "unsubscribe_accepted", "unsubscribe_rejected",
         "wait_accepted", "wait_rejected" }

Frames ==
    [op : { "action", "ack", "expire" }, pc : Pcs, key : Keys \cup { None },
     token : Tokens \cup { None }, sticky : BOOLEAN,
     i : AckSlots \cup { Cardinality(AckSlots) },
     acc : SubSlots \cup { NoSlot }, rej : SubSlots \cup { NoSlot },
     ret : { "SUCCESS", "FAILURE" }]

Top == Last(stack)

At(pc) == stack # << >> /\ Top.pc = pc

Push(frame) == stack' = Append(stack, frame)

Return == stack' = Front(stack)

\* The innermost call goes on with the fields of frame.
Continue(frame) == stack' = [stack EXCEPT ![Len(stack)] = frame]

Goto(pc) == Continue([Top EXCEPT !.pc = pc])

\* The MQTT client is reading the network: in yield, or for the answer to a
\* subscribe or unsubscribe.
Reading ==
    stack # << >> =>
        Top.pc \in { "subscribe_accepted", "subscribe_rejected", "cleanup",
                     "wait_accepted", "wait_rejected" }

-----------------------------------------------------------------------------
(* The lists *)

\* Mutant: any entry is taken for free.
FreeAcksUnchecked == AckSlots

FreeAcks == { i \in AckSlots : ackWaitList[i].free }
FreeSubs == { i \in SubSlots : subscriptionList[i].free }

\* findIndexOfSubscriptionList
Find(topic) ==
    LET found == { i \in SubSlots : ~subscriptionList[i].free
                                     /\ subscriptionList[i].topic = topic }
    IN  IF found = {} THEN NoSlot ELSE Min(found)

\* isSubscriptionPresent
IsSubscriptionPresent(key) == \A s \in Status : Find(<< key, s >>) # NoSlot

\* incrementSubscriptionCnt; count is a uint8_t
IncrementSubscriptionCnt(key, sticky) ==
    subscriptionList' =
        [i \in SubSlots |->
            LET r == subscriptionList[i]
            IN  IF ~r.free /\ r.topic \in { << key, s >> : s \in Status }
                THEN [r EXCEPT !.count = (@ + 1) % 256, !.sticky = sticky]
                ELSE r]

-----------------------------------------------------------------------------
(* The MQTT client: subscribe and unsubscribe, as their callers see them.  *)
(* A handler's topic is what its slot holds now.                           *)

HandlerTopic(h) ==
    IF messageHandlers[h] = NoSlot THEN NoTopic
    ELSE subscriptionList[messageHandlers[h]].topic

FreeHandlers == { h \in HandlerSlots : messageHandlers[h] = NoSlot }

\* The topics on which a response is really received.
Heard == brokerSubs \cap { HandlerTopic(h) : h \in HandlerSlots }

MqttSubscribe(slot) ==
    /\ FreeHandlers # {}
    /\ messageHandlers' = [messageHandlers EXCEPT ![Min(FreeHandlers)] = slot]
    /\ brokerSubs' = brokerSubs \cup { subscriptionList[slot].topic }
    /\ UNCHANGED failures

\* The table is full, or no SUBACK came in time, whatever the broker did.
MqttSubscribeFails(slot) ==
    /\ UNCHANGED messageHandlers
    /\ \/ FreeHandlers = {} /\ UNCHANGED << brokerSubs, failures >>
       \/ /\ FreeHandlers # {} /\ failures < MaxFailures
          /\ failures' = failures + 1
          /\ brokerSubs' \in { brokerSubs, brokerSubs \cup { subscriptionList[slot].topic } }

Subscribed(topic) == \E h \in HandlerSlots : HandlerTopic(h) = topic

MqttUnsubscribe(topic) ==
    /\ Subscribed(topic)
    /\ messageHandlers' = [h \in HandlerSlots |->
                             IF HandlerTopic(h) = topic THEN NoSlot ELSE messageHandlers[h]]
    /\ brokerSubs' = brokerSubs \ { topic }
    /\ UNCHANGED failures

MqttUnsubscribeFails(topic) ==
    /\ UNCHANGED messageHandlers
    /\ \/ ~Subscribed(topic) /\ UNCHANGED << brokerSubs, failures >>
       \/ /\ Subscribed(topic) /\ failures < MaxFailures
          /\ failures' = failures + 1
          /\ brokerSubs' \in { brokerSubs, brokerSubs \ { topic } }

-----------------------------------------------------------------------------
(* aws_iot_shadow_internal_action: update, get and delete with a callback  *)

\* The application between calls, a response callback, or the handler of
\* another message that arrives while the MQTT client waits.
MayAct ==
    stack # << >> =>
        /\ Len(stack) <= MaxDepth
        /\ (CallbacksAct /\ Top.pc = "callback") \/ (HandlersAct /\ Reading)

ActionRefused(token) ==
    /\ MayAct /\ token \notin used
    /\ FreeAcks = {}
    /\ used' = used \cup { token }
    /\ UNCHANGED << records, mqtt, pending, expired, stack, history, failures, connects >>

\* The response topics are already subscribed: one more action uses them.  The
\* AckWaitList entry is chosen here and taken only after the publish.
ActionShares(token, key, sticky) ==
    /\ MayAct /\ token \notin used
    /\ FreeAcks # {} /\ IsSubscriptionPresent(key)
    /\ used' = used \cup { token }
    /\ IncrementSubscriptionCnt(key, sticky)
    /\ Push(Frame("action", "publish", key, token, sticky, Min(FreeAcks),
                  NoSlot, NoSlot, "SUCCESS"))
    /\ UNCHANGED << ackWaitList, mqtt, pending, expired, history, failures, connects >>

\* subscribeToShadowActionAcks takes two entries and subscribes the first one.
ActionSubscribes(token, key, sticky) ==
    /\ MayAct /\ token \notin used
    /\ FreeAcks # {} /\ ~IsSubscriptionPresent(key)
    /\ Cardinality(FreeSubs) >= 2
    /\ LET acc == Min(FreeSubs)
           rej == Min(FreeSubs \ { acc })
       IN  /\ subscriptionList' =
                 [subscriptionList EXCEPT ![acc].free = FALSE, ![rej].free = FALSE,
                                          ![acc].topic = << key, "accepted" >>]
           /\ Push(Frame("action", "subscribe_accepted", key, token, sticky,
                         Min(FreeAcks), acc, rej, "SUCCESS"))
    /\ used' = used \cup { token }
    /\ UNCHANGED << ackWaitList, mqtt, pending, expired, history, failures, connects >>

\* Fewer than two entries are free.  The one that was taken is given back, its
\* old topic unsubscribed if its old count is one, and the action goes on as
\* if it had succeeded.  With none free the count of the entry before the first
\* is read; no handler has the topic that would be unsubscribed there.
ActionOutOfRecords(token, key, sticky) ==
    /\ MayAct /\ token \notin used
    /\ FreeAcks # {} /\ ~IsSubscriptionPresent(key)
    /\ Cardinality(FreeSubs) < 2
    /\ LET acc == IF FreeSubs = {} THEN NoSlot ELSE Min(FreeSubs)
           old == acc # NoSlot /\ subscriptionList[acc].count = 1
       IN  Push(Frame("action", IF old THEN "cleanup" ELSE "publish", key, token, sticky,
                      Min(FreeAcks), acc, NoSlot, "SUCCESS"))
    /\ used' = used \cup { token }
    /\ UNCHANGED << records, mqtt, pending, expired, history, failures, connects >>

SubscribedAccepted ==
    /\ At("subscribe_accepted")
    /\ MqttSubscribe(Top.acc)
    /\ subscriptionList' =
          [subscriptionList EXCEPT ![Top.acc].count = 1, ![Top.acc].sticky = Top.sticky,
                                   ![Top.rej].topic = << Top.key, "rejected" >>]
    /\ Goto("subscribe_rejected")
    /\ UNCHANGED << ackWaitList, pending, expired, history, used, connects >>

SubscribedRejected ==
    /\ At("subscribe_rejected")
    /\ MqttSubscribe(Top.rej)
    /\ subscriptionList' =
          [subscriptionList EXCEPT ![Top.rej].count = 1, ![Top.rej].sticky = Top.sticky]
    /\ Goto("publish")
    /\ UNCHANGED << ackWaitList, pending, expired, history, used, connects >>

\* Only the first entry is given back; its topic is unsubscribed if its count,
\* which may be an old one, is one.
SubscribeFailed ==
    /\ At("subscribe_accepted") \/ At("subscribe_rejected")
    /\ MqttSubscribeFails(IF Top.pc = "subscribe_accepted" THEN Top.acc ELSE Top.rej)
    /\ subscriptionList' = [subscriptionList EXCEPT ![Top.acc].free = TRUE]
    /\ IF subscriptionList[Top.acc].count = 1
       THEN Continue([Top EXCEPT !.pc = "cleanup", !.ret = "FAILURE"])
       ELSE Return
    /\ UNCHANGED << ackWaitList, pending, expired, history, used, connects >>

Cleanup ==
    /\ At("cleanup")
    /\ LET topic == subscriptionList[Top.acc].topic
       IN  MqttUnsubscribe(topic) \/ MqttUnsubscribeFails(topic)
    /\ IF Top.ret = "SUCCESS" THEN Goto("publish") ELSE Return
    /\ UNCHANGED << records, pending, expired, history, used, connects >>

\* publishToShadowAction, then addToAckWaitList with a new timer
Published ==
    /\ At("publish")
    /\ pending' = pending \cup { << Top.token, Top.key >> }
    /\ ackWaitList' = [ackWaitList EXCEPT
                         ![Top.i] = [free |-> FALSE, token |-> Top.token, key |-> Top.key]]
    /\ expired' = expired \ { Top.i }
    /\ tracked' = tracked \cup { Top.token }
    /\ persistent' = IF Top.sticky THEN persistent \cup { Top.key } ELSE persistent
    /\ Return
    /\ UNCHANGED << subscriptionList, mqtt, callbacks, used, failures, connects >>

PublishFailed ==
    /\ At("publish")
    /\ failures < MaxFailures
    /\ failures' = failures + 1
    /\ Return
    /\ UNCHANGED << records, mqtt, pending, expired, history, used, connects >>

-----------------------------------------------------------------------------
(* Responses and timeouts *)

\* AckStatusCallback looks for the client token among the waiting actions.
Response(token, key, status) ==
    /\ Reading
    /\ << token, key >> \in pending
    /\ pending' = pending \ { << token, key >> }
    /\ LET waiting == { i \in AckSlots : ~ackWaitList[i].free /\ ackWaitList[i].token = token }
       IN  IF << key, status >> \in Heard /\ waiting # {}
           THEN LET i == Min(waiting)
                IN  /\ Push(Frame("ack", "callback", key, token, FALSE,
                                  i, NoSlot, NoSlot, "SUCCESS"))
                    /\ callbacks' = [callbacks EXCEPT ![token] = @ + 1]
           ELSE UNCHANGED << stack, callbacks >>
    /\ UNCHANGED << records, mqtt, expired, tracked, persistent, used, failures, connects >>

\* aws_iot_shadow_yield runs HandleExpiredResponseCallbacks before it reads.
ShadowYield ==
    /\ stack = << >>
    /\ \E i \in AckSlots : ~ackWaitList[i].free
    /\ Push(Frame("expire", "scan", None, None, FALSE, 0, NoSlot, NoSlot, "SUCCESS"))
    /\ UNCHANGED << records, mqtt, pending, expired, history, used, failures, connects >>

\* Mutant: the scan ends at the first free entry.
ScanToFirstFree ==
    /\ At("scan")
    /\ IF Top.i \notin AckSlots
       THEN Return /\ UNCHANGED callbacks
       ELSE IF ackWaitList[Top.i].free
       THEN Return /\ UNCHANGED callbacks
       ELSE IF Top.i \in expired
       THEN /\ Goto("callback")
            /\ callbacks' = [callbacks EXCEPT ![ackWaitList[Top.i].token] = @ + 1]
       ELSE /\ Continue([Top EXCEPT !.i = @ + 1])
            /\ UNCHANGED callbacks
    /\ UNCHANGED << records, mqtt, pending, expired, tracked, persistent, used,
                    failures, connects >>

Scan ==
    /\ At("scan")
    /\ IF Top.i \notin AckSlots
       THEN Return /\ UNCHANGED callbacks
       ELSE IF ~ackWaitList[Top.i].free /\ Top.i \in expired
       THEN /\ Goto("callback")
            /\ callbacks' = [callbacks EXCEPT ![ackWaitList[Top.i].token] = @ + 1]
       ELSE /\ Continue([Top EXCEPT !.i = @ + 1])
            /\ UNCHANGED callbacks
    /\ UNCHANGED << records, mqtt, pending, expired, tracked, persistent, used,
                    failures, connects >>

\* Mutant: an expired entry is not freed.
CallbackReturnKeepingEntry ==
    /\ At("callback")
    /\ Continue([Top EXCEPT !.pc = "unsubscribe_accepted", !.key = ackWaitList[Top.i].key])
    /\ UNCHANGED << records, mqtt, pending, expired, history, used, failures, connects >>

\* An expired entry is free before its topics are unsubscribed, an answered one
\* only afterwards.  The topics are those of whatever the entry holds by now.
CallbackReturn ==
    /\ At("callback")
    /\ ackWaitList' = IF Top.op = "expire" THEN [ackWaitList EXCEPT ![Top.i].free = TRUE]
                      ELSE ackWaitList
    /\ Continue([Top EXCEPT !.pc = "unsubscribe_accepted", !.key = ackWaitList[Top.i].key])
    /\ UNCHANGED << subscriptionList, mqtt, pending, expired, history, used,
                    failures, connects >>

\* The entry an answered or expired action leaves: its topics are done.
EntryDone ==
    IF Top.op = "ack"
    THEN /\ ackWaitList' = [ackWaitList EXCEPT ![Top.i].free = TRUE]
         /\ Return
    ELSE /\ Continue([Top EXCEPT !.pc = "scan", !.i = @ + 1])
         /\ UNCHANGED ackWaitList

TopicDone(status) ==
    IF status = "accepted"
    THEN Goto("unsubscribe_rejected") /\ UNCHANGED ackWaitList
    ELSE EntryDone

\* unsubscribeFromAcceptedAndRejected, for one of the topics
ReleaseTopic(status) ==
    /\ At(IF status = "accepted" THEN "unsubscribe_accepted" ELSE "unsubscribe_rejected")
    /\ LET n == Find(<< Top.key, status >>)
           r == subscriptionList[n]
       IN  \/ /\ n # NoSlot
              /\ ~r.sticky /\ r.count = 1
              /\ Continue([Top EXCEPT
                   !.pc = IF status = "accepted" THEN "wait_accepted" ELSE "wait_rejected",
                   !.acc = n])
              /\ UNCHANGED records
           \/ /\ n # NoSlot
              /\ r.count > 1
              /\ subscriptionList' = [subscriptionList EXCEPT ![n].count = @ - 1]
              /\ TopicDone(status)
           \/ /\ n # NoSlot => r.count = 0 \/ (r.count = 1 /\ r.sticky)
              /\ TopicDone(status)
              /\ UNCHANGED subscriptionList
    /\ UNCHANGED << mqtt, pending, expired, history, used, failures, connects >>

\* Mutant: the record of an unsubscribed topic stays in the list.
UnsubscribedTopicOnly(status) ==
    /\ At(IF status = "accepted" THEN "wait_accepted" ELSE "wait_rejected")
    /\ MqttUnsubscribe(<< Top.key, status >>) \/ MqttUnsubscribeFails(<< Top.key, status >>)
    /\ UNCHANGED subscriptionList
    /\ TopicDone(status)
    /\ UNCHANGED << pending, expired, history, used, connects >>

UnsubscribedTopic(status) ==
    /\ At(IF status = "accepted" THEN "wait_accepted" ELSE "wait_rejected")
    /\ \/ /\ MqttUnsubscribe(<< Top.key, status >>)
          /\ subscriptionList' = [subscriptionList EXCEPT ![Top.acc].free = TRUE]
       \/ /\ MqttUnsubscribeFails(<< Top.key, status >>)
          /\ UNCHANGED subscriptionList
    /\ TopicDone(status)
    /\ UNCHANGED << pending, expired, history, used, connects >>

TimerExpires(i) ==
    /\ ~ackWaitList[i].free /\ i \notin expired
    /\ expired' = expired \cup { i }
    /\ UNCHANGED << records, mqtt, pending, stack, history, used, failures, connects >>

-----------------------------------------------------------------------------
(* aws_iot_shadow_connect, again after a disconnect: the records are       *)
(* initialized, the MQTT client's handlers are not; the session is clean   *)

ShadowConnect ==
    /\ stack = << >>
    /\ connects < MaxConnects
    /\ connects' = connects + 1
    /\ ackWaitList' = [i \in AckSlots |-> [ackWaitList[i] EXCEPT !.free = TRUE]]
    /\ subscriptionList' = [i \in SubSlots |->
          [subscriptionList[i] EXCEPT !.free = TRUE, !.count = 0, !.sticky = FALSE]]
    /\ brokerSubs' = {}
    /\ UNCHANGED << messageHandlers, pending, expired, stack, history, used, failures >>

-----------------------------------------------------------------------------
(* The specification *)

Init ==
    /\ ackWaitList = [i \in AckSlots |-> [free |-> TRUE, token |-> None, key |-> None]]
    /\ subscriptionList = [i \in SubSlots |->
          [free |-> TRUE, topic |-> NoTopic, count |-> 0, sticky |-> FALSE]]
    /\ messageHandlers = [h \in HandlerSlots |-> NoSlot]
    /\ brokerSubs = {}
    /\ pending = {} /\ expired = {}
    /\ stack = << >>
    /\ tracked = {} /\ callbacks = [t \in Tokens |-> 0] /\ persistent = {}
    /\ used = {} /\ failures = 0 /\ connects = 0

Application ==
    \E token \in Tokens :
        \/ ActionRefused(token)
        \/ \E key \in Keys : \E sticky \in Stickies[key] :
              \/ ActionShares(token, key, sticky)
              \/ ActionSubscribes(token, key, sticky)
              \/ ActionOutOfRecords(token, key, sticky)

\* The steps of the thread that is inside the library.
Library ==
    \/ SubscribedAccepted \/ SubscribedRejected \/ SubscribeFailed \/ Cleanup
    \/ Published \/ PublishFailed
    \/ Scan \/ CallbackReturn
    \/ \E status \in Status : ReleaseTopic(status) \/ UnsubscribedTopic(status)

Service ==
    \E token \in Tokens, key \in Keys, status \in Status : Response(token, key, status)

Next ==
    \/ Application \/ Library \/ Service
    \/ ShadowYield \/ ShadowConnect
    \/ \E i \in AckSlots : TimerExpires(i)

Spec == Init /\ [][Next]_vars

\* A call in progress goes on (the MQTT calls in it are bounded by a timer),
\* the application calls aws_iot_shadow_yield again and again, timers run out.
Fairness ==
    /\ WF_vars(Library)
    /\ WF_vars(ShadowYield)
    /\ \A i \in AckSlots : WF_vars(TimerExpires(i))

FairSpec == Spec /\ Fairness

-----------------------------------------------------------------------------
(* Properties *)

\* The variables have their types: counts of a subscription record stay in their
\* byte, and no call leaves an entry or a record outside its list.
TypeOK ==
    /\ ackWaitList \in [AckSlots -> [free : BOOLEAN, token : Tokens \cup { None },
                                     key : Keys \cup { None }]]
    /\ subscriptionList \in [SubSlots -> [free : BOOLEAN, topic : Topics \cup { NoTopic },
                                          count : 0..255, sticky : BOOLEAN]]
    /\ messageHandlers \in [HandlerSlots -> SubSlots \cup { NoSlot }]
    /\ brokerSubs \subseteq Topics \cup { NoTopic }
    /\ pending \subseteq Tokens \X Keys
    /\ expired \subseteq AckSlots
    /\ stack \in Seq(Frames)
    /\ tracked \subseteq Tokens
    /\ callbacks \in [Tokens -> Nat]
    /\ persistent \subseteq Keys
    /\ used \subseteq Tokens
    /\ failures \in 0..MaxFailures /\ connects \in 0..MaxConnects

\* "the callback that will be used to inform the caller of the response": an
\* action that returned SUCCESS waits in the list until its callback is called,
\* also when other actions are started while it is under way.
ActionTracked ==
    \A token \in tracked : callbacks[token] = 0 =>
        \E i \in AckSlots : ~ackWaitList[i].free /\ ackWaitList[i].token = token

\* "Informs if the action was Accepted/Rejected or Timed out" (the callback's
\* status): an action is reported once, as one of the three, also when its
\* response comes late.
CalledOnce == \A token \in Tokens : callbacks[token] <= 1

\* Both response topics of the actions that wait, and of the persistent keys.
Wanted ==
    LET waiting == { ackWaitList[i].key : i \in { n \in AckSlots : ~ackWaitList[n].free } }
    IN  (waiting \cup persistent) \X Status

\* "The update has to subscribe to two topics", "In case of timeout or if the
\* response is received, the subscription to shadow response topics are
\* un-subscribed from", and "if the persistent subscription is set to true then
\* the un-subscribe will not be done. The topics will always be listened to":
\* as long as no MQTT call has failed, persistent topics are heard at any time, and
\* whenever the library is not in the middle of a call, its own list, the MQTT
\* client's handlers and the broker all have the topics that are wanted, and no
\* other.
ListensExactly ==
    failures = 0 =>
        /\ persistent \X Status \subseteq Heard
        /\ stack = << >> =>
              /\ Heard = Wanted /\ brokerSubs = Wanted
              /\ { subscriptionList[i].topic : i \in { n \in SubSlots :
                     ~subscriptionList[n].free } } = Wanted
              /\ { HandlerTopic(h) : h \in { g \in HandlerSlots :
                     messageHandlers[g] # NoSlot } } = Wanted

\* "It also ensures the expired requests of Shadow actions are cleared and
\* Timeout callback is executed" (aws_iot_shadow_yield): the callback of every
\* action that returned SUCCESS is called in the end, answered or not.
ActionAnswered ==
    \A token \in Tokens : token \in tracked ~> callbacks[token] > 0

=============================================================================
