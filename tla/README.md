# A TLA+ model of the Trust Onboard device SDK

The repository is the AWS IoT device SDK for embedded C, with the Gemalto secure
element that holds the TLS keys of Twilio's Trust Onboard SIMs. These modules
model the part of it that decides whether a device gets into contact with its
broker and stays there: the secure element, the byte stream, the MQTT client and
the Thing Shadow layer above it. TLC checks the
modules on small instances; TLAPS proves most of the safety properties, and the two
refinements, for every instance.

## 1. Inventory

| Component | State | Operations | Talks to |
|---|---|---|---|
| MQTT session (`aws_iot_mqtt_client.c`, `_connect.c`, `_yield.c`) | `clientState`, auto-reconnect flag, ping and reconnect timers, network stack | connect, disconnect, attempt_reconnect, yield, autoreconnect_set_status | TLS port; application's disconnect handler |
| MQTT requests (`_publish.c`, `_subscribe.c`, `_unsubscribe.c`, `_common_internal.c`) | `messageHandlers`, `nextPacketId`, one read and one write buffer | publish, subscribe, unsubscribe, resubscribe, delivery of a received message | broker; application's message handlers |
| Wire codec (`_common_internal.c`, `_connect.c`) | the two buffers | remaining length, strings, send_packet, read_packet | TLS port |
| Shadow actions (`aws_iot_shadow_actions.c`, `_records.c`, `aws_iot_shadow.c`) | `AckWaitList`, `SubscriptionList` | update, get, delete, response callback, expiry, connect | MQTT requests; application's callbacks |
| Shadow deltas (`_records.c`, `aws_iot_shadow.c`) | `tokenTable`, `shadowJsonVersionNum`, two flags | register_delta, delta callback, version reset, discard switch | MQTT requests |
| Shadow JSON (`_shadow_json.c`, `_json_utils.c`) | none | building and parsing documents | jsmn |
| Linux ports (`platform/linux`) | TLS context, timers, mutexes | connect, read, write, destroy | mbedTLS, operating system |
| Secure element (`external_libs/gemalto/common`, `mbedtls`) | logical channel, selected applet, key containers | transmit of APDUs, MIAS signature and decryption, mbedTLS glue | modem or card reader |
| Modem and card access (`external_libs/gemalto/platform`) | serial line, PC/SC handles | AT+CSIM, SCardTransmit | hardware |

What is hard in this code:

* **One client, many callers.** Every API function checks `clientState`, moves it
  with a compare-and-set to a state of its own, works, and moves it back. The
  porting guide suggests a background thread for yield, so calls of several
  threads interleave between these accesses.
* **Calls inside calls.** A message that arrives while a request waits for its
  acknowledgement is delivered from within that wait, and its handler may call
  the API again. Calls form a stack, and everything a call read before it waited
  (a state, a free slot, a list entry, the topic in the read buffer) may be
  stale afterwards.
* **Answers without names.** An acknowledgement is matched by packet type only;
  commands time out and are tried again; the connection is lost and subscriptions
  are made again.
* **Two layers of bookkeeping.** The Shadow layer counts subscriptions whose
  topic names the MQTT client points to, and any of the MQTT calls in an action
  may fail.
* **Time.** Whether a silent connection is dead, slow or merely idle is decided
  from one timer and one flag, looked at when the application happens to yield;
  the back-off doubles an interval nobody has set if the first attempt was manual.
* **A stream in pieces.** A packet is read and written with several calls to
  mbedTLS, each bounded by a timer that may expire between two looks at it; after
  that both sides may disagree where a packet begins.
* **A card with few channels.** Each operation on the SIM opens a logical channel.
  An exchange may be lost before or after the card has obeyed, so client and card
  may disagree about channels, and what was read may have holes.

`PROJECT.json` lists the hazards at their lines.

## 2. Modules

| Module | Models |
|---|---|
| `ClientState` | the `ClientState` enumeration and the predicates the API functions use to admit a call |
| `MqttSession` | client state, TLS context and auto-reconnect under any number of threads with nested calls |
| `SessionProofs` | theorems about `MqttSession`: types, who owns the client state |
| `ConnectionProofs` | theorems about `MqttSession`: client state and TLS context, `Connection`, handlers, several threads |
| `KeepAlive` | pings, loss of the connection and back-off of one thread, with time in ticks |
| `KeepAliveProofs` | theorems about `KeepAlive` |
| `Connection` | the contract of one connection that `MqttSession` and `KeepAlive` implement |
| `MqttExchange` | packets between one client thread and the broker: identifiers, handler table, acknowledgements, delivery, resubscribe |
| `ExchangeProofs` | theorems about `MqttExchange`: messages, subscribes and publishes, handler table and broker, resubscribe |
| `ShadowRecords` | Shadow actions, their records and their callbacks |
| `ShadowProofs` | theorems about `ShadowRecords` |
| `ShadowDelta` | delta registration and document versions |
| `DeltaProofs` | theorems about `ShadowDelta` |
| `WireFormat` | remaining length, and the lengths of the packets the client sends |
| `PacketStream` | read_packet and send_packet over iot_tls_read and iot_tls_write |
| `StreamProofs` | theorems about `WireFormat` and `PacketStream` |
| `TopicFilter` | matching of a topic against a filter |
| `SecureElement` | applets, channels, files, key pairs and signatures of the SIM |
| `CardProofs` | theorems about `SecureElement` |
| `MCSession`, `MCKeepAlive`, `MCExchange`, `MCShadow`, `MCDelta`, `MCStream`, `MCSecureElement` | the instances TLC checks |

`PacketStream` extends `WireFormat`; `MCStream` adds `TopicFilter`. `MqttSession` and
`KeepAlive` extend `ClientState` and instantiate `Connection`. The layers are not
composed further: a call of the layer below appears in each module as the
outcomes it can have.

### MqttSession

`stack[t]` is the C call stack of thread `t`, reduced to the API functions: a frame
has the function (`op`), where it stands (`pc`), the client state it read on entry
(`saved`, the local variable `clientState` of the code) and its pending result
(`rc`). One step is one access to what threads share: a read or a
compare-and-set of the state (`SetClientState`, with the mutex in blocking mode),
or one exchange with the network. The two unconditional assignments of the code
(at the end of disconnect, and after the disconnect handler) are modelled as such,
as are the compare-and-sets whose results are ignored. A network exchange or a
timer may come out either way. A function that refuses a call on entry changes
nothing and is not a step. `tls` says whether the TLS context is usable: the
handshake sets it, disconnect clears it only if its packet could be sent, the
forced disconnect in yield always clears it. `appDisconnected` is a history
variable.

`Calls`, `CallbackCalls` and `HandlerCalls` say which functions the threads, the
message handlers and the disconnect handler call. `MaxDepth` bounds how deep
handlers nest; it is a bound of the model, the C stack has no such limit.

### KeepAlive

The same state machine as `MqttSession` for one thread without nested calls, with
the timers that module leaves open. `pingTimer`, `reconnectTimer` and `timer` (the time
given to yield) count down with `Tick`, which is enabled only where the code waits:
in a read, in the handlers of a message, in the spinning loop of a back-off, during a
connect, and while the application is away. The application is away for at most
`MaxAway` between two yields, and the handlers of one message take at most
`HandlerTime`: they run inside `cycle_read`, before keep_alive looks at its timer. The broker answers a ping within `MaxDelay`; messages may wait in front of
its answer, of which some cannot be used and end yield before its keep-alive
(`ReadUnusable`). A link is `up`, `dead` (silent, without an error) or `reset`. The
interval of the back-off starts with whatever the structure holds (`UnsetWaits`):
`aws_iot_mqtt_init` does not set it, and attempt_reconnect uses it.
`deadFor`, `silentFor`, `unread` (how long handlers and the application have kept an
answer that has arrived from being read), `attempts`, `waited` and `ownEpisode` are
history variables.

### Connection

Three variables: where the connection is in its life (`phase`), whether there is a TLS
context (`link`), and whether the application has closed it (`manual`). Open only without a
context and not against the application's will; open means a context; a
close is complete or undone; a lost connection gives up its context before
the next attempt. `PhaseOf` of `ClientState` maps client states to phases;
`ImplementsConnection` and `ImplementsManualConnection` are the refinements. The
manual part is claimed only of clients without auto-reconnect (section 6).

### MqttExchange

One thread, since the code says of its waiting that it is used "in single-threaded
mode". `calls` is the stack of requests and deliveries; `toBroker` and `toClient`
are the two directions of the TLS connection, in order and lossless until
`ConnectionLost`. The broker (external) acknowledges, refuses, sends messages and
forgets its subscriptions with the connection. A subscribe chooses its slot when
it starts and writes it when SUBACK arrives (`SubscribeAnswered`); an
acknowledgement that nobody waits for is read and dropped (`ReadStray`);
`bufTopic` is the part of `readBuf` that holds the topic of the message being
delivered, and `DeliverMatch` compares with it as the code does. A QoS 1 message is
acknowledged when its handlers have returned (`DeliverDone`), unless they have used up the timer
of the call that read it, under which `send_packet` sends nothing (`DeliverDoneLate`;
`expired` makes the call time out before it reads again); a message longer than the read buffer
is dropped without an acknowledgement (`ReadTooLong`). Payloads
and QoS 2 are left out, filters have no wildcards (`TopicFilter`); packet identifiers wrap at `MaxPacketId`.
History variables: `acked`, the identifiers whose last publish the broker has
acknowledged; `confirmed`, the topics whose subscribe has returned SUCCESS; `unacked`, the
messages the client has given up; `unsubscribed`, whether an unsubscribe was sent.
After a lost connection, `Reconnect` stands for the connect and the start of
resubscribe that yield or the application performs.

### ShadowRecords

A key stands for a thing name with an action, a client token for a document. The
MQTT client appears through its handler table, which points to the topic names in
`SubscriptionList` (so that reusing a record changes a handler's topic, as it does
in C), and through the broker's subscriptions; subscribe and unsubscribe are what
`_aws_iot_mqtt_internal_subscribe` and `_unsubscribe` do to them. While they wait,
a response may be handled or a handler may start another action, so the calls form
a stack here too. A response is delivered if both the broker and the handler table
have its topic; otherwise it is lost and the action's timer decides. The
`AckWaitList` entry is chosen at the start of an action and filled after its
publish, an expired entry is freed before its topics are unsubscribed and an
answered one afterwards, and a failed subscribe gives back one record of two: these
orders are the code's. The settling time after the subscribes has no effect on state.
With no record free, the code reads the entry at index -1; what is there is not
known, and no handler has its topic, so the unsubscribe it may lead to fails.

### ShadowDelta

The service (external) numbers the changes of the document and sends each version
as a delta and, to a client that acts on the shadow, as a response, in either
order and possibly more than once, as the header says of the discard switch. A
second thing may have a name that contains the device's own. `given` is a history
variable: the versions given to the callbacks since discarding was enabled or the version
reset.

### WireFormat, PacketStream and TopicFilter

A packet is its remaining length; of its bytes only those of the length are kept.
`inbound` and `pos` are the stream towards the client, `onWire` what has left it.
mbedTLS hands over any part of what it is asked for, asks to be called again, or
fails; a timer may expire before any look at it. `iot_tls_write` looks twice, and what
`ret` holds between its two looks is kept, the uninitialized value (`Unset`) too; the
sum is unsigned. `BufferEnd` is where in `readBuf` the bytes that are asked for end: what is
dropped begins at its start, the rest of a packet behind its header. The two directions share nothing and are described one at a
time. After a read that gave up in the middle of a packet the client takes the
next byte for a header; that is where the description ends, until `Reconnect`.
`WireFormat` has the encoder and the decoder for buffers (the decoder for streams is
part of `read_packet`), the length of each kind of packet and the test each
serializer makes against the size of the buffer.
`TopicFilter` has the loop over filter and topic as a recursive function, and a
definition level by level that it is compared with for all short filters and topics.

### SecureElement

A step is one exchange of a command and its answer. The card (external) keeps, for each
logical channel, the applet, whether the PIN was verified, the key and hash that
were set and how much of a signature it has handed out. An exchange is
answered, refused, or lost with the command obeyed or not; at most `MaxFaults` of
them fail. `applets` holds `_isSelected` and `_channel`, which need not agree with the
card. `op` is the operation of `mbedtls_se` in progress: it selects its applet
(`CloseFirst`, `OpenChannel`, `SelectApplet`, `Undo`), does its work and deselects it
(`Finish`). A file takes `Blocks` reads; a signature comes in `Parts` answers; MF gives
up at a failed block and MIAS passes over it; the list of key pairs is made once. A key pair has
the number in the low four bits of `kid`, of which there are `KidSpan` (16), less one; for a key
of a size other than 1024 and 2048 bits `kid` is not initialized and the number is any (`CidsOf`).
A search takes the last container with a number (`FirstOf`), since new ones go in front.
The C++ implementation of the glue is modelled. 61xx and 6Cxx are part of
an exchange, except for the parts of a signature.

## 3. Runs

| Run | Checks | Shows |
|---|---|---|
| `session_single` | `StackDiscipline`, `TlsClosedWhileDisconnected`, `ImplementsConnection` | One thread, whole API, handlers that call the whole API four calls deep: the client never stays in a state nobody owns, never leaks a TLS context, and keeps the contract of its connection: among other things it is never connected without one. |
| `session_callbacks` | `NoYieldDuringCallback`, `ImplementsManualConnection` | Without auto-reconnect: yield never runs under a handler, and a disconnect from anywhere is final. |
| `session_background` | `NotIdleMeansInProgress`, `OneReader`, `ImplementsConnection` | A yielding thread and two requesting ones, with and without auto-reconnect, as long as no message arrives. |
| `session_stuck` | `NotIdleMeansInProgress`, violated | The same with messages: the client ends up busy with nobody working. |
| `keep_alive` | `DeadNoticed`, `SilenceBounded`, `NoFalseAlarm`, `BackoffPaced`, `Reconnects`, `BackoffEnds`, `ImplementsConnection` | A dead connection is given up in bounded time, and a live one only when handlers and absences have kept the answer from being read for what it has left of the interval; the broker hears from the client in time; the back-off waits as long as it says, comes to an end, and finds a network that stays up. |
| `exchange_session` | `SubscriptionKept`, `InSync`, `MessageAccounted`, `ResubscribeHasTopic`, `PublishConfirmed` | Handlers that publish and unsubscribe in the middle of requests and of resubscribe, handlers that take too long, messages too long for the buffer, a timeout, a refusal and a lost connection: no confirmed subscription loses its handler, no message is acknowledged twice or early, and it is clear when one is not acknowledged at all. |
| `packet_stream` | `InStep`, `SentWhole`, `FitsBuffer`, `LengthsAgree`, `TopicsMatch` | Packets in pieces and of lengths on both sides of each boundary: both ends agree where a packet begins, no byte is left out or sent twice, none is written past the write buffer, and past the read buffer only by the header; encoder, decoder and matching agree with their definitions. |
| `packet_overrun` | `KeptPacketFits`, violated | A packet whose remaining length is less than the read buffer, but not with its header in front, is read past the end of it. |
| `shadow_actions` | `ListensExactly`, `ActionTracked`, `ActionAnswered` | Three actions on a persistent and an ordinary key, one MQTT call fails: every action ends in its callback; while no call has failed, the topics that are wanted are subscribed everywhere, and no other. |
| `shadow_reconnect` | `CalledOnce` | Nested actions, a failing call, a full handler table and a second connect: no action is reported twice. |
| `delta_order` | `DeltasInOrder` | Of repeated and reordered deltas the callbacks get no version twice and none after a newer one. |
| `secure_element` | `ReadyOnChannel`, `OpenBounded`, `SelectUnlessFull`, `SignatureWhole`, `ObjectWhole`, `KeysListed` | Up to two failed exchanges anywhere: commands go to a channel that is ready for them, channels are lost only to failures of opening and closing, signatures and files are whole, and a key is found under its number unless another container can have it. |

`StackDiscipline` has `NotIdleMeansInProgress` as its case of an empty stack, so the latter is
checked only where several threads run. Every module states the types of its
variables in `TypeOK`, which is proved for all of them.

Why `ResubscribeHasTopic` holds although handlers free slots while resubscribe
runs: a nested unsubscribe reads until its own UNSUBACK, and so consumes the SUBACK
resubscribe is waiting for, which ends it before it reaches the freed slot. That needs
the answers to come in the order of the requests, and so no timeout: section 6.

**Bounds.** The session runs have finite state without any bound but `MaxDepth`:
four levels let a handler run in a request in a handler in yield. Two topics and
two handler slots are enough for a hole, an overwritten slot and a full table;
four requests wrap the two identifiers, so that a publish may meet the answer to an
earlier one under its own, and leave room for a subscribe, an unsubscribe and two more in one
behaviour. Two `AckWaitList`
entries with three tokens give a full list, a shared key and reuse of an entry;
`shadow_reconnect` has five records (an odd number, so that one alone can be
free) and three handlers (too few for two keys). Three messages in flight are enough for a
delta, its response and one that overtakes both; three versions, for one that comes again
after a newer one. `keep_alive` has an interval (4) longer
than an answer, a handler and an absence together, so that it takes several of them to
make an answer late, a back-off of three attempts (1, 2, 4) and two packets in the inbox.
`packet_stream` has packets below, at and beyond the size of its buffers and on both sides of
the first two boundaries of the length, and up to `MaxPieces` pieces for each part that is asked for; the
boundaries beyond are in `LengthsAgree`. `secure_element` has two channels and two
faults, so that the card runs out of channels, a signature of three parts, so that one in the
middle can be lost, and five containers with numbers that repeat after four, among them one with a
key of an unknown size. `packet_overrun` has the instance of `packet_stream`.

**Deadlock** is checked for the session, the keep-alive, the packet stream, the deltas and the
secure element. The other instances stop
when their numbers of requests, messages and tokens are used up, or when a wait
would need one more timeout than the bound allows.

**Symmetry.** Topics, tokens and keys are only compared for equality. `shadow_actions`
has no symmetry: it checks liveness and treats its keys differently.

**Fairness.** `ShadowRecords!FairSpec`: a call in progress
goes on, since every MQTT call in it is bounded by the command timer; timers run
out; and the application calls `aws_iot_shadow_yield` again and again, which the
interface demands of it. `KeepAlive!FairSpec`: time passes (weak fairness of `Tick`), a
connect or yield in progress goes on (its reads are bounded by their timers), and the
application yields again and again. That last part is strong fairness of `Yield`,
because the application may also try to reconnect by itself, during which yield is not enabled.
Nothing is assumed of the service, the broker, the network or the
connection: `Reconnects` says what happens while the network stays up.

## 4. Proofs

All theorems are proved from the named assumptions on the constants (`SessionAssumption`,
`KeepAliveAssumption`, `ExchangeAssumption`, `StreamAssumption` and so on, which give types and ranges) and
from the hypotheses in the tables. A hypothesis limits how the application uses the client; section 6
says how the property fails without it. (The one exception: `SharedUseNotStuck` and `SharedUseContract` without
auto-reconnect, which TLC finds true with it too.) Nothing else is bounded: the numbers
of threads, topics, handlers, calls, faults, lost connections and ticks, and the depth of
nested calls, are arbitrary.

### The client state (`SessionProofs`, `ConnectionProofs`)

| Theorem | States | For |
|---|---|---|
| `TypeCorrect` | `TypeOK` | any client |
| `SingleThreadDiscipline`, `SingleThreadNotStuck` | `StackDiscipline`, `NotIdleMeansInProgress` | `OneThread` |
| `StateAndContextAgree`, `ContextReleased` | `LinkAgrees`, `TlsClosedWhileDisconnected` | `OneThread`, `HandlerSilent`: the disconnect handler calls nothing |
| `SingleThreadContract` | `ImplementsConnection` | the same |
| `HandlersKeepYieldOut` | `NoYieldDuringCallback` | the same, and message handlers do not connect |
| `ManualContractKept` | `ImplementsManualConnection` | the same as `SingleThreadContract`, without auto-reconnect |
| `SharedUseOneReader` | `OneReader` | `SharedUse`: any threads, of which one connects and yields and the others send requests, one at most unsubscribes, and no message arrives |
| `SharedUseNotStuck`, `SharedUseContract` | `NotIdleMeansInProgress`, `ImplementsConnection` | `SharedUse` without auto-reconnect |

`NotIdleMeansInProgress` (a busy state has a call in progress) is not inductive: it
says nothing of the states in which calls run. The strengthening is
`StackDiscipline`. It says who owns the client state. The state is quiescent or is
the one the innermost call has set (`StateOfTop`); what a call read on entry is
quiescent or owned by the call below it (`Below`), so that its restoring
compare-and-set hands the state back to a call that is still there; only the innermost
call may be between its check and its compare-and-set. Yield alone leaves the
state as it is when it has lost the connection, so `LostReported` adds that such a
result is held only by an innermost yield and only in a quiescent state. When the last
call returns, the owner of the state below it is nobody, and the state is
quiescent. The proof has one lemma per way a stack can change (`GotoKeeps`,
`PushKeeps`, `InvokeKeeps`, `ReturnKeeps`), and one per group of actions which
cites them. With two threads each stack alone still obeys the rules of its own
calls but the state belongs to either of them, and the theorem is false:
`session_stuck` is the counterexample.

`LinkAgrees` adds the TLS context: between the steps that set it up or give it up there is a
context just when the state says connected (`Settled`), and in those steps the innermost call
knows which of the two it has done already (`TopFits`). Who may have called whom (`Caller`), and what
a call that was not refused has read (`SavedFits`), are needed for the states calls return to. For the
refinement each step is first shown to be one of the steps of `LifeStep`, or none, and then each of
these to be a step of `Connection`. `CallbacksShielded` says that above a running handler the client
is in no state yield can be called or runs in; `StaysPlain`, that no call of a client without
auto-reconnect remembers a pending one; `StaysClosed`, that after a disconnect by the application
every yield in progress is on its way out. For several threads, `OneHolder` replaces ownership by
nesting: at most one call has made its compare-and-set, and `HeldByOne` says what state and context are
while it goes on. With auto-reconnect that is false, since the client is idle around resubscribe.

### Time (`KeepAliveProofs`)

`KeepAliveTypes`, `KeepsContract` (`ImplementsConnection`), `NeverAlarmed` (`NoFalseAlarm`),
`DeadIsNoticed` (`DeadNoticed`), `SilenceIsBounded` (`SilenceBounded`) and `BackoffIsPaced`
(`BackoffPaced`), for all intervals, delays, handler times, absences and messages.

The invariants have two layers. `Linked`, `Timed` and `Answers` tie the context to the state, bound the
timers where the code waits, and say that of an outstanding ping there is exactly one answer, under way
or in the inbox. On them rest four potentials, sums that no step increases: what is left of
the ping timer, with the time the application has taken itself (`unread`), covers the time until the answer is read (`Answered`); the time a connection has
been dead and the longest time until it is noticed stay within the bound (`Dying`); the same for the
time until the next ping (`Silent`); and what a back-off has waited is the sum of its intervals
(`Paced`). The last needs that 2^(n+1) is twice 2^n, of which the provers know nothing: lemma `Doubling`
counts the subsets of a set with and without one element.

### Packets (`ExchangeProofs`)

| Theorem | States | For |
|---|---|---|
| `ExchangeTypes` | `TypeOK` | any client |
| `MessagesAccounted` | `MessageAccounted` | any client |
| `SubscriptionsKept` | `SubscriptionKept` | `HandlersDoNotSubscribe` |
| `PublishesConfirmed` | `PublishConfirmed` | `HandlersDoNotPublish` (with QoS 1) |
| `ResubscribesTopics` | `ResubscribeHasTopic` | `HandlersDoNotSubscribe` |
| `SubscriptionsInSync` | `InSync` | `HandlersDoNotSubscribe` |

`Typed` is `TypeOK`, but for the marks of `MqttExchange`, with what the fields of a call hold at each of its places. `MessageAccounted`
counts places in three sequences, and needs only that identifiers of messages are handed out in turn
(`MessageIds`) and how many places a message is due in (`Due`). `Reserved` says that the slot a waiting subscribe has chosen is still free; that is
where handlers must not subscribe.

The others rest on `Matched`: while nothing has timed out, of each kind of acknowledgement no
more are under way or asked for than calls wait for. So an answer that is read belongs to a call in
progress, though perhaps not to the one that reads it. If handlers do not publish, only the
outermost call can wait for a PUBACK (`PublishOutermost`), and what is under way is its own (`OwnAnswers`).
`Ordered` says that a SUBACK comes before every UNSUBACK that was asked for while it was
awaited: a nested unsubscribe reads the SUBACK first. Hence `Intact`: the topics resubscribe has still
to send are there, or its answer is already lost to a call inside it and it will stop.

`InSync` speaks of the time between calls only. Its strengthening `Agree` says what the broker has in
the middle of them: the topics with a handler, apart from those a call is unsubscribing (`Settled`); while
a subscribe waits, these and the new topic once the broker has answered, unless the answer was lost
(`Added`); while resubscribe runs, the topics of the slots it has passed (`Restored`). `Packed`, that
handlers fill the table from its start, makes the first free slot the number of subscriptions; it
holds until an unsubscribe is sent (`unsubscribed`), which is why `InSync` stops when a reconnect
follows one.

### The byte stream (`StreamProofs`)

| Theorem | States | For |
|---|---|---|
| `DecodeEncoded` | `DecodeLen(WriteLen[n]) = n` | every n below `FourBytes` (2^28) |
| `FieldsAddUp` | the fields of a packet take as many bytes as its remaining length announces | every packet, with any number of topics |
| `StreamTypes` | `TypeOK` | any lengths, buffers and packets |
| `ReadsInStep` | `InStep` | the same |
| `SendsWhole` | `SentWhole` | the same |
| `BuffersFit` | `FitsBuffer` | a write buffer smaller than 2^28 (the SDK's have 512 bytes) |
| `LengthsAlwaysAgree` | `LengthsAgree` | packets of lengths below 2^28, the limit of MQTT |

What a recursive function computes is proved by taking the least number for which it fails. The bytes
of an encoded length are the remainders of a chain of quotients (`WriteLen`), and the decoder goes down the same chain;
that the chain ends at the fourth byte is where 2^28 comes from. The lengths of a packet with several
topics are folds over sets, in an order that is not known: the sum is the number of `Cells` of a table
with a column for each topic, which has no order.

The invariant `StreamInv` has a part for each direction. `ReadInv`: the client has not read beyond the end of the
packet it is in (`WithinPacket`), it knows how far it is (`InPlace`), and a call that returns without a timeout is at a boundary
(`AtBoundary`). The room behind the header (`AtBody`) and in a drop (`AtDrop`) is part of it. While it reads the length, the bytes that are left encode what is missing: if n is the length,
n is what has been decoded and the multiplier times that rest. `WriteInv`: what is on the wire of the present packet is
the bytes counted so far (`Counted`), and the count stays inside the buffer (`InBuffer`). `Filled` adds, for `FitsBuffer`, that each
serializer's test of the size covers what it writes.

### Shadow (`ShadowProofs`, `DeltaProofs`)

`ShadowTyped` (`TypeOK`) holds for any use: the counts of `SubscriptionList` stay in their byte and no call
leaves an entry outside its list. `ShadowCalledOnce` (`CalledOnce`) asks that response callbacks start
no actions; handlers of other messages may. Its invariant `OnceInv` follows one token through its life:
not published while its action is being started (`Started`), in one entry and one pending response
afterwards (`Unique`), and once reported in an entry only while the call that reported it is on the
stack (`Reported`). `ShadowActionTracked` (`ActionTracked`) asks that actions start between calls and that the
application does not connect again, which clears the list: then the entry an action has chosen stays
free for it (`Bottom`), and only entries of reported actions are freed (`Informed`).

`ShadowListensExactly` (`ListensExactly`) asks the same, that each key is used with a persistent subscription
always or never (`SteadyKeys`), and that there is room: a record and a handler for every response topic and
at most 255 waiting actions, since the count of a record is a byte (`Room`). These are the conditions of the
run `shadow_actions`; section 6 says what the code does without them. The proof has two layers.
`ControlInv` says of the calls in progress that all but the innermost one wait for an answer
(`Interrupted`), that no two are about the same entry (`ApartIn`), and that the keys of entries and calls are
persistent if they are used persistently (`CallsFit`, `EntriesFit`). From it follows which entries use a
topic (`Users`): a call that has subscribed and not released it, or an action that waits; each step adds or takes
away one user at most. `ListInv` then relates three lists to these users: the records that are taken and
subscribed are those of the topics that have a user or are persistent, one each and the first with its topic
(`RecordedIn`), every one has one handler and no other handler exists (`HandledIn`), and an ordinary record
counts its users (`CountedIn`). It also holds what a call remembers across its wait: the two records of an action
that is being started are not yet anyone's (`BegunIn`), and a topic that is being unsubscribed has no user but the
call (`ReleasingIn`). TLC checked both before they were proved, on the run's instance with a third entry.

`DeltaTypes` (`TypeOK`) and `DeltasStayInOrder` (`DeltasInOrder`) have
no hypotheses. `VersionCovers`: while old deltas are discarded nothing newer than the version number has
been delivered.

### The secure element (`CardProofs`)

`CardTypes` (`TypeOK`), `CommandsAreReady` (`ReadyOnChannel`), `ChannelsAccounted` (`OpenBounded`), `SelectSucceeds`
(`SelectUnlessFull`), `SignaturesWhole`, `ObjectsWhole` and `KeysAreListed`, without hypotheses: for any number of
channels, parts, blocks, containers, records and failed exchanges. `CardInv` has one part for each. An
operation knows at each place what it has done (`Control`); the open channels are the one in use
and those failures have cost (`Accounted`); the card and the client agree on the parts
of the signature that were sent (`InParts`); the blocks read are those before the next one
(`InBlocks`); the list is complete up to where the reading has come (`InList`). There may be more
containers than numbers: `KeysListed` says which of them are found.

### Only model-checked

* Liveness (`ActionAnswered`, `Reconnects`, `BackoffEnds`): the prover has no rules for fairness.
* `TopicsMatch`, for all filters and topics up to a length: the loop moves along two sequences at once and needs an
  induction over both, which is not attempted.
* `NotIdleMeansInProgress` and `ImplementsConnection` of several threads with auto-reconnect.

## 5. Not modelled

* The mutex in try-lock mode (`isBlockOnThreadLockEnabled` false), where any
  compare-and-set may be skipped, also one that restores the state.
* The lifetime of mbedTLS's structures: a read on a context that another thread has
  destroyed is an error of the exchange here, and undefined in C.
* The bytes of packets beyond the remaining length, and payloads. What a client makes of a stream
  it is out of step with.
* Shadow JSON documents: sequential text processing with snprintf and sscanf, without state.
  (`_shadow_json.c:133` computes the room that is left once and uses it
  for a key and for the value behind it.)
* Of the secure element: the basic channel, hashing on the card and change of the PIN, which
  `mbedtls_se` does not use, the code under `USE_GAT_RESPONSE`, and `NetInterface`.
* The modem and the card reader: pure I/O. What an exchange can come to is in
  `SecureElement`; `sendATCSIM`, which reads lines until one begins with the answer, may also never return.
* The delete handler of `aws_iot_shadow_connect`, whose topic name is a local array
  that is gone when the function has returned: what is compared later is undefined.
* mbedTLS, jsmn and CppUTest: third-party code. The sample is a sequence of API calls.

## 6. Where the properties stop

Some properties carry a condition, and some instances leave out a behaviour that the code
permits. Each of these is a place where the property fails in the model:

| Without this limit | this happens |
|---|---|
| `session_background`: the broker sends no messages | `session_stuck`; also a delivery inside one thread's publish restores yield's state while the handler of another thread's yield still runs |
| `session_background`: one thread connects | two threads pass connect's check together, the failed compare-and-set is ignored, and both set up TLS (`_connect.c:482`) |
| `session_background`: one thread unsubscribes | the second one's failed compare-and-set is answered by the reverse one, which succeeds under the first (`_unsubscribe.c:232`) |
| `OneReader`: no auto-reconnect | while yield reconnects, the client is idle before and after resubscribe; a request gets in and both threads read (`_yield.c:93`) |
| `session_callbacks`: no auto-reconnect | a handler disconnects during yield's resubscribe; yield reads the closed stack, sets `DISCONNECTED_ERROR` over `DISCONNECTED_MANUALLY` and reconnects (`_yield.c:69`) |
| `session_callbacks`: handlers do not connect | a handler that has disconnected and connected again may yield (`_yield.c:283`) |
| `session_single`: the disconnect handler calls nothing | a handler that reconnects, as the sample's does, has its new state overwritten: the client says disconnected with a live TLS context (`_yield.c:69`) |
| `session_background`, `session_single`: no property against it | attempt_reconnect leaves a client without auto-reconnect in the pending state, as its header says (`_connect.c:600`), and the next yield reconnects it; `_yield.c:276` says "Pending reconnect state is only set when auto-reconnect is enabled" |
| `PublishConfirmed`: no timeout | a late PUBACK completes the next publish (`_publish.c:230`) |
| `ResubscribeHasTopic`: no timeout | an unsubscribe in a handler times out during one wait of resubscribe; its late UNSUBACK completes another one before the SUBACK of the next wait, and frees a slot that resubscribe then sends (`_subscribe.c:349`); this takes four handlers and was met in the attempt to prove it |
| `PublishConfirmed`: handlers do not publish with QoS 1 | the nested publish takes the PUBACK of the outer one, since identifiers are not compared (`_publish.c:230`) |
| `InSync`: no timeout, no refusal | resubscribe ends at a late SUBACK; the return code of SUBACK is not looked at (`_subscribe.c:246`) |
| `InSync`: no reconnect after an unsubscribe | resubscribe takes the first free slot for the number of subscriptions, so those behind a freed slot are not made again (`_subscribe.c:349`), although `aws_iot_mqtt_client_interface.h:124` says "Called to resubscribe to the topics that the client has active subscriptions on." |
| `MessageAccounted`: two ways to give up a message | handlers that outlast the timer of the call that read the message leave it unacknowledged, since `send_packet` sends nothing under it (`_common_internal.c:292`), and so does a message longer than the read buffer (`_common_internal.c:385`); the broker may send both again |
| `exchange_session`: handlers do not subscribe | a nested subscribe takes the slot the outer one has chosen and is overwritten (`_subscribe.c:228`) |
| delivery: no property says which handlers are called | a handler that waits lets other packets into the read buffer, and the remaining handlers are compared with another topic (`_common_internal.c:483`) |
| `shadow_actions`: callbacks and handlers start no action | two actions take one `AckWaitList` entry (`_shadow_actions.c:50`), or an action counts itself into a record that is being freed (`_shadow_records.c:266`) |
| `ListensExactly`: a key is always used in the same way | an ordinary action takes away the persistence of the same key (`_shadow_records.c:396`), although `aws_iot_shadow_interface.h:189` says "if the persistent subscription is set to true then the un-subscribe will not be done. The topics will always be listened to." |
| `shadow_reconnect`: callbacks start no action | a response is handled while the timeout callback of the same action runs, which is reported twice (`_shadow_records.c:458`) |
| `ListensExactly`: no failed call | one record of two is given back (`_shadow_records.c:370`); a failed publish leaves its subscriptions (`_shadow_actions.c:67`) |
| `shadow_actions`: no second connect | waiting actions are forgotten without a timeout callback (`aws_iot_shadow.c:117`) |
| `ShadowDelta`: no property says that a registered callback is heard | the flag is set although the subscribe failed, or survives a connect with a clean session, and nothing is subscribed (`_shadow_records.c:116`) |
| `DeltasInOrder`: every delta has a version | one whose version cannot be read is given to the callbacks as it is (`_shadow_records.c:499`) |
| `ShadowDelta`: no property ties the version to the device's document | a response for a thing whose name contains the device's own raises it (`_shadow_records.c:172`) |
| `ShadowDelta`: no property says that a new delta is delivered | a response that overtakes its delta raises the version, and the delta looks old (`_shadow_records.c:173`), although `aws_iot_shadow_interface.h:260` says "One exception to this version tracking is that, the SDK will ignore the version from update/accepted topic." |
| `FitsBuffer`: the read buffer may be exceeded by the header | `packet_overrun` |
| `InStep`: no packet has stalled half-way | a timeout in the body or in an oversized packet is FAILURE or MQTT_RX_BUFFER_TOO_SHORT_ERROR, for which yield keeps the connection, and the next header is read from the middle of the packet; `_yield.c:207` has only "SSL read and write errors are terminal, connection must be closed and retried" |
| `SentWhole`: no timer that expires between the two looks of `iot_tls_write` | the last, a negative or an unset `ret` is added to the bytes written, so SUCCESS may be returned for bytes that were not sent (`network_mbedtls_wrapper.c:330`) |
| `SentWhole`: nothing about a send that fails | part of the packet is on the wire and the connection stays open (`_common_internal.c:293`) |
| `BuffersFit`, `LengthsAlwaysAgree`: below 2^28 | the encoder has no limit and writes a fifth byte, for which no room is asked (`_common_internal.c:61`) |
| `NoFalseAlarm`: handlers and absences count | keep_alive looks at its timer after every packet, so handlers of messages in front of the answer, or an application that stays away, make a live connection look dead (`_yield.c:130`) |
| `BackoffEnds`: the interval was set | after attempt_reconnect by hand the interval is what the structure happened to hold; 0 never grows, and the client tries for ever without a pause (`_yield.c:102`) |
| `ObjectWhole`: no failed exchange for MIAS | a block that cannot be read is passed over and the object returned with a hole (`MIAS.cpp:533`) |
| `KeysListed`: no failed exchange while the list was made | the list is kept for ever without what was missed (`MIAS.cpp:302`) |
| `KeysListed`: no other container can have the number | `kid` is not initialized for keys of other sizes, and its four bits repeat after sixteen containers; the last one with a number is found (`MIAS.cpp:343`) |
| `ObjectWhole`: the applet was selected | `ret` is not initialized in the two operations that read a file or an object, nor is the key pair in mbedtls_pk_parse_se: what they return is undefined |

Three simplifications make no difference to what is checked. In `ShadowRecords` a subscribe chooses
its slot when SUBACK arrives; `_subscribe.c:228` chooses it before. They differ only when actions nest
(`shadow_reconnect`), where the code may overwrite a handler: a lost handler loses responses, and `CalledOnce` is about
too many. In `MqttExchange` the delivery of a message does not fail
(`_common_internal.c:523`): its last compare-and-set fails only when another thread or a handler that
disconnects has changed the client state, and the module has one thread and handlers that only make requests. In `KeepAlive` the handlers of a message call nothing that waits.

Other places where the code does something a reader would not expect, and which the model
reproduces without a property against it: the stream decoder's cap of four length bytes
(`_common_internal.c:331`) never acts, since its counter is also the place for the number of bytes
read; the final length of a packet is one too large at the boundaries, and send_packet refuses
a packet that just fills the buffer, both on the safe side; wait_for_read goes on after a
TLS error until its timer ends. A wildcard stands for at least one
character: neither "+" nor "#" matches an empty level, and "a/#" does not match "a".
`Applet::deselect` returns whether the applet is still selected, while
`Applet.h` says "Returns true in case deselect was successful, false otherwise".

## 7. Plan

1. Done: client state machine; packet exchange; Shadow records; deltas; keep-alive and
   back-off; wire format, packet stream and topic filters; the secure element; the
   contract of one connection; and the proofs of section 4.
2. Proofs next: `TopicsMatch`.
3. Try-lock mode as a parameter of `SetClientState`.
