----------------------------- MODULE KeepAlive -----------------------------
(***************************************************************************)
(* The timed behaviour of yield: when a ping is sent, when the client      *)
(* decides that its connection is dead, and when it tries to connect       *)
(* again.  MqttSession leaves all of this to chance; here time is explicit *)
(* and the calls are those of one application thread that connects, yields *)
(* and does something else in between.                                     *)
(*                                                                         *)
(* A Timer is the number of ticks until it expires.  Time passes while the *)
(* application is elsewhere, while yield waits in a read, runs the handler *)
(* of a message or spins until its next attempt is due, and while a        *)
(* connect is under way; the other steps take no time.                     *)
(***************************************************************************)
EXTENDS ClientState, Integers, Sequences

CONSTANTS
    KeepAliveInterval,  \* clientData.keepAliveInterval
    YieldTime,          \* the timeout_ms the application passes to yield
    MinReconnectWait,   \* AWS_IOT_MQTT_MIN_RECONNECT_WAIT_INTERVAL
    MaxReconnectWait,   \* AWS_IOT_MQTT_MAX_RECONNECT_WAIT_INTERVAL
    ConnectTime,        \* bound: a connect takes at most this long
    HandlerTime,        \* bound: the handlers of one message take at most this long
    MaxAway,            \* bound: the application yields again within this time
    MaxDelay,           \* bound: a live broker answers a ping within this time
    MaxInbox,           \* bound: packets that wait to be read
    MaxUnusable,        \* bound: packets too long for the read buffer
    UnsetWaits          \* what currentReconnectWaitInterval holds after init

ASSUME KeepAliveAssumption ==
    /\ { KeepAliveInterval, MaxAway, MaxDelay, MaxInbox, MaxUnusable,
         ConnectTime, HandlerTime } \subseteq Nat
    /\ { YieldTime, MinReconnectWait } \subseteq Nat \ { 0 }
    /\ MaxReconnectWait \in Nat /\ MinReconnectWait <= MaxReconnectWait
    /\ UnsetWaits \subseteq Nat

VARIABLES
    clientState,        \* clientStatus.clientState
    autoReconnect,      \* clientStatus.isAutoReconnectEnabled
    isPingOutstanding,  \* clientStatus.isPingOutstanding
    pingTimer,          \* pingTimer
    reconnectTimer,     \* reconnectDelayTimer
    waitInterval,       \* clientData.currentReconnectWaitInterval
    pc,                 \* where the thread is
    timer,              \* the timer of yield; outside of it, the time since
    busy,               \* time left to the connect or the handler in progress
    link,               \* the connection: none, up, dead (silent) or reset
    network,            \* can a connection be made
    inbox,              \* packets that have arrived and are not read
    pong,               \* time until the broker's PINGRESP arrives, or NoPong
    unusable,           \* packets too long for the read buffer so far
    deadFor, silentFor, unread, attempts, waited, ownEpisode    \* history, see below

clientVars == << clientState, autoReconnect, isPingOutstanding, pingTimer,
                 reconnectTimer, waitInterval >>
netVars == << link, network, inbox, pong, unusable >>
history == << deadFor, silentFor, unread, attempts, waited, ownEpisode >>
vars == << clientVars, pc, timer, busy, netVars, history >>

NoPong == -1

Packets == { "PUBLISH", "PINGRESP", "UNUSABLE" }

Connected == IsClientConnected(clientState)

\* Mutant: the network stack is not destroyed.
NoLinkLeaking == UNCHANGED netVars

\* The packets of a connection go with it.
NoLink == link' = "none" /\ inbox' = << >> /\ pong' = NoPong /\ UNCHANGED << network, unusable >>

-----------------------------------------------------------------------------
(* The application.  connect and attempt_reconnect are in progress at pc    *)
(* "connect" and "attempt", yield everywhere else but at "app".            *)

Connect ==
    /\ pc = "app" /\ ValidForConnect(clientState)
    /\ pc' = "connect" /\ busy' = ConnectTime
    /\ UNCHANGED << clientVars, timer, netVars, history >>

AttemptReconnect ==
    /\ pc = "app" /\ ~Connected
    /\ pc' = "attempt" /\ busy' = ConnectTime
    /\ UNCHANGED << clientVars, timer, netVars, history >>

\* A yield of a client that is neither idle nor pending is refused.
Yield ==
    /\ pc = "app"
    /\ \/ clientState = "CONNECTED_IDLE" /\ clientState' = Busy("yield")
       \/ clientState = "PENDING_RECONNECT" /\ UNCHANGED clientState
    /\ pc' = "loop" /\ timer' = YieldTime
    /\ UNCHANGED << autoReconnect, isPingOutstanding, pingTimer, reconnectTimer,
                    waitInterval, busy, netVars, history >>

-----------------------------------------------------------------------------
(* connect and attempt_reconnect of the application *)

\* Mutant: the flag of the previous connection survives.
ConnectedAgainStillWaiting(state) ==
    /\ clientState' = state
    /\ pingTimer' = KeepAliveInterval
    /\ link' = "up" /\ UNCHANGED << isPingOutstanding, network, inbox, pong, unusable >>

\* CONNACK has arrived: the connection has no ping outstanding.
ConnectedAgain(state) ==
    /\ clientState' = state
    /\ isPingOutstanding' = FALSE
    /\ pingTimer' = KeepAliveInterval
    /\ link' = "up" /\ UNCHANGED << network, inbox, pong, unusable >>

NewEpisode ==
    deadFor' = 0 /\ silentFor' = 0 /\ unread' = 0 /\ attempts' = 0 /\ waited' = 0

ConnectSucceeds ==
    /\ pc \in { "connect", "attempt" } /\ network
    /\ ConnectedAgain("CONNECTED_IDLE")
    /\ pc' = "app" /\ timer' = 0
    /\ NewEpisode /\ ownEpisode' = FALSE
    /\ UNCHANGED << autoReconnect, reconnectTimer, waitInterval, busy >>

\* attempt_reconnect leaves the client pending, and the interval as it was.
ConnectFails ==
    /\ pc \in { "connect", "attempt" } /\ ~network
    /\ clientState' = IF pc = "attempt" THEN "PENDING_RECONNECT" ELSE "DISCONNECTED_ERROR"
    /\ pc' = "app" /\ timer' = 0
    /\ NewEpisode /\ ownEpisode' = FALSE
    /\ UNCHANGED << autoReconnect, isPingOutstanding, pingTimer, reconnectTimer,
                    waitInterval, busy, netVars >>

-----------------------------------------------------------------------------
(* yield *)

\* yield returns.  A lost connection keeps its state.
Leave(state) ==
    /\ pc' = "app" /\ timer' = 0
    /\ clientState' = IF state = Busy("yield") THEN "CONNECTED_IDLE" ELSE state

\* handle_disconnect, and what yield makes of NETWORK_DISCONNECTED_ERROR: with
\* auto-reconnect a back-off starts and yield goes on.
LoseConnection ==
    /\ IF autoReconnect
       THEN /\ clientState' = "PENDING_RECONNECT"
            /\ waitInterval' = MinReconnectWait
            /\ reconnectTimer' = MinReconnectWait
            /\ pc' = "again"
            /\ UNCHANGED timer
       ELSE /\ Leave("DISCONNECTED_ERROR")
            /\ UNCHANGED << reconnectTimer, waitInterval >>
    /\ NewEpisode /\ ownEpisode' = autoReconnect
    /\ NoLink
    /\ UNCHANGED << autoReconnect, isPingOutstanding, pingTimer, busy >>

\* The top of the loop: a client that is not pending reads.
LoopRead ==
    /\ pc = "loop" /\ clientState # "PENDING_RECONNECT"
    /\ pc' = "read"
    /\ UNCHANGED << clientVars, timer, busy, netVars, history >>

\* Mutant: the maximum itself is already too long.
LoopGiveUpAtMaximum ==
    /\ pc = "loop" /\ clientState = "PENDING_RECONNECT"
    /\ MaxReconnectWait <= waitInterval
    /\ Leave(clientState)
    /\ UNCHANGED << autoReconnect, isPingOutstanding, pingTimer, reconnectTimer,
                    waitInterval, busy, netVars, history >>

\* NETWORK_RECONNECT_TIMED_OUT_ERROR: no more attempts, and no change of state.
LoopGiveUp ==
    /\ pc = "loop" /\ clientState = "PENDING_RECONNECT"
    /\ MaxReconnectWait < waitInterval
    /\ Leave(clientState)
    /\ UNCHANGED << autoReconnect, isPingOutstanding, pingTimer, reconnectTimer,
                    waitInterval, busy, netVars, history >>

\* Mutant: a look at the timer starts it again.
ReconnectTooEarlyRestarting ==
    /\ pc = "loop" /\ clientState = "PENDING_RECONNECT"
    /\ waitInterval <= MaxReconnectWait /\ reconnectTimer > 0
    /\ reconnectTimer' = waitInterval
    /\ pc' = "again"
    /\ UNCHANGED << clientState, autoReconnect, isPingOutstanding, pingTimer,
                    waitInterval, timer, busy, netVars, history >>

\* handle_reconnect: it is too early, or the next attempt starts.
ReconnectTooEarly ==
    /\ pc = "loop" /\ clientState = "PENDING_RECONNECT"
    /\ waitInterval <= MaxReconnectWait /\ reconnectTimer > 0
    /\ pc' = "again"
    /\ UNCHANGED << clientVars, timer, busy, netVars, history >>

HandleReconnect ==
    /\ pc = "loop" /\ clientState = "PENDING_RECONNECT"
    /\ waitInterval <= MaxReconnectWait /\ reconnectTimer = 0
    /\ pc' = "reconnect" /\ busy' = ConnectTime
    /\ attempts' = IF ownEpisode THEN attempts + 1 ELSE attempts
    /\ UNCHANGED << clientVars, timer, netVars, deadFor, silentFor, unread, waited,
                    ownEpisode >>

\* Connected and subscribed again.
Reconnected ==
    /\ pc = "reconnect" /\ network
    /\ ConnectedAgain(Busy("yield"))
    /\ pc' = "again"
    /\ NewEpisode /\ ownEpisode' = FALSE
    /\ UNCHANGED << autoReconnect, reconnectTimer, waitInterval, timer, busy >>

\* Mutant: the interval grows by the minimum instead.
DoubleIntervalLinear ==
    /\ waitInterval' = waitInterval + MinReconnectWait
    /\ reconnectTimer' = IF MaxReconnectWait < waitInterval'
                         THEN reconnectTimer ELSE waitInterval'

\* The interval doubles after every attempt that is not complete; beyond the
\* maximum the delay is not started any more.
DoubleInterval ==
    /\ waitInterval' = 2 * waitInterval
    /\ reconnectTimer' = IF MaxReconnectWait < waitInterval'
                         THEN reconnectTimer ELSE waitInterval'

\* The physical layer is down, or connect failed.
ReconnectFails ==
    /\ pc = "reconnect" /\ ~network
    /\ DoubleInterval
    /\ pc' = "again"
    /\ UNCHANGED << clientState, autoReconnect, isPingOutstanding, pingTimer, timer,
                    busy, netVars, history >>

\* Connected, but not all topics are subscribed: the client is idle within
\* yield, and the interval has doubled all the same.
ReconnectedPartly ==
    /\ pc = "reconnect" /\ network
    /\ ConnectedAgain("CONNECTED_IDLE")
    /\ DoubleInterval
    /\ pc' = "again"
    /\ NewEpisode /\ ownEpisode' = FALSE
    /\ UNCHANGED << autoReconnect, timer, busy >>

PingAnswered ==
    /\ isPingOutstanding' = FALSE
    /\ pingTimer' = KeepAliveInterval

\* Mutant: every packet counts as a sign of life.
ReadPacketRestartingTimer ==
    /\ pc = "read" /\ inbox # << >> /\ Head(inbox) # "UNUSABLE"
    /\ inbox' = Tail(inbox)
    /\ PingAnswered
    /\ unread' = 0
    /\ IF Head(inbox) = "PINGRESP"
       THEN pc' = "keep_alive" /\ UNCHANGED busy
       ELSE pc' = "handler" /\ busy' = HandlerTime
    /\ UNCHANGED << clientState, autoReconnect, reconnectTimer, waitInterval, timer,
                    link, network, pong, unusable, deadFor, silentFor, attempts, waited,
                    ownEpisode >>

\* cycle_read: one packet.  The handlers of a message run before keep_alive.
ReadPacket ==
    /\ pc = "read" /\ inbox # << >> /\ Head(inbox) # "UNUSABLE"
    /\ inbox' = Tail(inbox)
    /\ IF Head(inbox) = "PINGRESP"
       THEN PingAnswered /\ pc' = "keep_alive" /\ unread' = 0 /\ UNCHANGED busy
       ELSE pc' = "handler" /\ busy' = HandlerTime
            /\ UNCHANGED << isPingOutstanding, pingTimer, unread >>
    /\ UNCHANGED << clientState, autoReconnect, reconnectTimer, waitInterval, timer,
                    link, network, pong, unusable, deadFor, silentFor, attempts, waited,
                    ownEpisode >>

HandlerReturns ==
    /\ pc = "handler"
    /\ pc' = "keep_alive" /\ busy' = 0
    /\ UNCHANGED << clientVars, timer, netVars, history >>

\* A packet that cannot be used ends yield before its keep-alive.
ReadUnusable ==
    /\ pc = "read" /\ inbox # << >> /\ Head(inbox) = "UNUSABLE"
    /\ inbox' = Tail(inbox)
    /\ Leave(clientState)
    /\ UNCHANGED << autoReconnect, isPingOutstanding, pingTimer, reconnectTimer,
                    waitInterval, busy, link, network, pong, unusable, history >>

\* Nothing came until the time given to yield was over.
ReadNothing ==
    /\ pc = "read" /\ inbox = << >> /\ link # "reset" /\ timer = 0
    /\ pc' = "keep_alive"
    /\ UNCHANGED << clientVars, timer, busy, netVars, history >>

\* The TLS layer reports a broken connection.
ReadError ==
    /\ pc = "read" /\ inbox = << >> /\ link = "reset"
    /\ LoseConnection

\* keep_alive: nothing is due,
NothingDue ==
    /\ pc = "keep_alive"
    /\ KeepAliveInterval = 0 \/ pingTimer > 0
    /\ pc' = "again"
    /\ UNCHANGED << clientVars, timer, busy, netVars, history >>

\* or the last ping has not been answered,
PingOverdue ==
    /\ pc = "keep_alive" /\ KeepAliveInterval > 0 /\ pingTimer = 0
    /\ isPingOutstanding
    /\ LoseConnection

\* Mutant: the ping is not remembered.
PingSentForgotten ==
    /\ pingTimer' = KeepAliveInterval
    /\ UNCHANGED isPingOutstanding

PingSent ==
    /\ isPingOutstanding' = TRUE
    /\ pingTimer' = KeepAliveInterval

\* or a ping is sent,
SendPing ==
    /\ pc = "keep_alive" /\ KeepAliveInterval > 0 /\ pingTimer = 0
    /\ ~isPingOutstanding /\ link # "reset"
    /\ PingSent
    /\ pong' = IF link = "up" THEN MaxDelay ELSE NoPong
    /\ silentFor' = 0 /\ unread' = 0
    /\ pc' = "again"
    /\ UNCHANGED << clientState, autoReconnect, reconnectTimer, waitInterval, timer,
                    busy, link, network, inbox, unusable, deadFor, attempts, waited,
                    ownEpisode >>

\* which may fail on a connection that is not up any more.
SendPingFails ==
    /\ pc = "keep_alive" /\ KeepAliveInterval > 0 /\ pingTimer = 0
    /\ ~isPingOutstanding /\ link # "up"
    /\ LoseConnection

\* The loop condition.
Again ==
    /\ pc = "again" /\ timer > 0
    /\ pc' = "loop"
    /\ UNCHANGED << clientVars, timer, busy, netVars, history >>

YieldReturns ==
    /\ pc = "again" /\ timer = 0
    /\ Leave(clientState)
    /\ UNCHANGED << autoReconnect, isPingOutstanding, pingTimer, reconnectTimer,
                    waitInterval, busy, netVars, history >>

-----------------------------------------------------------------------------
(* The broker and the network *)

Arrive(packet) ==
    /\ link = "up" /\ Len(inbox) < MaxInbox
    /\ inbox' = Append(inbox, packet)

Publish ==
    /\ Arrive("PUBLISH")
    /\ UNCHANGED << clientVars, pc, timer, busy, link, network, pong, unusable, history >>

PublishUnusable ==
    /\ unusable < MaxUnusable
    /\ Arrive("UNUSABLE")
    /\ unusable' = unusable + 1
    /\ UNCHANGED << clientVars, pc, timer, busy, link, network, pong, history >>

\* The answer to a ping is not lost for want of room.
PingResp ==
    /\ pong # NoPong /\ link = "up"
    /\ inbox' = Append(inbox, "PINGRESP")
    /\ pong' = NoPong
    /\ UNCHANGED << clientVars, pc, timer, busy, link, network, unusable, history >>

LinkFails ==
    /\ link = "up"
    /\ link' \in { "dead", "reset" }
    /\ pong' = NoPong
    /\ UNCHANGED << clientVars, pc, timer, busy, network, inbox, unusable, history >>

NetworkChanges ==
    /\ network' = ~network
    /\ UNCHANGED << clientVars, pc, timer, busy, link, inbox, pong, unusable, history >>

-----------------------------------------------------------------------------
(* Time *)

\* yield spins: its loop has nothing to do until a timer expires.
Spinning ==
    /\ pc \in { "loop", "again" } /\ clientState = "PENDING_RECONNECT"
    /\ waitInterval <= MaxReconnectWait /\ reconnectTimer > 0 /\ timer > 0

Waiting == pc = "read" /\ inbox = << >> /\ link # "reset" /\ timer > 0

\* Away from a client that needs no yield, the application may stay for ever;
\* timer then stays at its bound.
Away == pc = "app" /\ (timer < MaxAway \/ ~Connected)

Connecting == pc \in { "connect", "attempt", "reconnect" } /\ busy > 0

Handling == pc = "handler" /\ busy > 0

Down(n) == IF n > 0 THEN n - 1 ELSE 0

\* the longest a back-off can last, for the cap of the history
LongestWait == 2 * MaxReconnectWait

Tick ==
    /\ Spinning \/ Waiting \/ Away \/ Connecting \/ Handling
    /\ pong # 0
    /\ pingTimer' = Down(pingTimer)
    /\ reconnectTimer' = Down(reconnectTimer)
    /\ pong' = IF pong > 0 THEN pong - 1 ELSE pong
    /\ timer' = IF pc # "app" THEN Down(timer)
                ELSE IF timer < MaxAway THEN timer + 1 ELSE timer
    /\ busy' = Down(busy)
    /\ deadFor' = IF link = "dead" /\ Connected THEN deadFor + 1 ELSE deadFor
    /\ silentFor' = IF link = "up" /\ Connected THEN silentFor + 1 ELSE silentFor
    /\ unread' = IF link = "up" /\ isPingOutstanding /\ pong = NoPong
                    /\ pc \in { "app", "handler" }
                 THEN unread + 1 ELSE unread
    /\ waited' = IF ownEpisode /\ pc # "reconnect" /\ waited < LongestWait
                 THEN waited + 1 ELSE waited
    /\ UNCHANGED << clientState, autoReconnect, isPingOutstanding, waitInterval, pc,
                    link, network, inbox, unusable, attempts, ownEpisode >>

-----------------------------------------------------------------------------
(* The specification *)

\* aws_iot_mqtt_init sets neither the interval nor, beyond "expired", a timer.
Init ==
    /\ clientState = "INITIALIZED"
    /\ autoReconnect \in BOOLEAN
    /\ isPingOutstanding = FALSE
    /\ pingTimer = 0 /\ reconnectTimer = 0
    /\ waitInterval \in UnsetWaits
    /\ pc = "app" /\ timer = 0 /\ busy = 0
    /\ link = "none" /\ network = TRUE
    /\ inbox = << >> /\ pong = NoPong /\ unusable = 0
    /\ deadFor = 0 /\ silentFor = 0 /\ unread = 0 /\ attempts = 0 /\ waited = 0
    /\ ownEpisode = FALSE

ConnectStep == ConnectSucceeds \/ ConnectFails

YieldStep ==
    \/ LoopRead \/ LoopGiveUp \/ ReconnectTooEarly \/ HandleReconnect
    \/ Reconnected \/ ReconnectFails \/ ReconnectedPartly
    \/ ReadPacket \/ HandlerReturns \/ ReadUnusable \/ ReadNothing \/ ReadError
    \/ NothingDue \/ PingOverdue \/ SendPing \/ SendPingFails
    \/ Again \/ YieldReturns

Environment ==
    \/ Publish \/ PublishUnusable \/ PingResp \/ LinkFails \/ NetworkChanges

Next == Connect \/ AttemptReconnect \/ Yield \/ ConnectStep \/ YieldStep
        \/ Environment \/ Tick

Spec == Init /\ [][Next]_vars

\* Time passes, the calls go on (a connect is bounded by its timers), and the
\* application yields again and again, as the interface demands of it.
Fairness == WF_vars(Tick) /\ WF_vars(ConnectStep \/ YieldStep) /\ SF_vars(Yield)

FairSpec == Spec /\ Fairness

-----------------------------------------------------------------------------
(* Properties *)

\* The variables have their types.  A timer never runs longer than the interval
\* it is started with, and the back-off never starts one beyond its maximum.
TypeOK ==
    /\ clientState \in ClientStates
    /\ { autoReconnect, isPingOutstanding, network, ownEpisode } \subseteq BOOLEAN
    /\ pc \in { "app", "connect", "attempt", "loop", "reconnect", "read",
                "handler", "keep_alive", "again" }
    /\ pingTimer \in 0..KeepAliveInterval
    /\ reconnectTimer \in 0..MaxReconnectWait
    /\ { timer, busy, waitInterval, deadFor, silentFor, unread, attempts, waited }
       \subseteq Nat
    /\ link \in { "none", "up", "dead", "reset" }
    /\ inbox \in Seq(Packets)
    /\ pong \in 0..MaxDelay \cup { NoPong }
    /\ unusable \in 0..MaxUnusable

\* An application that yields for YieldTime and stays away for MaxAway lets the
\* client look at its keep-alive at least this often: the last message that a
\* yield reads may keep it beyond its time.
Round == YieldTime + HandlerTime + MaxAway

\* What a packet that is read may cost: the time of its handler, and the time
\* until the next yield if it was the last of its yield.
Delay == HandlerTime + MaxAway

\* "Defines inactivity time allowed before determining the connection has been
\* lost" (keepAliveIntervalInSec): a connection that goes silent without an
\* error is given up after two intervals, one until the ping and one until it
\* counts as unanswered, each lengthened by the round it has to wait for.  The
\* packets that had arrived before, an answer among them, are still read first.
DeadNoticed ==
    KeepAliveInterval > 0 =>
        deadFor <= 2 * (KeepAliveInterval + Round) + (1 + MaxInbox) * Delay

\* A broker hears from a live client in time: the interval starts again with
\* the answer to a ping, so the silence may also last as long as that takes, on
\* its way and behind the messages that wait in front of it.
SilenceBounded ==
    KeepAliveInterval > 0 =>
        silentFor <= KeepAliveInterval + MaxDelay + (1 + MaxInbox) * Delay
                     + (1 + MaxUnusable) * Round

\* A live connection is taken for dead only because of the application: its
\* handlers and its absence, together, have kept the broker's answer from being
\* read for all that the answer itself has left of the interval.  The time yield
\* is given never adds to it, however long it waits in its reads and however many
\* messages and unusable packets it reads in front of the answer.
NoFalseAlarm ==
    /\ pc = "keep_alive" /\ pingTimer = 0 /\ isPingOutstanding
    /\ link = "up"
    => unread + MaxDelay >= KeepAliveInterval

\* The n-th attempt of a back-off comes after waits of MIN, 2 * MIN, 4 * MIN and
\* so on, and none comes after a wait that would exceed the maximum
\* ("Maximum time interval after which exponential back-off will stop
\* attempting to reconnect").
BackoffPaced ==
    ownEpisode /\ attempts > 0 =>
        /\ waited >= MinReconnectWait * (2^attempts - 1)
        /\ MinReconnectWait * 2^(attempts - 1) <= MaxReconnectWait

\* A client in its back-off connects again if the network stays up.
Reconnects ==
    (clientState = "PENDING_RECONNECT" /\ waitInterval \in 1..MaxReconnectWait
        /\ network)
    ~> (Connected \/ ~network)

\* A back-off comes to an end: it does not go on for ever with the network
\* down, if it started with an interval that was ever set.
BackoffEnds ==
    (clientState = "PENDING_RECONNECT" /\ waitInterval > 0)
    ~> (clientState # "PENDING_RECONNECT" \/ waitInterval > MaxReconnectWait)

\* In real time, too, the connection goes through the life that MqttSession gives
\* it (a connect is atomic here, and CONNECTING while it takes time): however
\* pings, errors, back-off and the application's own attempts fall, each attempt
\* starts without a TLS context and each loss gives it up.
Contract ==
    INSTANCE Connection WITH
        phase <- IF pc \in { "connect", "attempt", "reconnect" } THEN "opening"
                 ELSE PhaseOf(clientState),
        link <- link # "none",
        manual <- FALSE

ImplementsConnection == Contract!Spec

=============================================================================
