-------------------------- MODULE KeepAliveProofs --------------------------
(***************************************************************************)
(* Theorems about KeepAlive, for every interval, delay and bound: the      *)
(* variables have their types, the connection keeps to the contract        *)
(* Connection, and the times the client promises (no false alarm, a dead   *)
(* connection noticed, a broker not left in silence, a paced back-off)     *)
(* hold.  Each time bound is proved with a potential: what has passed and  *)
(* the most that can still pass add up to no more than the bound.          *)
(***************************************************************************)
EXTENDS KeepAlive, FiniteSetTheorems, TLAPS

-----------------------------------------------------------------------------
(* What the proofs say of a state *)

Opening == pc \in { "connect", "attempt", "reconnect" }

\* The states a client of this application is ever seen in.
Reached == { "INITIALIZED", "CONNECTED_IDLE", "CONNECTED_YIELD_IN_PROGRESS",
             "DISCONNECTED_ERROR", "PENDING_RECONNECT" }

\* The TLS context exists exactly as long as the client counts as connected,
\* every read is a connected one, and no connect starts with a context.
Linked ==
    /\ clientState \in Reached
    /\ Connected <=> link # "none"
    /\ Opening => link = "none"
    /\ pc = "reconnect" => clientState = "PENDING_RECONNECT"
    /\ pc \in { "read", "handler", "keep_alive" } => Connected
    /\ pc \in { "loop", "again" } => Connected \/ clientState = "PENDING_RECONNECT"
    /\ link # "up" => pong = NoPong
    /\ link = "none" => inbox = << >>

\* No timer runs beyond its bound, nor does a handler, yield starts to read only with time left, and
\* keep_alive leaves a ping timer that runs.
Timed ==
    /\ pc = "app" => timer <= MaxAway
    /\ pc \in { "loop", "reconnect", "read", "handler", "keep_alive", "again" } =>
        timer <= YieldTime
    /\ pc = "handler" => busy <= HandlerTime
    /\ pc = "loop" /\ Connected => timer > 0
    /\ pc = "again" /\ Connected /\ KeepAliveInterval > 0 => pingTimer > 0

\* The places of a packet in a sequence of packets.
Places(packet, s) == { i \in 1..Len(s) : s[i] = packet }

\* The answer to the last ping waits to be read.
AnswerWaits == Places("PINGRESP", inbox) # {}

\* The unusable packets that wait to be read, and those with the ones that may
\* still come.
Waits == Cardinality(Places("UNUSABLE", inbox))
Left == MaxUnusable - unusable + Waits

\* Each of them ends a yield: what that may cost.
RoundsLeft == Left * Round
RoundsBound == (1 + MaxUnusable) * Round

\* What the packets that wait may cost, and the most they may with the packet
\* that is being handled.
DelayWaits == Len(inbox) * Delay
DelayBound == (1 + MaxInbox) * Delay

\* The packets in front of the answer, and what they may cost.
Ahead(s) == (CHOOSE i \in Places("PINGRESP", s) : TRUE) - 1
DelayAhead == Ahead(inbox) * Delay

\* Of a ping there is at most one answer, under way or waiting, and on a live
\* connection exactly one as long as the ping is outstanding.  It may be the one
\* packet too many.
Answers ==
    /\ \A i, j \in Places("PINGRESP", inbox) : i = j
    /\ pong # NoPong => ~AnswerWaits
    /\ pong # NoPong \/ AnswerWaits => isPingOutstanding
    /\ isPingOutstanding /\ link = "up" => pong # NoPong \/ AnswerWaits
    /\ Waits \in Nat /\ Waits <= unusable
    /\ Len(inbox) <= MaxInbox + 1 /\ (Len(inbox) <= MaxInbox \/ AnswerWaits)

\* How long the handler in progress and the application can still take before
\* the next packet is read.
Stay == IF pc = "app" THEN MaxAway - timer
        ELSE IF pc = "handler" THEN busy + MaxAway
        ELSE IF timer = 0 THEN MaxAway ELSE 0

\* NoFalseAlarm's invariant: what has gone of the ping timer is the time the
\* answer has been on its way, and the time it has been kept from being read.
Answered ==
    link = "up" /\ isPingOutstanding =>
        \/ pong # NoPong /\ KeepAliveInterval + pong <= pingTimer + MaxDelay
        \/ pong = NoPong /\ KeepAliveInterval <= pingTimer + MaxDelay + unread

\* The longest time until a keep_alive finds the ping timer expired, unusable
\* packets apart: the yield in progress by then lasts for rest, and a handler.
NextLook(rest) ==
    IF pingTimer > 0 THEN pingTimer + Round
    ELSE IF pc = "app" THEN MaxAway - timer + YieldTime + HandlerTime
    ELSE IF pc = "handler" THEN busy
    ELSE IF pc = "keep_alive" THEN 0
    ELSE rest + HandlerTime

DeadLook == NextLook(IF inbox # << >> THEN YieldTime ELSE timer)
SilentLook == NextLook(timer)

\* DeadNoticed's potential: the longest time until a dead connection is given up.
\* The answer itself costs nothing.
DeadTime ==
    DelayWaits + (IF AnswerWaits THEN Stay - Delay + 2 * (KeepAliveInterval + Round)
                  ELSE IF isPingOutstanding THEN DeadLook
                  ELSE DeadLook + KeepAliveInterval + Round)

DeadBound == 2 * (KeepAliveInterval + Round) + DelayBound

Dying ==
    /\ link # "dead" => deadFor = 0
    /\ link = "dead" => deadFor + DeadTime <= DeadBound

\* SilenceBounded's potential: the longest time until the next ping is sent.
SilentTime ==
    RoundsLeft + (IF ~isPingOutstanding THEN SilentLook
                  ELSE IF AnswerWaits THEN DelayAhead + Stay + KeepAliveInterval + Round
                  ELSE pong + DelayBound + KeepAliveInterval + Round)

SilentBound == KeepAliveInterval + MaxDelay + DelayBound + RoundsBound

Silent ==
    /\ silentFor <= SilentBound
    /\ link = "up" => silentFor + SilentTime <= SilentBound

\* BackoffPaced's invariant: the interval is the one of the attempt that comes
\* next (or is under way), and what the back-off has waited and is still to wait
\* is the sum of the intervals so far.
Paced ==
    ownEpisode =>
        /\ waitInterval = MinReconnectWait
                          * 2^(IF pc = "reconnect" THEN attempts - 1 ELSE attempts)
        /\ pc = "reconnect" => attempts > 0 /\ waitInterval <= MaxReconnectWait
                               /\ waited >= 2 * waitInterval - MinReconnectWait
        /\ pc # "reconnect" =>
            /\ attempts > 0 => waitInterval <= 2 * MaxReconnectWait
            /\ waited >= waitInterval - MinReconnectWait
            /\ waitInterval <= MaxReconnectWait =>
                waited + reconnectTimer >= 2 * waitInterval - MinReconnectWait

-----------------------------------------------------------------------------
(* Types *)

LEMMA Constants ==
    /\ KeepAliveInterval \in Nat /\ MaxAway \in Nat /\ MaxDelay \in Nat
    /\ MaxInbox \in Nat /\ MaxUnusable \in Nat /\ ConnectTime \in Nat
    /\ HandlerTime \in Nat
    /\ YieldTime \in Nat \ { 0 } /\ MinReconnectWait \in Nat \ { 0 }
    /\ MaxReconnectWait \in Nat /\ MinReconnectWait <= MaxReconnectWait
    /\ UnsetWaits \subseteq Nat
  BY KeepAliveAssumption

\* What waits to be read is a sequence of packets, before and after a read.
LEMMA InboxType ==
    ASSUME NEW s \in Seq(Packets), s # << >>
    PROVE  Tail(s) \in Seq(Packets) /\ Head(s) \in Packets
  OBVIOUS

\* The type invariant, flags and numbers apart.
Flags ==
    /\ autoReconnect \in BOOLEAN /\ isPingOutstanding \in BOOLEAN
    /\ network \in BOOLEAN /\ ownEpisode \in BOOLEAN

Values ==
    /\ clientState \in ClientStates
    /\ pc \in { "app", "connect", "attempt", "loop", "reconnect", "read",
                "handler", "keep_alive", "again" }
    /\ pingTimer \in Nat /\ pingTimer <= KeepAliveInterval
    /\ reconnectTimer \in Nat /\ reconnectTimer <= MaxReconnectWait
    /\ timer \in Nat /\ busy \in Nat /\ waitInterval \in Nat
    /\ deadFor \in Nat /\ silentFor \in Nat /\ unread \in Nat
    /\ attempts \in Nat /\ waited \in Nat
    /\ link \in { "none", "up", "dead", "reset" }
    /\ inbox \in Seq(Packets)
    /\ pong \in Int /\ -1 <= pong /\ pong <= MaxDelay
    /\ unusable \in Nat /\ unusable <= MaxUnusable

LEMMA TypeParts == TypeOK <=> Flags /\ Values
<1>1. { autoReconnect, isPingOutstanding, network, ownEpisode } \subseteq BOOLEAN
      <=> Flags
  BY Zenon DEF Flags
<1>2. { timer, busy, waitInterval, deadFor, silentFor, unread, attempts, waited }
      \subseteq Nat
      <=> /\ timer \in Nat /\ busy \in Nat /\ waitInterval \in Nat
          /\ deadFor \in Nat /\ silentFor \in Nat /\ unread \in Nat
          /\ attempts \in Nat /\ waited \in Nat
  BY Zenon
<1>3. /\ pingTimer \in 0..KeepAliveInterval
         <=> pingTimer \in Nat /\ pingTimer <= KeepAliveInterval
      /\ reconnectTimer \in 0..MaxReconnectWait
         <=> reconnectTimer \in Nat /\ reconnectTimer <= MaxReconnectWait
      /\ unusable \in 0..MaxUnusable <=> unusable \in Nat /\ unusable <= MaxUnusable
  BY Constants
<1>4. pong \in 0..MaxDelay \cup { NoPong }
      <=> pong \in Int /\ -1 <= pong /\ pong <= MaxDelay
  BY Constants DEF NoPong
<1> QED
  BY <1>1, <1>2, <1>3, <1>4, Zenon DEF TypeOK, Values

\* What a lost connection leaves, with and without auto-reconnect.
LEMMA LostFacts ==
    ASSUME LoseConnection
    PROVE  /\ link' = "none" /\ inbox' = << >> /\ pong' = -1
           /\ network' = network /\ unusable' = unusable
           /\ deadFor' = 0 /\ silentFor' = 0 /\ unread' = 0
           /\ attempts' = 0 /\ waited' = 0
           /\ pingTimer' = pingTimer /\ busy' = busy
           /\ isPingOutstanding' = isPingOutstanding
           /\ ownEpisode' = autoReconnect
           /\ \/ /\ autoReconnect
                 /\ clientState' = "PENDING_RECONNECT" /\ pc' = "again"
                 /\ waitInterval' = MinReconnectWait
                 /\ reconnectTimer' = MinReconnectWait /\ timer' = timer
              \/ /\ ~autoReconnect
                 /\ clientState' = "DISCONNECTED_ERROR" /\ pc' = "app"
                 /\ waitInterval' = waitInterval
                 /\ reconnectTimer' = reconnectTimer /\ timer' = 0
<1>1. CASE autoReconnect
  BY <1>1 DEF LoseConnection, NewEpisode, NoLink, NoPong
<1>2. CASE ~autoReconnect
  BY <1>2 DEF LoseConnection, NewEpisode, NoLink, NoPong, Leave, Busy
<1> QED
  BY <1>1, <1>2

LEMMA TypeInit == Init => Flags /\ Values
<1>1. Init => Flags
  BY DEF Init, Flags
<1>2. Init => Values
  BY Constants DEF Init, Values, ClientStates, NoPong
<1> QED
  BY <1>1, <1>2

LEMMA FlagsNext == Flags /\ [Next]_vars => Flags'
<1> SUFFICES ASSUME Flags, [Next]_vars PROVE Flags'
  OBVIOUS
<1>1. CASE Connect
  BY <1>1 DEF Connect, Flags, clientVars, netVars, history
<1>2. CASE AttemptReconnect
  BY <1>2 DEF AttemptReconnect, Flags, clientVars, netVars, history
<1>3. CASE Yield
  BY <1>3 DEF Yield, Flags, netVars, history
<1>4. CASE ConnectSucceeds
  BY <1>4 DEF ConnectSucceeds, ConnectedAgain, NewEpisode, Flags
<1>5. CASE ConnectFails
  BY <1>5 DEF ConnectFails, NewEpisode, Flags, netVars
<1>6. CASE LoopRead
  BY <1>6 DEF LoopRead, Flags, clientVars, netVars, history
<1>7. CASE LoopGiveUp
  BY <1>7 DEF LoopGiveUp, Leave, Flags, netVars, history
<1>8. CASE ReconnectTooEarly
  BY <1>8 DEF ReconnectTooEarly, Flags, clientVars, netVars, history
<1>9. CASE HandleReconnect
  BY <1>9 DEF HandleReconnect, Flags, clientVars, netVars
<1>10. CASE Reconnected
  BY <1>10 DEF Reconnected, ConnectedAgain, NewEpisode, Flags
<1>11. CASE ReconnectFails
  BY <1>11 DEF ReconnectFails, DoubleInterval, Flags, netVars, history
<1>12. CASE ReconnectedPartly
  BY <1>12 DEF ReconnectedPartly, ConnectedAgain, DoubleInterval, NewEpisode, Flags
<1>13. CASE ReadPacket
  BY <1>13 DEF ReadPacket, PingAnswered, Flags, history
<1>14. CASE ReadUnusable
  BY <1>14 DEF ReadUnusable, Leave, Flags, history
<1>15. CASE ReadNothing
  BY <1>15 DEF ReadNothing, Flags, clientVars, netVars, history
<1>16. CASE ReadError
  BY <1>16 DEF ReadError, LoseConnection, Leave, NewEpisode, NoLink, Flags
<1>17. CASE NothingDue
  BY <1>17 DEF NothingDue, Flags, clientVars, netVars, history
<1>18. CASE PingOverdue
  BY <1>18 DEF PingOverdue, LoseConnection, Leave, NewEpisode, NoLink, Flags
<1>19. CASE SendPing
  BY <1>19 DEF SendPing, PingSent, Flags
<1>20. CASE SendPingFails
  BY <1>20 DEF SendPingFails, LoseConnection, Leave, NewEpisode, NoLink, Flags
<1>21. CASE Again
  BY <1>21 DEF Again, Flags, clientVars, netVars, history
<1>22. CASE YieldReturns
  BY <1>22 DEF YieldReturns, Leave, Flags, netVars, history
<1>23. CASE Publish
  BY <1>23 DEF Publish, Arrive, Flags, clientVars, history
<1>24. CASE PublishUnusable
  BY <1>24 DEF PublishUnusable, Arrive, Flags, clientVars, history
<1>25. CASE PingResp
  BY <1>25 DEF PingResp, Flags, clientVars, history
<1>26. CASE LinkFails
  BY <1>26 DEF LinkFails, Flags, clientVars, history
<1>27. CASE NetworkChanges
  BY <1>27 DEF NetworkChanges, Flags, clientVars, history
<1>28. CASE Tick
  BY <1>28 DEF Tick, Down, Flags
<1>29. CASE UNCHANGED vars
  BY <1>29 DEF vars, clientVars, netVars, history, Flags, clientVars, netVars, history
<1>30. CASE HandlerReturns
  BY <1>30 DEF HandlerReturns, Flags, clientVars, netVars, history
<1> QED
  BY <1>1, <1>2, <1>3, <1>4, <1>5, <1>6, <1>7, <1>8, <1>9, <1>10, <1>11, <1>12, <1>13,
     <1>14, <1>15, <1>16, <1>17, <1>18, <1>19, <1>20, <1>21, <1>22, <1>23, <1>24, <1>25,
     <1>26, <1>27, <1>28, <1>29, <1>30
     DEF Next, ConnectStep, YieldStep, Environment

LEMMA ValuesNext == Values /\ [Next]_vars => Values'
<1> SUFFICES ASSUME Values, [Next]_vars PROVE Values'
  OBVIOUS
<1> USE Constants
<1>1. CASE Connect
  BY <1>1 DEF Connect, Values, clientVars, netVars, history, ClientStates, Packets
<1>2. CASE AttemptReconnect
  BY <1>2 DEF AttemptReconnect, Values, clientVars, netVars, history, ClientStates,
     Packets
<1>3. CASE Yield
  BY <1>3 DEF Yield, Values, netVars, history, Busy, ClientStates, Packets
<1>4. CASE ConnectSucceeds
  BY <1>4 DEF ConnectSucceeds, ConnectedAgain, NewEpisode, Values, ClientStates, Packets
<1>5. CASE ConnectFails
  BY <1>5 DEF ConnectFails, NewEpisode, Values, netVars, ClientStates, Packets
<1>6. CASE LoopRead
  BY <1>6 DEF LoopRead, Values, clientVars, netVars, history, ClientStates, Packets
<1>7. CASE LoopGiveUp
  BY <1>7 DEF LoopGiveUp, Leave, Values, netVars, history, Busy, ClientStates, Packets
<1>8. CASE ReconnectTooEarly
  BY <1>8 DEF ReconnectTooEarly, Values, clientVars, netVars, history, ClientStates,
     Packets
<1>9. CASE HandleReconnect
  BY <1>9 DEF HandleReconnect, Values, clientVars, netVars, ClientStates, Packets
<1>10. CASE Reconnected
  BY <1>10 DEF Reconnected, ConnectedAgain, NewEpisode, Values, Busy, ClientStates,
     Packets
<1>11. CASE ReconnectFails
  BY <1>11 DEF ReconnectFails, DoubleInterval, Values, netVars, history, ClientStates,
     Packets
<1>12. CASE ReconnectedPartly
  BY <1>12 DEF ReconnectedPartly, ConnectedAgain, DoubleInterval, NewEpisode, Values,
     ClientStates, Packets
<1>13. CASE ReadPacket
  BY <1>13, InboxType DEF ReadPacket, PingAnswered, Values, history
<1>14. CASE ReadUnusable
  BY <1>14, InboxType DEF ReadUnusable, Leave, Values, history, Busy, ClientStates
<1>15. CASE ReadNothing
  BY <1>15 DEF ReadNothing, Values, clientVars, netVars, history, ClientStates, Packets
<1>16. CASE ReadError
  BY <1>16, LostFacts DEF ReadError, Values, ClientStates
<1>17. CASE NothingDue
  BY <1>17 DEF NothingDue, Values, clientVars, netVars, history, ClientStates, Packets
<1>18. CASE PingOverdue
  BY <1>18, LostFacts DEF PingOverdue, Values, ClientStates
<1>19. CASE SendPing
  BY <1>19 DEF SendPing, PingSent, Values, ClientStates, Packets, NoPong
<1>20. CASE SendPingFails
  BY <1>20, LostFacts DEF SendPingFails, Values, ClientStates
<1>21. CASE Again
  BY <1>21 DEF Again, Values, clientVars, netVars, history, ClientStates, Packets
<1>22. CASE YieldReturns
  BY <1>22 DEF YieldReturns, Leave, Values, netVars, history, Busy, ClientStates,
     Packets
<1>23. CASE Publish
  BY <1>23 DEF Publish, Arrive, Values, clientVars, history, ClientStates, Packets
<1>24. CASE PublishUnusable
  BY <1>24 DEF PublishUnusable, Arrive, Values, clientVars, history, ClientStates,
     Packets
<1>25. CASE PingResp
  BY <1>25 DEF PingResp, Values, clientVars, history, ClientStates, Packets, NoPong
<1>26. CASE LinkFails
  BY <1>26 DEF LinkFails, Values, clientVars, history, ClientStates, Packets, NoPong
<1>27. CASE NetworkChanges
  BY <1>27 DEF NetworkChanges, Values, clientVars, history, ClientStates, Packets
<1>28. CASE Tick
  BY <1>28 DEF Tick, Down, Values, ClientStates, Packets
<1>29. CASE UNCHANGED vars
  BY <1>29 DEF vars, clientVars, netVars, history, Values, clientVars, netVars, history,
     ClientStates, Packets
<1>30. CASE HandlerReturns
  BY <1>30 DEF HandlerReturns, Values, clientVars, netVars, history, ClientStates, Packets
<1> QED
  BY <1>1, <1>2, <1>3, <1>4, <1>5, <1>6, <1>7, <1>8, <1>9, <1>10, <1>11, <1>12, <1>13,
     <1>14, <1>15, <1>16, <1>17, <1>18, <1>19, <1>20, <1>21, <1>22, <1>23, <1>24, <1>25,
     <1>26, <1>27, <1>28, <1>29, <1>30
     DEF Next, ConnectStep, YieldStep, Environment

\* KeepAlive's variables have their types, however long it runs and whatever the
\* intervals are: no timer runs longer than it was started for.
THEOREM KeepAliveTypes == Spec => []TypeOK
<1>1. Spec => [](Flags /\ Values)
  BY TypeInit, FlagsNext, ValuesNext, PTL DEF Spec
<1>2. Flags /\ Values => TypeOK
  BY TypeParts
<1> QED
  BY <1>1, <1>2, PTL

-----------------------------------------------------------------------------
(* The TLS context and the state of the client *)

\* In the states this client reaches, connected means idle or in yield.
LEMMA ConnectedFacts ==
    /\ clientState \in Reached =>
        (Connected <=> clientState \in { "CONNECTED_IDLE", "CONNECTED_YIELD_IN_PROGRESS" })
    /\ clientState' \in Reached =>
        (Connected' <=> clientState' \in { "CONNECTED_IDLE", "CONNECTED_YIELD_IN_PROGRESS" })
    /\ Busy("yield") = "CONNECTED_YIELD_IN_PROGRESS"
  BY DEF Reached, Connected, IsClientConnected, ConnectedStates, Busy

LEMMA LinkedInit == Init => Linked /\ Timed
  BY Constants DEF Init, Linked, Timed, Opening, Reached, Busy, Connected,
     IsClientConnected, ConnectedStates, NoPong

LEMMA LinkedNext == Values /\ Linked /\ [Next]_vars => Linked'
<1> SUFFICES ASSUME Values, Linked, [Next]_vars PROVE Linked'
  OBVIOUS
<1> USE Constants, ConnectedFacts
<1>1. CASE Connect
  BY <1>1 DEF Connect, Values, clientVars, netVars, history, Linked, Opening, Reached,
     NoPong, ValidForConnect
<1>2. CASE AttemptReconnect
  BY <1>2 DEF AttemptReconnect, Values, clientVars, netVars, history, Linked, Opening,
     Reached, NoPong
<1>3. CASE Yield
  BY <1>3 DEF Yield, Values, netVars, history, Linked, Opening, Reached, NoPong
<1>4. CASE ConnectSucceeds
  BY <1>4 DEF ConnectSucceeds, ConnectedAgain, NewEpisode, Values, Linked, Opening,
     Reached, NoPong
<1>5. CASE ConnectFails
  BY <1>5 DEF ConnectFails, NewEpisode, Values, netVars, Linked, Opening, Reached,
     NoPong
<1>6. CASE LoopRead
  BY <1>6 DEF LoopRead, Values, clientVars, netVars, history, Linked, Opening, Reached,
     NoPong
<1>7. CASE LoopGiveUp
  BY <1>7 DEF LoopGiveUp, Leave, Values, netVars, history, Linked, Opening, Reached,
     NoPong
<1>8. CASE ReconnectTooEarly
  BY <1>8 DEF ReconnectTooEarly, Values, clientVars, netVars, history, Linked, Opening,
     Reached, NoPong
<1>9. CASE HandleReconnect
  BY <1>9 DEF HandleReconnect, Values, clientVars, netVars, Linked, Opening, Reached,
     NoPong
<1>10. CASE Reconnected
  BY <1>10 DEF Reconnected, ConnectedAgain, NewEpisode, Values, Linked, Opening,
     Reached, NoPong
<1>11. CASE ReconnectFails
  BY <1>11 DEF ReconnectFails, DoubleInterval, Values, netVars, history, Linked,
     Opening, Reached, NoPong
<1>12. CASE ReconnectedPartly
  BY <1>12 DEF ReconnectedPartly, ConnectedAgain, DoubleInterval, NewEpisode, Values,
     Linked, Opening, Reached, NoPong
<1>13. CASE ReadPacket
  BY <1>13 DEF ReadPacket, PingAnswered, Values, history, Linked, Opening, Reached,
     NoPong
<1>14. CASE ReadUnusable
  BY <1>14 DEF ReadUnusable, Leave, Values, history, Linked, Opening, Reached, NoPong
<1>15. CASE ReadNothing
  BY <1>15 DEF ReadNothing, Values, clientVars, netVars, history, Linked, Opening,
     Reached, NoPong
<1>16. CASE ReadError
  BY <1>16, LostFacts DEF ReadError, Values, Linked, Opening, Reached, NoPong
<1>17. CASE NothingDue
  BY <1>17 DEF NothingDue, Values, clientVars, netVars, history, Linked, Opening,
     Reached, NoPong
<1>18. CASE PingOverdue
  BY <1>18, LostFacts DEF PingOverdue, Values, Linked, Opening, Reached, NoPong
<1>19. CASE SendPing
  BY <1>19 DEF SendPing, PingSent, Values, Linked, Opening, Reached, NoPong
<1>20. CASE SendPingFails
  BY <1>20, LostFacts DEF SendPingFails, Values, Linked, Opening, Reached, NoPong
<1>21. CASE Again
  BY <1>21 DEF Again, Values, clientVars, netVars, history, Linked, Opening, Reached,
     NoPong
<1>22. CASE YieldReturns
  BY <1>22 DEF YieldReturns, Leave, Values, netVars, history, Linked, Opening, Reached,
     NoPong
<1>23. CASE Publish
  BY <1>23 DEF Publish, Arrive, Values, clientVars, history, Linked, Opening, Reached,
     NoPong
<1>24. CASE PublishUnusable
  BY <1>24 DEF PublishUnusable, Arrive, Values, clientVars, history, Linked, Opening,
     Reached, NoPong
<1>25. CASE PingResp
  BY <1>25 DEF PingResp, Values, clientVars, history, Linked, Opening, Reached, NoPong
<1>26. CASE LinkFails
  BY <1>26 DEF LinkFails, Values, clientVars, history, Linked, Opening, Reached, NoPong
<1>27. CASE NetworkChanges
  BY <1>27 DEF NetworkChanges, Values, clientVars, history, Linked, Opening, Reached,
     NoPong
<1>28. CASE Tick
  BY <1>28 DEF Tick, Down, Spinning, Waiting, Away, Connecting, Handling, Values, Linked, Opening,
     Reached, NoPong
<1>29. CASE UNCHANGED vars
  BY <1>29 DEF vars, clientVars, netVars, history, Values, clientVars, netVars, history,
     Linked, Opening, Reached, NoPong
<1>30. CASE HandlerReturns
  BY <1>30 DEF HandlerReturns, Values, clientVars, netVars, history, Linked, Opening,
     Reached, NoPong
<1> QED
  BY <1>1, <1>2, <1>3, <1>4, <1>5, <1>6, <1>7, <1>8, <1>9, <1>10, <1>11, <1>12, <1>13,
     <1>14, <1>15, <1>16, <1>17, <1>18, <1>19, <1>20, <1>21, <1>22, <1>23, <1>24, <1>25,
     <1>26, <1>27, <1>28, <1>29, <1>30
     DEF Next, ConnectStep, YieldStep, Environment

LEMMA TimedNext == Values /\ Linked /\ Linked' /\ Timed /\ [Next]_vars => Timed'
<1> SUFFICES ASSUME Values, Linked, Linked', Timed, [Next]_vars PROVE Timed'
  OBVIOUS
<1> USE Constants, ConnectedFacts
<1>1. CASE Connect
  BY <1>1 DEF Connect, Values, clientVars, netVars, history, Linked, Timed, Opening,
     Reached
<1>2. CASE AttemptReconnect
  BY <1>2 DEF AttemptReconnect, Values, clientVars, netVars, history, Linked, Timed,
     Opening, Reached
<1>3. CASE Yield
  BY <1>3 DEF Yield, Values, netVars, history, Linked, Timed, Opening, Reached
<1>4. CASE ConnectSucceeds
  BY <1>4 DEF ConnectSucceeds, ConnectedAgain, NewEpisode, Values, Linked, Timed,
     Opening, Reached
<1>5. CASE ConnectFails
  BY <1>5 DEF ConnectFails, NewEpisode, Values, netVars, Linked, Timed, Opening, Reached
<1>6. CASE LoopRead
  BY <1>6 DEF LoopRead, Values, clientVars, netVars, history, Linked, Timed, Opening,
     Reached
<1>7. CASE LoopGiveUp
  BY <1>7 DEF LoopGiveUp, Leave, Values, netVars, history, Linked, Timed, Opening,
     Reached
<1>8. CASE ReconnectTooEarly
  BY <1>8 DEF ReconnectTooEarly, Values, clientVars, netVars, history, Linked, Timed,
     Opening, Reached
<1>9. CASE HandleReconnect
  BY <1>9 DEF HandleReconnect, Values, clientVars, netVars, Linked, Timed, Opening,
     Reached
<1>10. CASE Reconnected
  BY <1>10 DEF Reconnected, ConnectedAgain, NewEpisode, Values, Linked, Timed, Opening,
     Reached
<1>11. CASE ReconnectFails
  BY <1>11 DEF ReconnectFails, DoubleInterval, Values, netVars, history, Linked, Timed,
     Opening, Reached
<1>12. CASE ReconnectedPartly
  BY <1>12 DEF ReconnectedPartly, ConnectedAgain, DoubleInterval, NewEpisode, Values,
     Linked, Timed, Opening, Reached
<1>13. CASE ReadPacket
  BY <1>13 DEF ReadPacket, PingAnswered, Values, history, Linked, Timed, Opening,
     Reached
<1>14. CASE ReadUnusable
  BY <1>14 DEF ReadUnusable, Leave, Values, history, Linked, Timed, Opening, Reached
<1>15. CASE ReadNothing
  BY <1>15 DEF ReadNothing, Values, clientVars, netVars, history, Linked, Timed,
     Opening, Reached
<1>16. CASE ReadError
  BY <1>16, LostFacts DEF ReadError, Values, Linked, Timed, Opening, Reached
<1>17. CASE NothingDue
  BY <1>17 DEF NothingDue, Values, clientVars, netVars, history, Linked, Timed, Opening,
     Reached
<1>18. CASE PingOverdue
  BY <1>18, LostFacts DEF PingOverdue, Values, Linked, Timed, Opening, Reached
<1>19. CASE SendPing
  BY <1>19 DEF SendPing, PingSent, Values, Linked, Timed, Opening, Reached
<1>20. CASE SendPingFails
  BY <1>20, LostFacts DEF SendPingFails, Values, Linked, Timed, Opening, Reached
<1>21. CASE Again
  BY <1>21 DEF Again, Values, clientVars, netVars, history, Linked, Timed, Opening,
     Reached
<1>22. CASE YieldReturns
  BY <1>22 DEF YieldReturns, Leave, Values, netVars, history, Linked, Timed, Opening,
     Reached
<1>23. CASE Publish
  BY <1>23 DEF Publish, Arrive, Values, clientVars, history, Linked, Timed, Opening,
     Reached
<1>24. CASE PublishUnusable
  BY <1>24 DEF PublishUnusable, Arrive, Values, clientVars, history, Linked, Timed,
     Opening, Reached
<1>25. CASE PingResp
  BY <1>25 DEF PingResp, Values, clientVars, history, Linked, Timed, Opening, Reached
<1>26. CASE LinkFails
  BY <1>26 DEF LinkFails, Values, clientVars, history, Linked, Timed, Opening, Reached
<1>27. CASE NetworkChanges
  BY <1>27 DEF NetworkChanges, Values, clientVars, history, Linked, Timed, Opening,
     Reached
<1>28. CASE Tick
  BY <1>28 DEF Tick, Down, Spinning, Waiting, Away, Connecting, Handling, Values, Linked, Timed,
     Opening, Reached
<1>29. CASE UNCHANGED vars
  BY <1>29 DEF vars, clientVars, netVars, history, Values, clientVars, netVars, history,
     Linked, Timed, Opening, Reached
<1>30. CASE HandlerReturns
  BY <1>30 DEF HandlerReturns, Values, clientVars, netVars, history, Linked, Timed,
     Opening, Reached
<1> QED
  BY <1>1, <1>2, <1>3, <1>4, <1>5, <1>6, <1>7, <1>8, <1>9, <1>10, <1>11, <1>12, <1>13,
     <1>14, <1>15, <1>16, <1>17, <1>18, <1>19, <1>20, <1>21, <1>22, <1>23, <1>24, <1>25,
     <1>26, <1>27, <1>28, <1>29, <1>30
     DEF Next, ConnectStep, YieldStep, Environment

\* The step of the contract that a step of the client is, or none.
Phase == IF Opening THEN "opening" ELSE PhaseOf(clientState)

SameStep == Phase' = Phase /\ (link' # "none" <=> link # "none")
OpenStep == Phase \in { "new", "lost", "waiting" } /\ Phase' = "opening"
            /\ link = "none" /\ link' = "none"
OpenedStep == Phase = "opening" /\ Phase' = "open" /\ link' # "none"
FailedStep == Phase = "opening" /\ Phase' \in { "lost", "waiting" } /\ link' = "none"
LoseStep == Phase = "open" /\ Phase' \in { "lost", "waiting" } /\ link' = "none"

LEMMA PhaseFacts ==
    /\ PhaseOf("INITIALIZED") = "new"
    /\ PhaseOf("CONNECTED_IDLE") = "open"
    /\ PhaseOf("CONNECTED_YIELD_IN_PROGRESS") = "open"
    /\ PhaseOf("DISCONNECTED_ERROR") = "lost"
    /\ PhaseOf("PENDING_RECONNECT") = "waiting"
  BY DEF PhaseOf, IsClientConnected, ConnectedStates

LEMMA StepsFit ==
    ASSUME SameStep \/ OpenStep \/ OpenedStep \/ FailedStep \/ LoseStep
    PROVE  [Contract!Next]_Contract!connectionVars
<1>1. CASE SameStep
  BY <1>1 DEF SameStep, Phase, Opening, Contract!connectionVars
<1>2. CASE OpenStep
  <2>1. Contract!Open
    BY <1>2 DEF OpenStep, Phase, Opening, Contract!Open, Contract!Down
  <2> QED
    BY <2>1 DEF Contract!Next
<1>3. CASE OpenedStep
  <2>1. Contract!Opened
    BY <1>3 DEF OpenedStep, Phase, Opening, Contract!Opened
  <2> QED
    BY <2>1 DEF Contract!Next
<1>4. CASE FailedStep
  <2>1. Contract!OpenFailed
    BY <1>4 DEF FailedStep, Phase, Opening, Contract!OpenFailed
  <2> QED
    BY <2>1 DEF Contract!Next
<1>5. CASE LoseStep
  <2>1. Contract!Lose
    BY <1>5 DEF LoseStep, Phase, Opening, Contract!Lose
  <2> QED
    BY <2>1 DEF Contract!Next
<1> QED
  BY <1>1, <1>2, <1>3, <1>4, <1>5

LEMMA ContractNext ==
    Values /\ Linked /\ Linked' /\ [Next]_vars
        => [Contract!Next]_Contract!connectionVars
<1> SUFFICES ASSUME Values, Linked, Linked', [Next]_vars
             PROVE  [Contract!Next]_Contract!connectionVars
  OBVIOUS
<1> USE ConnectedFacts, PhaseFacts
<1>1. CASE Connect
  <2>1. OpenStep
    BY <1>1 DEF Connect, OpenStep, Values, Linked, Opening, Reached, Phase, clientVars,
       netVars, history, NoPong, ValidForConnect
  <2> QED
    BY <2>1, StepsFit
<1>2. CASE AttemptReconnect
  <2>1. OpenStep
    BY <1>2 DEF AttemptReconnect, OpenStep, Values, Linked, Opening, Reached, Phase,
       clientVars, netVars, history, NoPong
  <2> QED
    BY <2>1, StepsFit
<1>3. CASE Yield
  <2>1. SameStep
    BY <1>3 DEF Yield, SameStep, Values, Linked, Opening, Reached, Phase, netVars,
       history, NoPong
  <2> QED
    BY <2>1, StepsFit
<1>4. CASE ConnectSucceeds
  <2>1. OpenedStep
    BY <1>4 DEF ConnectSucceeds, ConnectedAgain, NewEpisode, OpenedStep, Values, Linked,
       Opening, Reached, Phase, NoPong
  <2> QED
    BY <2>1, StepsFit
<1>5. CASE ConnectFails
  <2>1. FailedStep
    BY <1>5 DEF ConnectFails, NewEpisode, FailedStep, Values, Linked, Opening, Reached,
       Phase, netVars, NoPong
  <2> QED
    BY <2>1, StepsFit
<1>6. CASE LoopRead
  <2>1. SameStep
    BY <1>6 DEF LoopRead, SameStep, Values, Linked, Opening, Reached, Phase, clientVars,
       netVars, history, NoPong
  <2> QED
    BY <2>1, StepsFit
<1>7. CASE LoopGiveUp
  <2>1. SameStep
    BY <1>7 DEF LoopGiveUp, Leave, SameStep, Values, Linked, Opening, Reached, Phase,
       netVars, history, NoPong
  <2> QED
    BY <2>1, StepsFit
<1>8. CASE ReconnectTooEarly
  <2>1. SameStep
    BY <1>8 DEF ReconnectTooEarly, SameStep, Values, Linked, Opening, Reached, Phase,
       clientVars, netVars, history, NoPong
  <2> QED
    BY <2>1, StepsFit
<1>9. CASE HandleReconnect
  <2>1. OpenStep
    BY <1>9 DEF HandleReconnect, OpenStep, Values, Linked, Opening, Reached, Phase,
       clientVars, netVars, NoPong
  <2> QED
    BY <2>1, StepsFit
<1>10. CASE Reconnected
  <2>1. OpenedStep
    BY <1>10 DEF Reconnected, ConnectedAgain, NewEpisode, OpenedStep, Values, Linked,
       Opening, Reached, Phase, NoPong
  <2> QED
    BY <2>1, StepsFit
<1>11. CASE ReconnectFails
  <2>1. FailedStep
    BY <1>11 DEF ReconnectFails, DoubleInterval, FailedStep, Values, Linked, Opening,
       Reached, Phase, netVars, history, NoPong
  <2> QED
    BY <2>1, StepsFit
<1>12. CASE ReconnectedPartly
  <2>1. OpenedStep
    BY <1>12 DEF ReconnectedPartly, ConnectedAgain, DoubleInterval, NewEpisode,
       OpenedStep, Values, Linked, Opening, Reached, Phase, NoPong
  <2> QED
    BY <2>1, StepsFit
<1>13. CASE ReadPacket
  <2>1. SameStep
    BY <1>13 DEF ReadPacket, PingAnswered, SameStep, Values, Linked, Opening, Reached,
       Phase, history, NoPong
  <2> QED
    BY <2>1, StepsFit
<1>14. CASE ReadUnusable
  <2>1. SameStep
    BY <1>14 DEF ReadUnusable, Leave, SameStep, Values, Linked, Opening, Reached, Phase,
       history, NoPong
  <2> QED
    BY <2>1, StepsFit
<1>15. CASE ReadNothing
  <2>1. SameStep
    BY <1>15 DEF ReadNothing, SameStep, Values, Linked, Opening, Reached, Phase,
       clientVars, netVars, history, NoPong
  <2> QED
    BY <2>1, StepsFit
<1>16. CASE ReadError
  <2>1. LoseStep
    BY <1>16, LostFacts DEF ReadError, LoseStep, Values, Linked, Opening, Reached,
       Phase, NoPong
  <2> QED
    BY <2>1, StepsFit
<1>17. CASE NothingDue
  <2>1. SameStep
    BY <1>17 DEF NothingDue, SameStep, Values, Linked, Opening, Reached, Phase,
       clientVars, netVars, history, NoPong
  <2> QED
    BY <2>1, StepsFit
<1>18. CASE PingOverdue
  <2>1. LoseStep
    BY <1>18, LostFacts DEF PingOverdue, LoseStep, Values, Linked, Opening, Reached,
       Phase, NoPong
  <2> QED
    BY <2>1, StepsFit
<1>19. CASE SendPing
  <2>1. SameStep
    BY <1>19 DEF SendPing, PingSent, SameStep, Values, Linked, Opening, Reached, Phase,
       NoPong
  <2> QED
    BY <2>1, StepsFit
<1>20. CASE SendPingFails
  <2>1. LoseStep
    BY <1>20, LostFacts DEF SendPingFails, LoseStep, Values, Linked, Opening, Reached,
       Phase, NoPong
  <2> QED
    BY <2>1, StepsFit
<1>21. CASE Again
  <2>1. SameStep
    BY <1>21 DEF Again, SameStep, Values, Linked, Opening, Reached, Phase, clientVars,
       netVars, history, NoPong
  <2> QED
    BY <2>1, StepsFit
<1>22. CASE YieldReturns
  <2>1. SameStep
    BY <1>22 DEF YieldReturns, Leave, SameStep, Values, Linked, Opening, Reached, Phase,
       netVars, history, NoPong
  <2> QED
    BY <2>1, StepsFit
<1>23. CASE Publish
  <2>1. SameStep
    BY <1>23 DEF Publish, Arrive, SameStep, Values, Linked, Opening, Reached, Phase,
       clientVars, history, NoPong
  <2> QED
    BY <2>1, StepsFit
<1>24. CASE PublishUnusable
  <2>1. SameStep
    BY <1>24 DEF PublishUnusable, Arrive, SameStep, Values, Linked, Opening, Reached,
       Phase, clientVars, history, NoPong
  <2> QED
    BY <2>1, StepsFit
<1>25. CASE PingResp
  <2>1. SameStep
    BY <1>25 DEF PingResp, SameStep, Values, Linked, Opening, Reached, Phase,
       clientVars, history, NoPong
  <2> QED
    BY <2>1, StepsFit
<1>26. CASE LinkFails
  <2>1. SameStep
    BY <1>26 DEF LinkFails, SameStep, Values, Linked, Opening, Reached, Phase,
       clientVars, history, NoPong
  <2> QED
    BY <2>1, StepsFit
<1>27. CASE NetworkChanges
  <2>1. SameStep
    BY <1>27 DEF NetworkChanges, SameStep, Values, Linked, Opening, Reached, Phase,
       clientVars, history, NoPong
  <2> QED
    BY <2>1, StepsFit
<1>28. CASE Tick
  <2>1. SameStep
    BY <1>28 DEF Tick, Down, SameStep, Values, Linked, Opening, Reached, Phase, NoPong
  <2> QED
    BY <2>1, StepsFit
<1>29. CASE UNCHANGED vars
  <2>1. SameStep
    BY <1>29 DEF vars, SameStep, Values, Linked, Opening, Reached, Phase, clientVars,
       netVars, history, NoPong
  <2> QED
    BY <2>1, StepsFit
<1>30. CASE HandlerReturns
  <2>1. SameStep
    BY <1>30 DEF HandlerReturns, SameStep, Values, Linked, Opening, Reached, Phase,
       clientVars, netVars, history, NoPong
  <2> QED
    BY <2>1, StepsFit
<1> QED
  BY <1>1, <1>2, <1>3, <1>4, <1>5, <1>6, <1>7, <1>8, <1>9, <1>10, <1>11, <1>12, <1>13,
     <1>14, <1>15, <1>16, <1>17, <1>18, <1>19, <1>20, <1>21, <1>22, <1>23, <1>24, <1>25,
     <1>26, <1>27, <1>28, <1>29, <1>30
     DEF Next, ConnectStep, YieldStep, Environment

LEMMA LinkedAlways == Spec => [](Flags /\ Values /\ Linked /\ Timed)
  BY TypeInit, FlagsNext, ValuesNext, LinkedInit, LinkedNext, TimedNext, PTL DEF Spec

\* However pings, errors, the back-off of yield and the application's own
\* attempts fall in time, the connection lives as Connection says: no connect
\* starts over a TLS context that exists, a client that counts as connected has
\* one, and a connection that is lost or was not made has given it up.
THEOREM KeepsContract == Spec => ImplementsConnection
<1>1. Init => Contract!Init
  BY PhaseFacts DEF Init, Contract!Init
<1>2. Flags /\ Values /\ Linked /\ Timed /\ (Flags /\ Values /\ Linked /\ Timed)'
      /\ [Next]_vars
      => [Contract!Next]_Contract!connectionVars
  BY ContractNext
<1> QED
  BY <1>1, <1>2, LinkedAlways, PTL DEF Spec, ImplementsConnection, Contract!Spec

-----------------------------------------------------------------------------
(* The packets that wait to be read *)

LEMMA PlacesType ==
    ASSUME NEW s \in Seq(Packets), NEW packet
    PROVE  /\ IsFiniteSet(Places(packet, s))
           /\ Cardinality(Places(packet, s)) \in Nat
<1>1. Len(s) \in Nat
  OBVIOUS
<1>2. IsFiniteSet(1..Len(s))
  BY <1>1, FS_Interval
<1>3. Places(packet, s) \subseteq 1..Len(s)
  BY DEF Places
<1>4. IsFiniteSet(Places(packet, s))
  BY <1>2, <1>3, FS_Subset
<1> QED
  BY <1>4, FS_CardinalityType

LEMMA PlacesEmpty ==
    ASSUME NEW packet
    PROVE  Places(packet, << >>) = {} /\ Cardinality(Places(packet, << >>)) = 0
<1>1. Places(packet, << >>) = {}
  BY DEF Places
<1> QED
  BY <1>1, FS_EmptySet

\* A packet that arrives is the last one.
LEMMA PlacesAppend ==
    ASSUME NEW s \in Seq(Packets), NEW packet \in Packets, NEW p \in Packets
    PROVE  /\ packet = p => /\ Places(p, Append(s, packet))
                               = Places(p, s) \cup { Len(s) + 1 }
                            /\ Cardinality(Places(p, Append(s, packet)))
                               = Cardinality(Places(p, s)) + 1
           /\ packet # p => Places(p, Append(s, packet)) = Places(p, s)
<1> DEFINE t == Append(s, packet)
<1>1. /\ Len(s) \in Nat /\ Len(t) = Len(s) + 1
      /\ \A i \in 1..Len(s) : t[i] = s[i]
      /\ t[Len(s) + 1] = packet
  OBVIOUS
<1> HIDE DEF t
<1>2. 1..Len(t) = 1..Len(s) \cup { Len(s) + 1 }
  BY <1>1
<1>3. CASE packet = p
  <2>1. Places(p, t) = Places(p, s) \cup { Len(s) + 1 }
    BY <1>1, <1>2, <1>3 DEF Places
  <2>2. Len(s) + 1 \notin Places(p, s)
    BY <1>1 DEF Places
  <2>3. Cardinality(Places(p, s) \cup { Len(s) + 1 }) = Cardinality(Places(p, s)) + 1
    BY <2>2, PlacesType, FS_AddElement
  <2> QED
    BY <1>3, <2>1, <2>3 DEF t
<1>4. CASE packet # p
  <2>1. Places(p, t) = Places(p, s)
    BY <1>1, <1>2, <1>4 DEF Places
  <2> QED
    BY <1>4, <2>1 DEF t
<1> QED
  BY <1>3, <1>4

\* A read takes the first one, and the others move up.
LEMMA PlacesTail ==
    ASSUME NEW s \in Seq(Packets), s # << >>, NEW p
    PROVE  /\ Places(p, Tail(s)) = { i \in Nat : i + 1 \in Places(p, s) \ { 1 } }
           /\ Cardinality(Places(p, Tail(s)))
              = Cardinality(Places(p, s)) - (IF Head(s) = p THEN 1 ELSE 0)
           /\ Head(s) = p <=> 1 \in Places(p, s)
<1> DEFINE t == Tail(s)
           rest == Places(p, s) \ { 1 }
           move == [i \in Places(p, t) |-> i + 1]
<1>1. /\ Len(s) \in Nat \ { 0 } /\ Len(t) = Len(s) - 1
      /\ \A i \in 1..Len(t) : t[i] = s[i + 1]
      /\ Head(s) = s[1]
  OBVIOUS
<1>2. t \in Seq(Packets)
  OBVIOUS
<1> HIDE DEF t
<1>3. Places(p, t) = { i \in Nat : i + 1 \in rest }
  BY <1>1 DEF Places
<1>4. Head(s) = p <=> 1 \in Places(p, s)
  BY <1>1 DEF Places
<1>5. Cardinality(Places(p, t)) = Cardinality(rest)
  <2>1. IsFiniteSet(Places(p, t))
    BY <1>2, PlacesType
  <2>2. move \in Bijection(Places(p, t), rest)
    <3>1. move \in [Places(p, t) -> rest]
      BY <1>3
    <3>2. \A i, j \in Places(p, t) : move[i] = move[j] => i = j
      BY <1>3
    <3>3. \A k \in rest : \E i \in Places(p, t) : move[i] = k
      <4> SUFFICES ASSUME NEW k \in rest PROVE \E i \in Places(p, t) : move[i] = k
        OBVIOUS
      <4>1. k \in Nat /\ k > 1
        BY <1>1 DEF Places
      <4>2. k - 1 \in Places(p, t)
        BY <1>3, <4>1
      <4> QED
        BY <4>1, <4>2
    <3> HIDE DEF move, rest
    <3> QED
      BY <3>1, <3>2, <3>3, Zenon DEF Bijection, Injection, Surjection, IsInjective
  <2> HIDE DEF move, rest
  <2> QED
    BY <2>1, <2>2, FS_Bijection, Zenon DEF ExistsBijection
<1>6. Cardinality(rest) = Cardinality(Places(p, s)) - (IF Head(s) = p THEN 1 ELSE 0)
  <2>1. CASE 1 \in Places(p, s)
    BY <1>4, <2>1, PlacesType, FS_RemoveElement
  <2>2. CASE 1 \notin Places(p, s)
    <3>1. Cardinality(rest) = Cardinality(Places(p, s))
      BY <2>2, PlacesType, FS_RemoveElement
    <3>2. Cardinality(Places(p, s)) \in Nat /\ Head(s) # p
      BY <1>4, <2>2, PlacesType
    <3> HIDE DEF rest
    <3> QED
      BY <3>1, <3>2
  <2> QED
    BY <2>1, <2>2
<1> QED
  BY <1>3, <1>4, <1>5, <1>6 DEF t

\* The first packet is read: an answer that waits is read or goes on waiting, and
\* there are as many unusable ones as before, or the one that was read less.
LEMMA ReadFacts ==
    ASSUME Values, Answers, inbox # << >>, inbox' = Tail(inbox)
    PROVE  /\ \A i, j \in Places("PINGRESP", inbox)' : i = j
           /\ Head(inbox) = "PINGRESP" => AnswerWaits /\ ~AnswerWaits'
           /\ Head(inbox) # "PINGRESP" => (AnswerWaits' <=> AnswerWaits)
           /\ Head(inbox) = "UNUSABLE" => Waits' = Waits - 1 /\ Waits > 0
           /\ Head(inbox) # "UNUSABLE" => Waits' = Waits
           /\ Waits' \in Nat
           /\ Len(inbox) \in Nat /\ Len(inbox') = Len(inbox) - 1 /\ Len(inbox) > 0
<1>0. Len(inbox) \in Nat /\ Len(inbox') = Len(inbox) - 1 /\ Len(inbox) > 0
  BY DEF Values
<1>1. inbox \in Seq(Packets) /\ Waits \in Nat
  BY DEF Values, Answers
<1>2. Tail(inbox) \in Seq(Packets)
  BY <1>1, InboxType
<1> DEFINE A == Places("PINGRESP", inbox)
           B == Places("PINGRESP", Tail(inbox))
<1>3. /\ B = { i \in Nat : i + 1 \in A \ { 1 } }
      /\ Head(inbox) = "PINGRESP" <=> 1 \in A
  BY <1>1, PlacesTail
<1>4. \A i, j \in A : i = j
  BY DEF Answers
<1>5. A \subseteq Nat \ { 0 }
  BY <1>1 DEF Places
<1>6. AnswerWaits <=> A # {}
  BY DEF AnswerWaits
<1>7. /\ AnswerWaits' <=> B # {}
      /\ Places("PINGRESP", inbox)' = B
  BY DEF AnswerWaits
<1>8. /\ Waits' = Waits - (IF Head(inbox) = "UNUSABLE" THEN 1 ELSE 0)
      /\ Waits' \in Nat
  BY <1>1, <1>2, PlacesTail, PlacesType DEF Waits
<1> HIDE DEF A, B
<1>9. \A i, j \in B : i = j
  BY <1>3, <1>4, <1>5
<1>10. /\ 1 \in A => B = {}
       /\ 1 \notin A => (B # {} <=> A # {})
  <2>1. 1 \in A => B = {}
    BY <1>3, <1>4, <1>5
  <2>2. 1 \notin A /\ B # {} => A # {}
    BY <1>3
  <2>3. ASSUME 1 \notin A, NEW k \in A PROVE B # {}
    <3>1. k - 1 \in B
      BY <1>3, <1>5, <2>3
    <3> QED
      BY <3>1
  <2> QED
    BY <2>1, <2>2, <2>3
<1>11. Head(inbox) = "PINGRESP" => A # {}
  BY <1>3
<1>12. /\ Head(inbox) = "UNUSABLE" => Waits' = Waits - 1 /\ Waits > 0
       /\ Head(inbox) # "UNUSABLE" => Waits' = Waits
  BY <1>1, <1>8
<1> QED
  BY <1>0, <1>3, <1>6, <1>7, <1>8, <1>9, <1>10, <1>11, <1>12

\* A packet arrives.
LEMMA ArriveFacts ==
    ASSUME Values, Answers, NEW packet \in Packets, inbox' = Append(inbox, packet)
    PROVE  /\ packet # "PINGRESP" \/ ~AnswerWaits =>
                \A i, j \in Places("PINGRESP", inbox)' : i = j
           /\ AnswerWaits' <=> AnswerWaits \/ packet = "PINGRESP"
           /\ packet = "UNUSABLE" => Waits' = Waits + 1
           /\ packet # "UNUSABLE" => Waits' = Waits
           /\ Waits' \in Nat
           /\ Len(inbox) \in Nat /\ Len(inbox') = Len(inbox) + 1
<1>0. Len(inbox) \in Nat /\ Len(inbox') = Len(inbox) + 1
  BY DEF Values
<1>1. /\ inbox \in Seq(Packets) /\ Waits \in Nat
      /\ "PINGRESP" \in Packets /\ "UNUSABLE" \in Packets
      /\ \A i, j \in Places("PINGRESP", inbox) : i = j
  BY DEF Values, Answers, Packets
<1> DEFINE A == Places("PINGRESP", inbox)
           B == Places("PINGRESP", Append(inbox, packet))
<1>2. /\ packet = "PINGRESP" => B = A \cup { Len(inbox) + 1 }
      /\ packet # "PINGRESP" => B = A
  BY <1>1, PlacesAppend
<1>3. /\ AnswerWaits <=> A # {}
      /\ AnswerWaits' <=> B # {}
      /\ Places("PINGRESP", inbox)' = B
  BY DEF AnswerWaits
<1>4. /\ packet = "UNUSABLE" => Waits' = Waits + 1
      /\ packet # "UNUSABLE" => Waits' = Waits
  BY <1>1, PlacesAppend DEF Waits
<1> HIDE DEF A, B
<1>5. \A i, j \in A : i = j
  BY <1>1 DEF A
<1>6. /\ packet # "PINGRESP" \/ A = {} => \A i, j \in B : i = j
      /\ B # {} <=> A # {} \/ packet = "PINGRESP"
  BY <1>2, <1>5
<1>7. Waits' \in Nat
  BY <1>1, <1>4
<1> QED
  BY <1>0, <1>3, <1>4, <1>6, <1>7, Zenon

\* Nothing waits on a connection that is gone, and otherwise what waited.
LEMMA NoneFacts ==
    ASSUME inbox' = << >>
    PROVE  ~AnswerWaits' /\ Waits' = 0
           /\ \A i, j \in Places("PINGRESP", inbox)' : i = j
  BY PlacesEmpty DEF AnswerWaits, Waits

LEMMA SameFacts ==
    ASSUME inbox' = inbox
    PROVE  /\ AnswerWaits' <=> AnswerWaits
           /\ Waits' = Waits
           /\ Places("PINGRESP", inbox)' = Places("PINGRESP", inbox)
  BY DEF AnswerWaits, Waits, Places

LEMMA SameAnswers ==
    ASSUME Answers, UNCHANGED << inbox, pong, isPingOutstanding, link, unusable >>
    PROVE  Answers'
  BY SameFacts DEF Answers

LEMMA AnswersInit == Init => Answers
<1> SUFFICES ASSUME Init PROVE Answers
  OBVIOUS
<1>1. Len(inbox) <= MaxInbox + 1 /\ Len(inbox) <= MaxInbox
  BY Constants DEF Init
<1> QED
  BY <1>1, PlacesEmpty DEF Init, Answers, AnswerWaits, Waits

LEMMA AnswersNext == Flags /\ Values /\ Linked /\ Answers /\ [Next]_vars => Answers'
<1> SUFFICES ASSUME Flags, Values, Linked, Answers, [Next]_vars PROVE Answers'
  OBVIOUS
<1> USE Constants DEF Flags
<1>1. CASE Connect
  BY <1>1, SameAnswers DEF Connect, clientVars, netVars
<1>2. CASE AttemptReconnect
  BY <1>2, SameAnswers DEF AttemptReconnect, clientVars, netVars
<1>3. CASE Yield
  BY <1>3, SameAnswers DEF Yield, netVars
<1>4. CASE ConnectSucceeds
  <2>1. inbox' = << >> /\ pong' = NoPong /\ ~isPingOutstanding' /\ unusable' = unusable
    BY <1>4 DEF ConnectSucceeds, ConnectedAgain, NewEpisode, Linked, Opening
  <2> QED
    BY <2>1, NoneFacts DEF Answers, Values
<1>5. CASE ConnectFails
  BY <1>5, SameAnswers DEF ConnectFails, NewEpisode, netVars
<1>6. CASE LoopRead
  BY <1>6, SameAnswers DEF LoopRead, clientVars, netVars
<1>7. CASE LoopGiveUp
  BY <1>7, SameAnswers DEF LoopGiveUp, Leave, netVars
<1>8. CASE ReconnectTooEarly
  BY <1>8, SameAnswers DEF ReconnectTooEarly, clientVars, netVars
<1>9. CASE HandleReconnect
  BY <1>9, SameAnswers DEF HandleReconnect, clientVars, netVars
<1>10. CASE Reconnected
  <2>1. inbox' = << >> /\ pong' = NoPong /\ ~isPingOutstanding' /\ unusable' = unusable
    BY <1>10 DEF Reconnected, ConnectedAgain, NewEpisode, Linked, Opening
  <2> QED
    BY <2>1, NoneFacts DEF Answers, Values
<1>11. CASE ReconnectFails
  BY <1>11, SameAnswers DEF ReconnectFails, DoubleInterval, netVars
<1>12. CASE ReconnectedPartly
  <2>1. inbox' = << >> /\ pong' = NoPong /\ ~isPingOutstanding' /\ unusable' = unusable
    BY <1>12 DEF ReconnectedPartly, ConnectedAgain, DoubleInterval, NewEpisode, Linked,
       Opening
  <2> QED
    BY <2>1, NoneFacts DEF Answers, Values
<1>13. CASE ReadPacket
  BY <1>13, ReadFacts DEF ReadPacket, PingAnswered, Answers, Values
<1>14. CASE ReadUnusable
  BY <1>14, ReadFacts DEF ReadUnusable, Leave, Answers, Values
<1>15. CASE ReadNothing
  BY <1>15, SameAnswers DEF ReadNothing, clientVars, netVars
<1>16. CASE ReadError
  BY <1>16, LostFacts, NoneFacts DEF ReadError, Answers, Values, NoPong
<1>17. CASE NothingDue
  BY <1>17, SameAnswers DEF NothingDue, clientVars, netVars
<1>18. CASE PingOverdue
  BY <1>18, LostFacts, NoneFacts DEF PingOverdue, Answers, Values, NoPong
<1>19. CASE SendPing
  BY <1>19, SameFacts DEF SendPing, PingSent, Answers, Linked, Values, NoPong
<1>20. CASE SendPingFails
  BY <1>20, LostFacts, NoneFacts DEF SendPingFails, Answers, Values, NoPong
<1>21. CASE Again
  BY <1>21, SameAnswers DEF Again, clientVars, netVars
<1>22. CASE YieldReturns
  BY <1>22, SameAnswers DEF YieldReturns, Leave, netVars
<1>23. CASE Publish
  BY <1>23, ArriveFacts DEF Publish, Arrive, clientVars, Answers, Values, Packets
<1>24. CASE PublishUnusable
  BY <1>24, ArriveFacts DEF PublishUnusable, Arrive, clientVars, Answers, Values,
     Packets
<1>25. CASE PingResp
  BY <1>25, ArriveFacts DEF PingResp, clientVars, Answers, Values, Packets, NoPong
<1>26. CASE LinkFails
  BY <1>26, SameFacts DEF LinkFails, clientVars, Answers, Values, NoPong
<1>27. CASE NetworkChanges
  BY <1>27, SameAnswers DEF NetworkChanges, clientVars
<1>28. CASE Tick
  BY <1>28, SameFacts DEF Tick, Down, Answers, Values, NoPong
<1>29. CASE UNCHANGED vars
  BY <1>29, SameAnswers DEF vars, clientVars, netVars
<1>30. CASE HandlerReturns
  BY <1>30, SameAnswers DEF HandlerReturns, clientVars, netVars
<1> QED
  BY <1>1, <1>2, <1>3, <1>4, <1>5, <1>6, <1>7, <1>8, <1>9, <1>10, <1>11, <1>12, <1>13,
     <1>14, <1>15, <1>16, <1>17, <1>18, <1>19, <1>20, <1>21, <1>22, <1>23, <1>24, <1>25,
     <1>26, <1>27, <1>28, <1>29, <1>30
     DEF Next, ConnectStep, YieldStep, Environment

-----------------------------------------------------------------------------
(* What the packets that wait can cost *)

LEMMA Products ==
    ASSUME NEW a \in Nat, NEW b \in Nat, NEW c \in Nat
    PROVE  /\ a * c \in Nat
           /\ (a + 1) * c = a * c + c /\ (1 + a) * c = a * c + c
           /\ a > 0 => (a - 1) * c = a * c - c
           /\ a <= b => a * c <= b * c
           /\ a = 0 => a * c = 0
  OBVIOUS

\* The answer has the packets in front of it that its place says.
LEMMA AheadFacts ==
    ASSUME NEW s \in Seq(Packets), NEW p \in Places("PINGRESP", s),
           \A i, j \in Places("PINGRESP", s) : i = j
    PROVE  /\ Ahead(s) = p - 1 /\ Ahead(s) \in Nat
           /\ Len(s) \in Nat /\ Ahead(s) < Len(s)
<1>1. (CHOOSE i \in Places("PINGRESP", s) : TRUE) = p
  BY Zenon
<1>2. p \in 1..Len(s) /\ Len(s) \in Nat
  BY DEF Places
<1>3. Ahead(s) = p - 1
  BY <1>1, Zenon DEF Ahead
<1> QED
  BY <1>2, <1>3

\* What may still be lost to the packets fits into the bounds, which allow for
\* one more than can come.
LEMMA CostTypes ==
    ASSUME Values, Answers
    PROVE  /\ Round \in Nat /\ Round = YieldTime + HandlerTime + MaxAway
           /\ Delay \in Nat /\ Delay = HandlerTime + MaxAway
           /\ Waits \in Nat /\ Left \in Nat /\ Waits <= Left /\ Left <= MaxUnusable
           /\ RoundsLeft \in Nat /\ RoundsLeft + Round <= RoundsBound
           /\ DelayBound \in Nat /\ RoundsBound \in Nat /\ Delay <= DelayBound
           /\ DelayWaits \in Nat /\ DelayWaits <= DelayBound
           /\ inbox # << >> => Delay <= DelayWaits
           /\ ~AnswerWaits => DelayWaits + Delay <= DelayBound
           /\ AnswerWaits => inbox # << >> /\ DelayAhead \in Nat
                             /\ DelayAhead + Delay <= DelayBound
<1>1. /\ Round \in Nat /\ Round = YieldTime + HandlerTime + MaxAway
      /\ Delay \in Nat /\ Delay = HandlerTime + MaxAway
  BY Constants DEF Round, Delay
<1>2. Waits \in Nat /\ Left \in Nat /\ Waits <= Left /\ Left <= MaxUnusable
  BY Constants DEF Left, Values, Answers
<1>3. MaxUnusable \in Nat /\ MaxInbox \in Nat /\ MaxInbox + 1 \in Nat
  BY Constants
<1>4. /\ RoundsLeft \in Nat /\ RoundsLeft <= MaxUnusable * Round
      /\ RoundsBound = MaxUnusable * Round + Round
      /\ MaxUnusable * Round \in Nat
  BY <1>1, <1>2, <1>3, Products DEF RoundsLeft, RoundsBound
<1>5. /\ DelayBound = MaxInbox * Delay + Delay
      /\ MaxInbox * Delay \in Nat
      /\ (MaxInbox + 1) * Delay = MaxInbox * Delay + Delay
  BY <1>1, <1>3, Products DEF DelayBound
<1>6. /\ Len(inbox) \in Nat /\ Len(inbox) <= MaxInbox + 1
      /\ ~AnswerWaits => Len(inbox) <= MaxInbox
      /\ inbox # << >> => Len(inbox) > 0
      /\ inbox \in Seq(Packets)
  BY DEF Answers, Values
<1>7. DelayWaits \in Nat /\ DelayWaits <= DelayBound
  <2>1. DelayWaits \in Nat /\ DelayWaits <= (MaxInbox + 1) * Delay
    BY <1>1, <1>3, <1>6, Products DEF DelayWaits
  <2> QED
    BY <1>5, <2>1
<1>8. ~AnswerWaits => DelayWaits + Delay <= DelayBound
  <2> SUFFICES ASSUME ~AnswerWaits PROVE DelayWaits + Delay <= DelayBound
    OBVIOUS
  <2>1. DelayWaits <= MaxInbox * Delay
    BY <1>1, <1>3, <1>6, Products DEF DelayWaits
  <2> QED
    BY <1>1, <1>5, <1>7, <2>1
<1>9. inbox # << >> => Delay <= DelayWaits
  <2> SUFFICES ASSUME inbox # << >> PROVE Delay <= DelayWaits
    OBVIOUS
  <2>1. Len(inbox) - 1 \in Nat
    BY <1>6
  <2>2. (Len(inbox) - 1) * Delay \in Nat
        /\ (Len(inbox) - 1) * Delay = DelayWaits - Delay
    BY <1>1, <1>6, <2>1, Products DEF DelayWaits
  <2> QED
    BY <1>1, <1>7, <2>2
<1>10. ASSUME AnswerWaits
       PROVE  /\ inbox # << >> /\ DelayAhead \in Nat
              /\ DelayAhead + Delay <= DelayBound
  <2>1. PICK p \in Places("PINGRESP", inbox) : TRUE
    BY <1>10 DEF AnswerWaits
  <2>2. Ahead(inbox) \in Nat /\ Ahead(inbox) < Len(inbox)
    BY <1>6, AheadFacts DEF Answers
  <2>3. Ahead(inbox) <= MaxInbox /\ Len(inbox) > 0
    BY <1>3, <1>6, <2>2
  <2>4. DelayAhead \in Nat /\ DelayAhead <= MaxInbox * Delay
    BY <1>1, <1>3, <2>2, <2>3, Products DEF DelayAhead
  <2>5. inbox # << >>
    BY <2>3
  <2> QED
    BY <1>1, <1>5, <2>4, <2>5
<1>11. Delay <= DelayBound /\ DelayBound \in Nat
  BY <1>1, <1>5
<1>12. RoundsLeft + Round <= RoundsBound /\ RoundsBound \in Nat /\ RoundsLeft \in Nat
  BY <1>1, <1>4
<1> QED
  BY <1>1, <1>2, <1>7, <1>8, <1>9, <1>10, <1>11, <1>12

LEMMA CostSame ==
    ASSUME UNCHANGED << inbox, unusable >>
    PROVE  /\ AnswerWaits' <=> AnswerWaits
           /\ Waits' = Waits /\ Left' = Left
           /\ RoundsLeft' = RoundsLeft
           /\ DelayWaits' = DelayWaits /\ DelayAhead' = DelayAhead
  BY SameFacts DEF Left, RoundsLeft, Round, DelayWaits, DelayAhead, Delay

\* The packet that is read has cost what it could.
LEMMA CostRead ==
    ASSUME Values, Answers, inbox # << >>, inbox' = Tail(inbox), unusable' = unusable
    PROVE  /\ Head(inbox) = "PINGRESP" => AnswerWaits /\ ~AnswerWaits'
           /\ Head(inbox) # "PINGRESP" => (AnswerWaits' <=> AnswerWaits)
           /\ Head(inbox) # "UNUSABLE" => RoundsLeft' = RoundsLeft
           /\ Head(inbox) = "UNUSABLE" => RoundsLeft' = RoundsLeft - Round
           /\ DelayWaits' = DelayWaits - Delay
           /\ Head(inbox) # "PINGRESP" /\ AnswerWaits =>
                DelayAhead' = DelayAhead - Delay
<1>1. /\ Head(inbox) = "PINGRESP" => AnswerWaits /\ ~AnswerWaits'
      /\ Head(inbox) # "PINGRESP" => (AnswerWaits' <=> AnswerWaits)
  BY ReadFacts
<1>2. Head(inbox) # "UNUSABLE" => RoundsLeft' = RoundsLeft
  <2>1. Head(inbox) # "UNUSABLE" => Waits' = Waits
    BY ReadFacts
  <2> QED
    BY <2>1 DEF Left, RoundsLeft, Round
<1>3. Round \in Nat /\ Delay \in Nat /\ Round' = Round /\ Delay' = Delay
  BY Constants DEF Round, Delay
<1>4. ASSUME Head(inbox) = "UNUSABLE" PROVE RoundsLeft' = RoundsLeft - Round
  <2>1. Waits' = Waits - 1 /\ Waits > 0
    BY <1>4, ReadFacts
  <2>2. Waits \in Nat /\ Left \in Nat /\ Left >= Waits
    BY CostTypes
  <2>3. Left' = Left - 1 /\ Left > 0
    BY <2>1, <2>2, Constants DEF Left, Values
  <2> QED
    BY <1>3, <2>2, <2>3, Products DEF RoundsLeft
<1>5. DelayWaits' = DelayWaits - Delay
  <2>1. Len(inbox) \in Nat /\ Len(inbox') = Len(inbox) - 1 /\ Len(inbox) > 0
    BY ReadFacts
  <2> QED
    BY <1>3, <2>1, Products DEF DelayWaits
<1>6. ASSUME Head(inbox) # "PINGRESP", AnswerWaits
      PROVE  DelayAhead' = DelayAhead - Delay
  <2>1. inbox \in Seq(Packets) /\ Tail(inbox) \in Seq(Packets)
    BY InboxType DEF Values
  <2>2. PICK p \in Places("PINGRESP", inbox) : TRUE
    BY <1>6 DEF AnswerWaits
  <2>3. Ahead(inbox) = p - 1 /\ Ahead(inbox) \in Nat
    BY <2>1, AheadFacts DEF Answers
  <2>4. /\ Places("PINGRESP", Tail(inbox))
           = { i \in Nat : i + 1 \in Places("PINGRESP", inbox) \ { 1 } }
        /\ 1 \notin Places("PINGRESP", inbox)
    BY <1>6, <2>1, PlacesTail
  <2>5. p \in Nat /\ p > 1
    BY <2>1, <2>4 DEF Places
  <2>6. p - 1 \in Places("PINGRESP", Tail(inbox))
    BY <2>4, <2>5
  <2>7. \A i, j \in Places("PINGRESP", Tail(inbox)) : i = j
    BY ReadFacts
  <2>8. Ahead(Tail(inbox)) = p - 1 - 1
    BY <2>1, <2>6, <2>7, AheadFacts
  <2>9. Ahead(inbox)' = Ahead(inbox) - 1 /\ Ahead(inbox) > 0
    BY <2>3, <2>5, <2>8
  <2> QED
    BY <1>3, <2>3, <2>9, Products DEF DelayAhead
<1> QED
  BY <1>1, <1>2, <1>4, <1>5, <1>6

\* A packet that arrives costs nothing that was not expected.
LEMMA CostArrives ==
    ASSUME Values, Answers, NEW packet \in Packets, inbox' = Append(inbox, packet),
           packet = "UNUSABLE" => unusable' = unusable + 1,
           packet # "UNUSABLE" => unusable' = unusable
    PROVE  /\ AnswerWaits' <=> AnswerWaits \/ packet = "PINGRESP"
           /\ RoundsLeft' = RoundsLeft
           /\ packet # "PINGRESP" => DelayAhead' = DelayAhead
           /\ packet = "PINGRESP" /\ ~AnswerWaits => DelayAhead' = DelayWaits
<1>1. AnswerWaits' <=> AnswerWaits \/ packet = "PINGRESP"
  BY ArriveFacts
<1>2. Waits \in Nat /\ unusable \in Nat
  BY DEF Values, Answers
<1>3. Left' = Left
  <2>1. CASE packet = "UNUSABLE"
    <3>1. Waits' = Waits + 1
      BY <2>1, ArriveFacts
    <3> QED
      BY <1>2, <2>1, <3>1, Constants DEF Left
  <2>2. CASE packet # "UNUSABLE"
    <3>1. Waits' = Waits
      BY <2>2, ArriveFacts
    <3> QED
      BY <1>2, <2>2, <3>1, Constants DEF Left
  <2> QED
    BY <2>1, <2>2
<1>4. RoundsLeft' = RoundsLeft
  BY <1>3 DEF RoundsLeft, Round
<1> DEFINE t == Append(inbox, packet)
<1>5. /\ inbox \in Seq(Packets) /\ t \in Seq(Packets) /\ "PINGRESP" \in Packets
      /\ Len(inbox) \in Nat /\ inbox' = t
  BY DEF Values, Packets
<1>6. /\ packet = "PINGRESP" => Places("PINGRESP", t)
                                = Places("PINGRESP", inbox) \cup { Len(inbox) + 1 }
      /\ packet # "PINGRESP" => Places("PINGRESP", t) = Places("PINGRESP", inbox)
  BY <1>5, PlacesAppend
<1> HIDE DEF t
<1>7. ASSUME packet # "PINGRESP" PROVE DelayAhead' = DelayAhead
  <2>1. Ahead(t) = Ahead(inbox)
    BY <1>6, <1>7, Zenon DEF Ahead
  <2> QED
    BY <1>5, <2>1 DEF DelayAhead, Delay
<1>8. ASSUME packet = "PINGRESP", ~AnswerWaits PROVE DelayAhead' = DelayWaits
  <2>1. Places("PINGRESP", t) = { Len(inbox) + 1 }
    BY <1>6, <1>8 DEF AnswerWaits
  <2>2. Ahead(t) = Len(inbox) + 1 - 1
    <3>1. Len(inbox) + 1 \in Places("PINGRESP", t)
          /\ \A i, j \in Places("PINGRESP", t) : i = j
      BY <2>1, Zenon
    <3> DEFINE p == Len(inbox) + 1
    <3>2. p \in Places("PINGRESP", t) /\ t \in Seq(Packets)
      BY <1>5, <3>1
    <3> HIDE DEF p
    <3>3. Ahead(t) = p - 1
      BY <3>1, <3>2, AheadFacts
    <3> QED
      BY <3>3 DEF p
  <2>3. Ahead(t) = Len(inbox)
    BY <1>5, <2>2
  <2> QED
    BY <1>5, <2>3 DEF DelayAhead, DelayWaits, Delay
<1> QED
  BY <1>1, <1>4, <1>7, <1>8

LEMMA NothingToRead == inbox = << >> => ~AnswerWaits /\ Waits = 0
  BY PlacesEmpty DEF AnswerWaits, Waits

LEMMA AnswersAlways == Spec => []Answers
<1>1. (Flags /\ Values /\ Linked /\ Timed) /\ Answers /\ [Next]_vars => Answers'
  BY AnswersNext
<1> QED
  BY <1>1, AnswersInit, LinkedAlways, PTL DEF Spec

-----------------------------------------------------------------------------
(* No false alarm *)

LEMMA AnsweredKept ==
    ASSUME Answered, UNCHANGED << link, isPingOutstanding, pong, pingTimer, unread >>
    PROVE  Answered'
  BY DEF Answered

LEMMA AnsweredNext ==
    Flags /\ Values /\ Linked /\ Answers /\ Answered /\ [Next]_vars => Answered'
<1> SUFFICES ASSUME Flags, Values, Linked, Answers, Answered, [Next]_vars
             PROVE  Answered'
  OBVIOUS
<1> USE DEF Flags
<1>1. CASE Connect
  BY <1>1, AnsweredKept DEF Connect, clientVars, netVars, history
<1>2. CASE AttemptReconnect
  BY <1>2, AnsweredKept DEF AttemptReconnect, clientVars, netVars, history
<1>3. CASE Yield
  BY <1>3, AnsweredKept DEF Yield, netVars, history
<1>4. CASE ConnectSucceeds
  BY <1>4 DEF ConnectSucceeds, ConnectedAgain, Answered
<1>5. CASE ConnectFails
  BY <1>5 DEF ConnectFails, Answered, Linked, Opening, netVars
<1>6. CASE LoopRead
  BY <1>6, AnsweredKept DEF LoopRead, clientVars, netVars, history
<1>7. CASE LoopGiveUp
  BY <1>7, AnsweredKept DEF LoopGiveUp, Leave, netVars, history
<1>8. CASE ReconnectTooEarly
  BY <1>8, AnsweredKept DEF ReconnectTooEarly, clientVars, netVars, history
<1>9. CASE HandleReconnect
  BY <1>9, AnsweredKept DEF HandleReconnect, clientVars, netVars
<1>10. CASE Reconnected
  BY <1>10 DEF Reconnected, ConnectedAgain, Answered
<1>11. CASE ReconnectFails
  BY <1>11, AnsweredKept DEF ReconnectFails, DoubleInterval, netVars, history
<1>12. CASE ReconnectedPartly
  BY <1>12 DEF ReconnectedPartly, ConnectedAgain, Answered
<1>13. CASE ReadPacket
  <2>1. CASE Head(inbox) = "PINGRESP"
    BY <1>13, <2>1 DEF ReadPacket, PingAnswered, Answered
  <2>2. CASE Head(inbox) # "PINGRESP"
    BY <1>13, <2>2, AnsweredKept DEF ReadPacket
  <2> QED
    BY <2>1, <2>2
<1>14. CASE ReadUnusable
  BY <1>14, AnsweredKept DEF ReadUnusable, Leave, history
<1>15. CASE ReadNothing
  BY <1>15, AnsweredKept DEF ReadNothing, clientVars, netVars, history
<1>16. CASE ReadError
  BY <1>16, LostFacts DEF ReadError, Answered
<1>17. CASE NothingDue
  BY <1>17, AnsweredKept DEF NothingDue, clientVars, netVars, history
<1>18. CASE PingOverdue
  BY <1>18, LostFacts DEF PingOverdue, Answered
<1>19. CASE SendPing
  <2>1. /\ pingTimer' = KeepAliveInterval
        /\ link' = "up" => pong' = MaxDelay
    BY <1>19 DEF SendPing, PingSent
  <2>2. MaxDelay # NoPong /\ KeepAliveInterval + MaxDelay <= KeepAliveInterval + MaxDelay
    BY Constants DEF NoPong
  <2> QED
    BY <2>1, <2>2 DEF Answered
<1>20. CASE SendPingFails
  BY <1>20, LostFacts DEF SendPingFails, Answered
<1>21. CASE Again
  BY <1>21, AnsweredKept DEF Again, clientVars, netVars, history
<1>22. CASE YieldReturns
  BY <1>22, AnsweredKept DEF YieldReturns, Leave, netVars, history
<1>23. CASE Publish
  BY <1>23, AnsweredKept DEF Publish, clientVars, history
<1>24. CASE PublishUnusable
  BY <1>24, AnsweredKept DEF PublishUnusable, clientVars, history
<1>25. CASE PingResp
  <2>1. /\ pong' = NoPong /\ pong # NoPong /\ link = "up"
        /\ UNCHANGED << link, isPingOutstanding, pingTimer, unread >>
    BY <1>25 DEF PingResp, clientVars, history
  <2>2. isPingOutstanding => KeepAliveInterval + pong <= pingTimer + MaxDelay
    BY <2>1 DEF Answered
  <2>3. isPingOutstanding => KeepAliveInterval <= pingTimer + MaxDelay + unread
    BY <2>1, <2>2, Constants DEF Values, NoPong
  <2> QED
    BY <2>1, <2>3 DEF Answered
<1>26. CASE LinkFails
  BY <1>26 DEF LinkFails, Answered
<1>27. CASE NetworkChanges
  BY <1>27, AnsweredKept DEF NetworkChanges, clientVars, history
<1>28. CASE Tick
  <2> SUFFICES ASSUME link = "up", isPingOutstanding
               PROVE  \/ pong' # NoPong
                         /\ KeepAliveInterval + pong' <= pingTimer' + MaxDelay
                      \/ pong' = NoPong
                         /\ KeepAliveInterval <= pingTimer' + MaxDelay + unread'
    BY <1>28 DEF Tick, Answered
  <2>1. pingTimer' \in Nat /\ pingTimer' >= pingTimer - 1
    BY <1>28 DEF Tick, Down, Values
  <2>2. CASE pong # NoPong
    <3>1. pong \in Nat /\ pong > 0 /\ pong' = pong - 1
      BY <1>28, <2>2 DEF Tick, Values, NoPong
    <3>2. KeepAliveInterval + pong <= pingTimer + MaxDelay
      BY <2>2 DEF Answered
    <3>3. KeepAliveInterval + (pong - 1) <= pingTimer' + MaxDelay
      <4> DEFINE left == pingTimer'
      <4>1. /\ KeepAliveInterval \in Nat /\ MaxDelay \in Nat /\ pingTimer \in Nat
            /\ left \in Nat /\ left >= pingTimer - 1
        BY <2>1, Constants DEF Values
      <4>2. pong \in Nat
        BY <3>1
      <4> HIDE DEF left
      <4>3. KeepAliveInterval + (pong - 1) <= left + MaxDelay
        BY <3>2, <4>1, <4>2
      <4> QED
        BY <4>3 DEF left
    <3>4. pong - 1 # NoPong
      BY <3>1 DEF NoPong
    <3> QED
      BY <3>1, <3>3, <3>4
  <2>3. CASE pong = NoPong
    <3>1. inbox # << >>
      BY <2>3, NothingToRead DEF Answers
    <3>2. pc \in { "app", "handler" }
      BY <1>28, <3>1, ConnectedFacts DEF Tick, Spinning, Waiting, Away, Connecting,
         Handling, Linked, Reached, Opening
    <3>3. unread' = unread + 1 /\ pong' = NoPong
      BY <1>28, <2>3, <3>2 DEF Tick, NoPong
    <3>4. KeepAliveInterval <= pingTimer + MaxDelay + unread
      BY <2>3 DEF Answered
    <3>5. KeepAliveInterval <= pingTimer' + MaxDelay + (unread + 1)
      <4> DEFINE left == pingTimer'
      <4>1. /\ KeepAliveInterval \in Nat /\ MaxDelay \in Nat /\ pingTimer \in Nat
            /\ left \in Nat /\ left >= pingTimer - 1 /\ unread \in Nat
        BY <2>1, Constants DEF Values
      <4> HIDE DEF left
      <4>2. KeepAliveInterval <= left + MaxDelay + (unread + 1)
        BY <3>4, <4>1
      <4> QED
        BY <4>2 DEF left
    <3> QED
      BY <3>3, <3>5
  <2> QED
    BY <2>2, <2>3
<1>29. CASE UNCHANGED vars
  BY <1>29, AnsweredKept DEF vars, clientVars, netVars, history
<1>30. CASE HandlerReturns
  BY <1>30, AnsweredKept DEF HandlerReturns, clientVars, netVars, history
<1> QED
  BY <1>1, <1>2, <1>3, <1>4, <1>5, <1>6, <1>7, <1>8, <1>9, <1>10, <1>11, <1>12, <1>13,
     <1>14, <1>15, <1>16, <1>17, <1>18, <1>19, <1>20, <1>21, <1>22, <1>23, <1>24, <1>25,
     <1>26, <1>27, <1>28, <1>29, <1>30
     DEF Next, ConnectStep, YieldStep, Environment

\* A live connection is taken for dead only if handlers and the application's
\* absence have kept the broker's answer from being read for at least an interval
\* less the time the answer was on its way: yield itself wastes none of it.
THEOREM NeverAlarmed == Spec => []NoFalseAlarm
<1>1. Init => Answered
  BY DEF Init, Answered
<1>2. (Flags /\ Values /\ Linked /\ Timed) /\ Answers /\ Answered /\ [Next]_vars
      => Answered'
  BY AnsweredNext
<1>3. (Flags /\ Values /\ Linked /\ Timed) /\ Answers /\ Answered => NoFalseAlarm
  <2> SUFFICES ASSUME Values, Answered, link = "up", pingTimer = 0, isPingOutstanding
               PROVE  unread + MaxDelay >= KeepAliveInterval
    BY DEF NoFalseAlarm
  <2>1. CASE pong # NoPong
    BY <2>1, Constants DEF Answered, Values, NoPong
  <2>2. CASE pong = NoPong
    BY <2>2, Constants DEF Answered, Values
  <2> QED
    BY <2>1, <2>2
<1> QED
  BY <1>1, <1>2, <1>3, AnswersAlways, LinkedAlways, PTL DEF Spec

-----------------------------------------------------------------------------
(* A dead connection is noticed *)

LEMMA StayFacts ==
    /\ Values /\ Timed => Stay \in Nat /\ Stay <= Delay
    /\ (Values /\ Timed => Stay \in Nat /\ Stay <= Delay)'
<1>1. Values /\ Timed => Stay \in Nat /\ Stay <= Delay
  BY Constants DEF Stay, Values, Timed, Delay
<1> QED
  BY <1>1, PTL

Looks ==
    /\ DeadLook \in Nat /\ SilentLook \in Nat
    /\ ~Opening => /\ DeadLook <= KeepAliveInterval + Round
                   /\ SilentLook <= KeepAliveInterval + Round

LEMMA LookFacts ==
    /\ Values /\ Linked /\ Timed => Looks
    /\ (Values /\ Linked /\ Timed => Looks)'
<1>1. Values /\ Linked /\ Timed => Looks
  BY Constants DEF Looks, DeadLook, SilentLook, NextLook, Values, Timed, Opening, Round
<1> QED
  BY <1>1, PTL

LEMMA DeadBoundFixed == DeadBound \in Nat /\ DeadBound' = DeadBound
<1>1. DelayBound \in Nat
  BY Constants, Products DEF DelayBound, Delay
<1> QED
  BY <1>1, Constants DEF DeadBound, DelayBound, Delay, Round

LEMMA DeadTimeType ==
    ASSUME Values, Linked, Timed, Answers
    PROVE  DeadTime \in Nat /\ (~Opening => DeadTime <= DeadBound)
<1>1. Stay \in Nat /\ Stay <= Delay
  BY StayFacts
<1>2. DeadLook \in Nat /\ (~Opening => DeadLook <= KeepAliveInterval + Round)
  BY LookFacts DEF Looks
<1>3. /\ DelayWaits \in Nat /\ DelayWaits <= DelayBound
      /\ ~AnswerWaits => DelayWaits + Delay <= DelayBound
      /\ AnswerWaits => Delay <= DelayWaits
      /\ Round \in Nat /\ DelayBound \in Nat /\ Delay \in Nat
  BY CostTypes
<1>4. CASE AnswerWaits
  BY <1>1, <1>3, <1>4, Constants DEF DeadTime, DeadBound
<1>5. CASE ~AnswerWaits
  BY <1>2, <1>3, <1>5, Constants DEF DeadTime, DeadBound
<1> QED
  BY <1>4, <1>5

LEMMA DeadTimeMax ==
    ASSUME (Values /\ Linked /\ Timed /\ Answers)'
    PROVE  DeadTime' \in Nat /\ (~Opening' => DeadTime' <= DeadBound)
<1>1. (Values /\ Linked /\ Timed /\ Answers
         => DeadTime \in Nat /\ (~Opening => DeadTime <= DeadBound))'
  BY DeadTimeType, PTL
<1> QED
  BY <1>1, DeadBoundFixed

LEMMA DeadTimeDown ==
    ASSUME Values, Linked, Timed, Answers, (Values /\ Linked /\ Timed /\ Answers)',
           DelayWaits' = DelayWaits, AnswerWaits' <=> AnswerWaits,
           isPingOutstanding' = isPingOutstanding,
           Stay' <= Stay, DeadLook' <= DeadLook
    PROVE  DeadTime' <= DeadTime
<1> DEFINE stay == Stay'
           look == DeadLook'
           time == DeadTime'
<1>1. /\ Stay \in Nat /\ DeadLook \in Nat
      /\ DelayWaits \in Nat /\ Delay \in Nat /\ Round \in Nat
      /\ KeepAliveInterval \in Nat
  BY StayFacts, LookFacts, CostTypes, Constants DEF Looks
<1>2. stay \in Nat /\ look \in Nat /\ stay <= Stay /\ look <= DeadLook
  BY StayFacts, LookFacts DEF Looks
<1>3. time = DelayWaits
             + (IF AnswerWaits THEN stay - Delay + 2 * (KeepAliveInterval + Round)
                ELSE IF isPingOutstanding THEN look
                ELSE look + KeepAliveInterval + Round)
  BY DEF DeadTime, Round, Delay
<1> HIDE DEF stay, look, time
<1>4. time <= DeadTime
  BY <1>1, <1>2, <1>3 DEF DeadTime
<1> QED
  BY <1>4 DEF time

LEMMA DyingKept ==
    ASSUME Dying, UNCHANGED << link, deadFor >>,
           link = "dead" => DeadTime' <= DeadTime,
           Values, Linked, Timed, Answers, (Values /\ Linked /\ Timed /\ Answers)'
    PROVE  Dying'
<1> DEFINE time == DeadTime'
<1>1. DeadTime \in Nat /\ time \in Nat /\ deadFor \in Nat
  BY DeadTimeType, DeadTimeMax DEF Values
<1>2. CASE link = "dead"
  <2>1. deadFor + DeadTime <= DeadBound /\ time <= DeadTime
    BY <1>2 DEF Dying
  <2>2. deadFor + time <= DeadBound
    <3> HIDE DEF time
    <3> QED
      BY <1>1, <2>1, DeadBoundFixed
  <2> QED
    BY <1>2, <2>2, DeadBoundFixed DEF Dying
<1>3. CASE link # "dead"
  BY <1>3 DEF Dying
<1> QED
  BY <1>2, <1>3

LEMMA DyingNext ==
    ASSUME KeepAliveInterval > 0, Flags, Values, Linked, Timed, Answers, Dying,
           (Values /\ Linked /\ Timed /\ Answers)', [Next]_vars
    PROVE  Dying'
<1> USE Constants, ConnectedFacts, CostTypes
<1>1. CASE Connect
  BY <1>1 DEF Connect, Dying, Linked, Opening, Reached, ValidForConnect, clientVars,
     netVars, history
<1>2. CASE AttemptReconnect
  BY <1>2 DEF AttemptReconnect, Dying, Linked, Opening, Reached, clientVars, netVars,
     history
<1>3. CASE Yield
  <2>1. /\ UNCHANGED << DelayWaits, isPingOutstanding >>
        /\ AnswerWaits' <=> AnswerWaits
    BY <1>3, CostSame DEF Yield, netVars, history
  <2>2. Stay' <= Stay
    BY <1>3 DEF Yield, Stay, Values, Timed, netVars, history
  <2>3. Connected => DeadLook' <= DeadLook
    BY <1>3, CostSame DEF Yield, DeadLook, NextLook, Round, Values, Timed, netVars,
       history
  <2>4. link = "dead" => DeadTime' <= DeadTime
    BY <2>1, <2>2, <2>3, DeadTimeDown DEF Linked
  <2>8. UNCHANGED << link, deadFor >>
    BY <1>3 DEF Yield, netVars, history
  <2> QED
    BY <2>4, <2>8, DyingKept
<1>4. CASE ConnectSucceeds
  BY <1>4 DEF ConnectSucceeds, ConnectedAgain, NewEpisode, Dying
<1>5. CASE ConnectFails
  BY <1>5 DEF ConnectFails, NewEpisode, Dying, Linked, Opening, Reached, netVars
<1>6. CASE LoopRead
  <2>1. /\ UNCHANGED << DelayWaits, isPingOutstanding >>
        /\ AnswerWaits' <=> AnswerWaits
    BY <1>6, CostSame DEF LoopRead, clientVars, netVars, history
  <2>2. Stay' <= Stay
    BY <1>6 DEF LoopRead, Stay, Values, Timed, clientVars, netVars, history
  <2>3. Connected => DeadLook' <= DeadLook
    BY <1>6, CostSame DEF LoopRead, DeadLook, NextLook, Round, Values, Timed,
       clientVars, netVars, history
  <2>4. link = "dead" => DeadTime' <= DeadTime
    BY <2>1, <2>2, <2>3, DeadTimeDown DEF Linked
  <2>8. UNCHANGED << link, deadFor >>
    BY <1>6 DEF LoopRead, clientVars, netVars, history
  <2> QED
    BY <2>4, <2>8, DyingKept
<1>7. CASE LoopGiveUp
  BY <1>7 DEF LoopGiveUp, Leave, Dying, Linked, Reached, netVars, history
<1>8. CASE ReconnectTooEarly
  BY <1>8 DEF ReconnectTooEarly, Dying, Linked, Reached, clientVars, netVars, history
<1>9. CASE HandleReconnect
  BY <1>9 DEF HandleReconnect, Dying, Linked, Opening, Reached, clientVars, netVars
<1>10. CASE Reconnected
  BY <1>10 DEF Reconnected, ConnectedAgain, NewEpisode, Dying
<1>11. CASE ReconnectFails
  BY <1>11 DEF ReconnectFails, DoubleInterval, Dying, Linked, Opening, Reached, netVars,
     history
<1>12. CASE ReconnectedPartly
  BY <1>12 DEF ReconnectedPartly, ConnectedAgain, DoubleInterval, NewEpisode, Dying
<1>13. CASE ReadPacket
  <2>1. /\ DelayWaits' = DelayWaits - Delay
        /\ Head(inbox) = "PINGRESP" => AnswerWaits /\ ~AnswerWaits'
        /\ Head(inbox) # "PINGRESP" => (AnswerWaits' <=> AnswerWaits)
        /\ inbox # << >>
    BY <1>13, CostRead DEF ReadPacket
  <2>2. ASSUME Head(inbox) = "PINGRESP" PROVE DeadTime' <= DeadTime
    <3>1. /\ ~isPingOutstanding' /\ pingTimer' = KeepAliveInterval
          /\ AnswerWaits /\ ~AnswerWaits'
      BY <1>13, <2>1, <2>2 DEF ReadPacket, PingAnswered
    <3>2. DeadLook' = KeepAliveInterval + Round
      BY <3>1 DEF DeadLook, NextLook, Round
    <3>3. DeadTime' = DelayWaits - Delay
                      + (KeepAliveInterval + Round + KeepAliveInterval + Round)
      BY <2>1, <3>1, <3>2 DEF DeadTime, Round
    <3>4. DelayWaits - Delay + (KeepAliveInterval + Round + KeepAliveInterval + Round)
          <= DeadTime
      BY <3>1, StayFacts DEF DeadTime
    <3> QED
      BY <3>3, <3>4
  <2>3. ASSUME Head(inbox) # "PINGRESP" PROVE DeadTime' <= DeadTime
    <3>1. /\ UNCHANGED << isPingOutstanding, pingTimer, timer >>
          /\ pc = "read" /\ pc' = "handler" /\ busy' = HandlerTime
      BY <1>13, <2>3 DEF ReadPacket
    <3> DEFINE look == DeadLook'
               stay == Stay'
    <3>2. stay = HandlerTime + MaxAway
      BY <3>1 DEF Stay
    <3>3. /\ DeadLook = IF pingTimer > 0 THEN pingTimer + Round ELSE YieldTime + HandlerTime
          /\ look = IF pingTimer > 0 THEN pingTimer + Round ELSE HandlerTime
      BY <2>1, <3>1 DEF DeadLook, NextLook, Round
    <3>4. DeadTime' = DelayWaits - Delay
                      + (IF AnswerWaits THEN stay - Delay + 2 * (KeepAliveInterval + Round)
                         ELSE IF isPingOutstanding THEN look
                         ELSE look + KeepAliveInterval + Round)
      BY <2>1, <2>3, <3>1 DEF DeadTime, Round, Delay
    <3> HIDE DEF look, stay
    <3>5. Stay \in Nat /\ pingTimer \in Nat
      BY StayFacts DEF Values
    <3>6. look <= DeadLook /\ look \in Nat /\ DeadLook \in Nat
      BY <3>3, <3>5
    <3>7. DelayWaits - Delay
            + (IF AnswerWaits THEN stay - Delay + 2 * (KeepAliveInterval + Round)
               ELSE IF isPingOutstanding THEN look
               ELSE look + KeepAliveInterval + Round)
          <= DeadTime
      BY <3>2, <3>5, <3>6 DEF DeadTime
    <3> QED
      BY <3>4, <3>7
  <2>4. DeadTime' <= DeadTime
    BY <2>2, <2>3
  <2>8. UNCHANGED << link, deadFor >>
    BY <1>13 DEF ReadPacket
  <2> QED
    BY <2>4, <2>8, DyingKept
<1>14. CASE ReadUnusable
  <2>1. /\ DelayWaits' = DelayWaits - Delay /\ inbox # << >>
        /\ AnswerWaits' <=> AnswerWaits
    BY <1>14, CostRead DEF ReadUnusable
  <2>2. /\ UNCHANGED << isPingOutstanding, pingTimer >> /\ pc = "read"
        /\ pc' = "app" /\ timer' = 0
    BY <1>14 DEF ReadUnusable, Leave
  <2>3. Stay' = MaxAway
    BY <2>2 DEF Stay
  <2> DEFINE look == DeadLook'
  <2>4. /\ DeadLook = IF pingTimer > 0 THEN pingTimer + Round ELSE YieldTime + HandlerTime
        /\ look = IF pingTimer > 0 THEN pingTimer + Round
                  ELSE MaxAway - 0 + YieldTime + HandlerTime
    BY <2>1, <2>2 DEF DeadLook, NextLook, Round
  <2>5. DeadTime' = DelayWaits - Delay
                    + (IF AnswerWaits THEN MaxAway - Delay + 2 * (KeepAliveInterval + Round)
                       ELSE IF isPingOutstanding THEN look
                       ELSE look + KeepAliveInterval + Round)
    BY <2>1, <2>2, <2>3 DEF DeadTime, Round, Delay
  <2> HIDE DEF look
  <2>6. Stay \in Nat /\ pingTimer \in Nat
    BY StayFacts DEF Values
  <2>7. look <= DeadLook + MaxAway /\ look \in Nat /\ DeadLook \in Nat
    BY <2>4, <2>6
  <2>9. DelayWaits - Delay
            + (IF AnswerWaits THEN MaxAway - Delay + 2 * (KeepAliveInterval + Round)
               ELSE IF isPingOutstanding THEN look ELSE look + KeepAliveInterval + Round)
        <= DeadTime
    BY <2>6, <2>7 DEF DeadTime
  <2>10. DeadTime' <= DeadTime
    BY <2>5, <2>9
  <2>8. UNCHANGED << link, deadFor >>
    BY <1>14 DEF ReadUnusable, Leave, history
  <2> QED
    BY <2>10, <2>8, DyingKept
<1>15. CASE ReadNothing
  <2>1. /\ UNCHANGED << DelayWaits, isPingOutstanding >>
        /\ AnswerWaits' <=> AnswerWaits
    BY <1>15, CostSame DEF ReadNothing, clientVars, netVars, history
  <2>2. Stay' <= Stay
    BY <1>15 DEF ReadNothing, Stay, Values, Timed, clientVars, netVars, history
  <2>3. Connected => DeadLook' <= DeadLook
    BY <1>15, CostSame DEF ReadNothing, DeadLook, NextLook, Round, Values, Timed,
       clientVars, netVars, history
  <2>4. link = "dead" => DeadTime' <= DeadTime
    BY <2>1, <2>2, <2>3, DeadTimeDown DEF Linked
  <2>8. UNCHANGED << link, deadFor >>
    BY <1>15 DEF ReadNothing, clientVars, netVars, history
  <2> QED
    BY <2>4, <2>8, DyingKept
<1>16. CASE ReadError
  BY <1>16, LostFacts DEF ReadError, Dying
<1>17. CASE NothingDue
  <2>1. /\ UNCHANGED << DelayWaits, isPingOutstanding >>
        /\ AnswerWaits' <=> AnswerWaits
    BY <1>17, CostSame DEF NothingDue, clientVars, netVars, history
  <2>2. Stay' <= Stay
    BY <1>17 DEF NothingDue, Stay, Values, Timed, clientVars, netVars, history
  <2>3. Connected => DeadLook' <= DeadLook
    BY <1>17, CostSame DEF NothingDue, DeadLook, NextLook, Round, Values, Timed,
       clientVars, netVars, history
  <2>4. link = "dead" => DeadTime' <= DeadTime
    BY <2>1, <2>2, <2>3, DeadTimeDown DEF Linked
  <2>8. UNCHANGED << link, deadFor >>
    BY <1>17 DEF NothingDue, clientVars, netVars, history
  <2> QED
    BY <2>4, <2>8, DyingKept
<1>18. CASE PingOverdue
  BY <1>18, LostFacts DEF PingOverdue, Dying
<1>19. CASE SendPing
  <2>1. /\ DelayWaits' = DelayWaits
        /\ ~AnswerWaits /\ ~AnswerWaits'
        /\ ~isPingOutstanding /\ isPingOutstanding'
    BY <1>19, CostSame DEF SendPing, PingSent, Answers
  <2>2. DeadLook' = KeepAliveInterval + Round
    BY <1>19 DEF SendPing, PingSent, DeadLook, NextLook, Round
  <2>3. DeadTime' = DelayWaits + (KeepAliveInterval + Round)
    BY <2>1, <2>2 DEF DeadTime, Round
  <2>4. DelayWaits + (KeepAliveInterval + Round) <= DeadTime
    BY <2>1, LookFacts DEF DeadTime, Looks
  <2>5. DeadTime' <= DeadTime
    BY <2>3, <2>4
  <2>8. UNCHANGED << link, deadFor >>
    BY <1>19 DEF SendPing, PingSent
  <2> QED
    BY <2>5, <2>8, DyingKept
<1>20. CASE SendPingFails
  BY <1>20, LostFacts DEF SendPingFails, Dying
<1>21. CASE Again
  <2>1. /\ UNCHANGED << DelayWaits, isPingOutstanding >>
        /\ AnswerWaits' <=> AnswerWaits
    BY <1>21, CostSame DEF Again, clientVars, netVars, history
  <2>2. Stay' <= Stay
    BY <1>21 DEF Again, Stay, Values, Timed, clientVars, netVars, history
  <2>3. Connected => DeadLook' <= DeadLook
    BY <1>21, CostSame DEF Again, DeadLook, NextLook, Round, Values, Timed, clientVars,
       netVars, history
  <2>4. link = "dead" => DeadTime' <= DeadTime
    BY <2>1, <2>2, <2>3, DeadTimeDown DEF Linked
  <2>8. UNCHANGED << link, deadFor >>
    BY <1>21 DEF Again, clientVars, netVars, history
  <2> QED
    BY <2>4, <2>8, DyingKept
<1>22. CASE YieldReturns
  <2>1. /\ UNCHANGED << DelayWaits, isPingOutstanding >>
        /\ AnswerWaits' <=> AnswerWaits
    BY <1>22, CostSame DEF YieldReturns, Leave, netVars, history
  <2>2. Stay' <= Stay
    BY <1>22 DEF YieldReturns, Leave, Stay, Values, Timed, netVars, history
  <2>3. Connected => DeadLook' <= DeadLook
    BY <1>22, CostSame DEF YieldReturns, Leave, DeadLook, NextLook, Round, Values,
       Timed, netVars, history
  <2>4. link = "dead" => DeadTime' <= DeadTime
    BY <2>1, <2>2, <2>3, DeadTimeDown DEF Linked
  <2>8. UNCHANGED << link, deadFor >>
    BY <1>22 DEF YieldReturns, Leave, netVars, history
  <2> QED
    BY <2>4, <2>8, DyingKept
<1>23. CASE Publish
  BY <1>23 DEF Publish, Arrive, Dying, clientVars, history
<1>24. CASE PublishUnusable
  BY <1>24 DEF PublishUnusable, Arrive, Dying, clientVars, history
<1>25. CASE PingResp
  BY <1>25 DEF PingResp, Dying, clientVars, history
<1>26. CASE LinkFails
  <2>1. DeadTime' \in Nat /\ DeadTime' <= DeadBound
    BY <1>26, DeadTimeMax DEF LinkFails, Linked, Opening
  <2>2. CASE link' = "dead"
    <3> DEFINE time == DeadTime'
    <3>1. time \in Nat /\ time <= DeadBound
      BY <2>1
    <3> HIDE DEF time
    <3>2. 0 + time <= DeadBound
      BY <3>1
    <3>3. deadFor' = 0
      BY <1>26 DEF LinkFails, Dying, history
    <3> QED
      BY <2>2, <3>2, <3>3, DeadBoundFixed DEF Dying, time
  <2>3. CASE link' # "dead"
    BY <1>26, <2>3 DEF LinkFails, Dying, history
  <2> QED
    BY <2>2, <2>3
<1>27. CASE NetworkChanges
  BY <1>27, CostSame DEF NetworkChanges, Dying, DeadTime, DeadLook, NextLook, Stay,
     clientVars, history
<1>28. CASE Tick
  <2>1. CASE link # "dead"
    BY <1>28, <2>1 DEF Tick, Dying
  <2>2. CASE link = "dead"
    <3>1. /\ DelayWaits' = DelayWaits /\ inbox' = inbox
          /\ AnswerWaits' <=> AnswerWaits
          /\ UNCHANGED << isPingOutstanding, pc >>
      BY <1>28, CostSame DEF Tick
    <3>2. /\ Connected
          /\ \/ pc = "app" /\ timer < MaxAway /\ timer' = timer + 1
             \/ pc = "read" /\ timer > 0 /\ timer' = timer - 1 /\ inbox = << >>
             \/ pc = "handler" /\ busy > 0 /\ busy' = busy - 1
      BY <1>28, <2>2 DEF Tick, Down, Spinning, Waiting, Away, Connecting, Handling, Linked,
         Opening,
         Reached, Values
    <3> DEFINE look == DeadLook'
               time == DeadTime'
               stay == Stay'
    <3>3. AnswerWaits => stay = Stay - 1
      <4>1. timer \in Nat /\ busy \in Nat /\ MaxAway \in Nat
        BY DEF Values
      <4>2. CASE pc = "app"
        <5>1. Stay = MaxAway - timer /\ stay = MaxAway - (timer + 1)
          BY <3>1, <3>2, <4>2 DEF Stay
        <5> QED
          BY <4>1, <5>1
      <4>3. CASE pc = "handler"
        <5>1. Stay = busy + MaxAway /\ stay = busy - 1 + MaxAway
          BY <3>1, <3>2, <4>3 DEF Stay
        <5> QED
          BY <4>1, <5>1
      <4>4. CASE pc = "read"
        BY <3>2, <4>4, NothingToRead
      <4> QED
        BY <3>2, <4>2, <4>3, <4>4
    <3>4. look <= DeadLook - 1
      <4>1. /\ pingTimer > 0 => pingTimer' = pingTimer - 1
            /\ pingTimer = 0 => pingTimer' = 0
            /\ pingTimer \in Nat /\ timer \in Nat /\ busy \in Nat
        BY <1>28 DEF Tick, Down, Values
      <4>2. /\ pc = "read" => timer <= YieldTime
            /\ pc = "handler" => busy <= HandlerTime
        BY DEF Timed
      <4> DEFINE soon == IF pc = "app" THEN MaxAway - timer + YieldTime + HandlerTime
                         ELSE IF pc = "handler" THEN busy ELSE timer + HandlerTime
      <4>3. /\ pingTimer > 0 => DeadLook = pingTimer + Round
            /\ pingTimer = 0 => DeadLook = soon
        BY <3>2, <4>1 DEF DeadLook, NextLook
      <4>4. pingTimer <= 1 => pingTimer' = 0
        BY <4>1
      <4>5. /\ pingTimer > 1 => look = pingTimer - 1 + Round
            /\ pingTimer <= 1 => look = soon - 1
        <5>1. pingTimer > 1 => look = pingTimer - 1 + Round
          BY <4>1 DEF DeadLook, NextLook, Round
        <5>2. CASE pc = "app"
          BY <3>1, <3>2, <4>1, <4>4, <5>1, <5>2 DEF DeadLook, NextLook
        <5>3. CASE pc = "read"
          BY <3>1, <3>2, <4>1, <4>4, <5>1, <5>3 DEF DeadLook, NextLook
        <5>4. CASE pc = "handler"
          BY <3>1, <3>2, <4>1, <4>4, <5>1, <5>4 DEF DeadLook, NextLook
        <5> QED
          BY <3>2, <5>2, <5>3, <5>4
      <4>6. soon \in Nat /\ soon <= Round
        BY <3>2, <4>1, <4>2
      <4> HIDE DEF look, soon
      <4> QED
        BY <4>1, <4>3, <4>5, <4>6
    <3>5. time = DelayWaits + (IF AnswerWaits
                               THEN stay - Delay + 2 * (KeepAliveInterval + Round)
                               ELSE IF isPingOutstanding THEN look
                               ELSE look + KeepAliveInterval + Round)
      BY <3>1 DEF DeadTime, Round, Delay
    <3>6. /\ look \in Nat /\ DeadLook \in Nat /\ Stay \in Nat /\ deadFor \in Nat
          /\ time \in Nat /\ DeadTime \in Nat
      BY LookFacts, StayFacts, DeadTimeType, DeadTimeMax DEF Looks, Values
    <3>7. deadFor' = deadFor + 1 /\ link' = "dead" /\ deadFor + DeadTime <= DeadBound
      BY <1>28, <2>2, <3>2 DEF Tick, Dying
    <3> HIDE DEF look, time, stay
    <3>8. time <= DeadTime - 1
      <4>1. DelayWaits \in Nat /\ Delay \in Nat /\ Round \in Nat /\ KeepAliveInterval \in Nat
        BY CostTypes
      <4>2. CASE AnswerWaits
        BY <3>3, <3>5, <3>6, <4>1, <4>2 DEF DeadTime
      <4>3. CASE ~AnswerWaits
        BY <3>4, <3>5, <3>6, <4>1, <4>3 DEF DeadTime
      <4> QED
        BY <4>2, <4>3
    <3>9. deadFor + 1 + time <= DeadBound
      BY <3>6, <3>7, <3>8, DeadBoundFixed
    <3> QED
      BY <3>7, <3>9, DeadBoundFixed DEF Dying, time
  <2> QED
    BY <2>1, <2>2
<1>29. CASE UNCHANGED vars
  BY <1>29, CostSame DEF vars, clientVars, netVars, history, Dying, DeadTime, DeadLook,
     NextLook, Stay
<1>30. CASE HandlerReturns
  <2>1. /\ UNCHANGED << DelayWaits, isPingOutstanding >>
        /\ AnswerWaits' <=> AnswerWaits
    BY <1>30, CostSame DEF HandlerReturns, clientVars, netVars, history
  <2>2. Stay' <= Stay
    BY <1>30 DEF HandlerReturns, Stay, Values, Timed, clientVars, netVars, history
  <2>3. Connected => DeadLook' <= DeadLook
    BY <1>30 DEF HandlerReturns, DeadLook, NextLook, Round, Values, Timed, clientVars,
       netVars, history
  <2>4. link = "dead" => DeadTime' <= DeadTime
    BY <2>1, <2>2, <2>3, DeadTimeDown DEF Linked
  <2>8. UNCHANGED << link, deadFor >>
    BY <1>30 DEF HandlerReturns, clientVars, netVars, history
  <2> QED
    BY <2>4, <2>8, DyingKept
<1> QED
  BY <1>1, <1>2, <1>3, <1>4, <1>5, <1>6, <1>7, <1>8, <1>9, <1>10, <1>11, <1>12, <1>13,
     <1>14, <1>15, <1>16, <1>17, <1>18, <1>19, <1>20, <1>21, <1>22, <1>23, <1>24, <1>25,
     <1>26, <1>27, <1>28, <1>29, <1>30
     DEF Next, ConnectStep, YieldStep, Environment

\* A connection that goes silent without an error is given up after two
\* keep-alive intervals, each lengthened by the round of the application it has
\* to wait for, and by what the packets that were still to be read may cost:
\* the time of their handlers, and of the application between two yields.
THEOREM DeadIsNoticed == Spec => []DeadNoticed
<1>1. CASE KeepAliveInterval > 0
  <2>1. Init => Dying
    BY DEF Init, Dying
  <2> DEFINE Known == (Flags /\ Values /\ Linked /\ Timed) /\ Answers
  <2>2. Known /\ Known' /\ Dying /\ [Next]_vars => Dying'
    BY <1>1, DyingNext
  <2>3. Known /\ Dying => DeadNoticed
    <3> SUFFICES ASSUME Known, Dying PROVE deadFor <= DeadBound
      BY DEF DeadNoticed, DeadBound, DelayBound
    <3> QED
      BY DeadTimeType, DeadBoundFixed DEF Dying, Values
  <2> QED
    BY <2>1, <2>2, <2>3, AnswersAlways, LinkedAlways, PTL DEF Spec
<1>2. CASE ~(KeepAliveInterval > 0)
  <2>1. DeadNoticed
    BY <1>2 DEF DeadNoticed
  <2> QED
    BY <2>1, PTL
<1> QED
  BY <1>1, <1>2

-----------------------------------------------------------------------------
(* A broker is not left in silence *)

LEMMA SilentFixed == SilentBound \in Nat /\ SilentBound' = SilentBound
<1>1. RoundsBound \in Nat /\ DelayBound \in Nat
  BY Constants, Products DEF RoundsBound, Round, DelayBound, Delay
<1> QED
  BY <1>1, Constants DEF SilentBound, RoundsBound, Round, DelayBound, Delay

LEMMA SilentTimeType ==
    ASSUME Values, Linked, Timed, Answers
    PROVE  SilentTime \in Nat /\ (~Opening => SilentTime <= SilentBound)
<1>1. Stay \in Nat /\ Stay <= Delay
  BY StayFacts
<1>2. SilentLook \in Nat /\ (~Opening => SilentLook <= KeepAliveInterval + Round)
  BY LookFacts DEF Looks
<1>3. /\ RoundsLeft \in Nat /\ RoundsLeft + Round <= RoundsBound
      /\ Round \in Nat /\ RoundsBound \in Nat /\ Delay \in Nat /\ Round > 0
      /\ DelayBound \in Nat
      /\ AnswerWaits => DelayAhead \in Nat /\ DelayAhead + Delay <= DelayBound
  BY CostTypes, Constants
<1>4. pong \in Int /\ pong <= MaxDelay /\ -1 <= pong
  BY DEF Values
<1>5. CASE ~isPingOutstanding
  BY <1>2, <1>3, <1>5, Constants DEF SilentTime, SilentBound
<1>6. CASE isPingOutstanding /\ AnswerWaits
  BY <1>1, <1>3, <1>6, Constants DEF SilentTime, SilentBound
<1>7. CASE isPingOutstanding /\ ~AnswerWaits
  BY <1>3, <1>4, <1>7, Constants DEF SilentTime, SilentBound
<1> QED
  BY <1>5, <1>6, <1>7

LEMMA SilentTimeMax ==
    ASSUME (Values /\ Linked /\ Timed /\ Answers)'
    PROVE  SilentTime' \in Nat /\ (~Opening' => SilentTime' <= SilentBound)
<1>1. (Values /\ Linked /\ Timed /\ Answers
         => SilentTime \in Nat /\ (~Opening => SilentTime <= SilentBound))'
  BY SilentTimeType, PTL
<1> QED
  BY <1>1, SilentFixed

\* A ping or a new connection starts the silence anew.
LEMMA SilentStarts ==
    ASSUME (Values /\ Linked /\ Timed /\ Answers)', silentFor' = 0,
           link' # "up" \/ ~Opening'
    PROVE  Silent'
<1> DEFINE time == SilentTime'
<1>1. time \in Nat /\ (link' = "up" => time <= SilentBound)
  BY SilentTimeMax
<1> HIDE DEF time
<1>2. 0 <= SilentBound /\ (link' = "up" => 0 + time <= SilentBound)
  BY <1>1, SilentFixed
<1> QED
  BY <1>2, SilentFixed DEF Silent, time

LEMMA SilentTimeDown ==
    ASSUME Values, Linked, Timed, Answers, (Values /\ Linked /\ Timed /\ Answers)',
           RoundsLeft' = RoundsLeft, AnswerWaits' <=> AnswerWaits,
           DelayAhead' = DelayAhead,
           isPingOutstanding' = isPingOutstanding, pong' = pong,
           Stay' <= Stay, SilentLook' <= SilentLook
    PROVE  SilentTime' <= SilentTime
<1> DEFINE stay == Stay'
           look == SilentLook'
           time == SilentTime'
<1>1. /\ Stay \in Nat /\ SilentLook \in Nat /\ pong \in Int /\ DelayBound \in Nat
      /\ RoundsLeft \in Nat /\ Round \in Nat /\ KeepAliveInterval \in Nat
      /\ AnswerWaits => DelayAhead \in Nat
  BY StayFacts, LookFacts, CostTypes, Constants DEF Looks, Values
<1>2. stay \in Nat /\ look \in Nat /\ stay <= Stay /\ look <= SilentLook
  BY StayFacts, LookFacts DEF Looks
<1>3. time = RoundsLeft
             + (IF ~isPingOutstanding THEN look
                ELSE IF AnswerWaits THEN DelayAhead + stay + KeepAliveInterval + Round
                ELSE pong + DelayBound + KeepAliveInterval + Round)
  BY DEF SilentTime, Round, DelayBound, Delay
<1> HIDE DEF stay, look, time
<1>4. time <= SilentTime
  BY <1>1, <1>2, <1>3 DEF SilentTime
<1> QED
  BY <1>4 DEF time

LEMMA SilentKept ==
    ASSUME Silent, UNCHANGED << link, silentFor >>,
           link = "up" => SilentTime' <= SilentTime,
           Values, Linked, Timed, Answers, (Values /\ Linked /\ Timed /\ Answers)'
    PROVE  Silent'
<1> DEFINE time == SilentTime'
<1>1. SilentTime \in Nat /\ time \in Nat /\ silentFor \in Nat /\ silentFor <= SilentBound
  BY SilentTimeType, SilentTimeMax DEF Values, Silent
<1>2. CASE link = "up"
  <2>1. silentFor + SilentTime <= SilentBound /\ time <= SilentTime
    BY <1>2 DEF Silent
  <2>2. silentFor + time <= SilentBound
    <3> HIDE DEF time
    <3> QED
      BY <1>1, <2>1, SilentFixed
  <2> QED
    BY <1>1, <1>2, <2>2, SilentFixed DEF Silent
<1>3. CASE link # "up"
  BY <1>1, <1>3, SilentFixed DEF Silent
<1> QED
  BY <1>2, <1>3

LEMMA SilentNext ==
    ASSUME KeepAliveInterval > 0, Flags, Values, Linked, Timed, Answers, Silent,
           (Values /\ Linked /\ Timed /\ Answers)', [Next]_vars
    PROVE  Silent'
<1> USE Constants, ConnectedFacts, CostTypes
<1>1. CASE Connect
  BY <1>1, SilentFixed DEF Connect, Silent, Linked, Opening, Reached, ValidForConnect,
     clientVars, netVars, history
<1>2. CASE AttemptReconnect
  BY <1>2, SilentFixed DEF AttemptReconnect, Silent, Linked, Opening, Reached,
     clientVars, netVars, history
<1>3. CASE Yield
  <2>1. /\ UNCHANGED << RoundsLeft, DelayAhead, isPingOutstanding, pong >>
        /\ AnswerWaits' <=> AnswerWaits
    BY <1>3, CostSame DEF Yield, netVars, history
  <2>2. Stay' <= Stay
    BY <1>3 DEF Yield, Stay, Values, Timed, netVars, history
  <2>3. Connected => SilentLook' <= SilentLook
    BY <1>3 DEF Yield, SilentLook, NextLook, Round, Values, Timed, netVars, history
  <2>4. link = "up" => SilentTime' <= SilentTime
    BY <2>1, <2>2, <2>3, SilentTimeDown DEF Linked
  <2>8. UNCHANGED << link, silentFor >>
    BY <1>3 DEF Yield, netVars, history
  <2> QED
    BY <2>4, <2>8, SilentKept
<1>4. CASE ConnectSucceeds
  <2>1. silentFor' = 0 /\ ~Opening'
    BY <1>4 DEF ConnectSucceeds, ConnectedAgain, NewEpisode, Opening
  <2> QED
    BY <2>1, SilentStarts
<1>5. CASE ConnectFails
  <2>1. silentFor' = 0 /\ ~Opening'
    BY <1>5 DEF ConnectFails, NewEpisode, Opening
  <2> QED
    BY <2>1, SilentStarts
<1>6. CASE LoopRead
  <2>1. /\ UNCHANGED << RoundsLeft, DelayAhead, isPingOutstanding, pong >>
        /\ AnswerWaits' <=> AnswerWaits
    BY <1>6, CostSame DEF LoopRead, clientVars, netVars, history
  <2>2. Stay' <= Stay
    BY <1>6 DEF LoopRead, Stay, Values, Timed, clientVars, netVars, history
  <2>3. Connected => SilentLook' <= SilentLook
    BY <1>6 DEF LoopRead, SilentLook, NextLook, Round, Values, Timed, clientVars,
       netVars, history
  <2>4. link = "up" => SilentTime' <= SilentTime
    BY <2>1, <2>2, <2>3, SilentTimeDown DEF Linked
  <2>8. UNCHANGED << link, silentFor >>
    BY <1>6 DEF LoopRead, clientVars, netVars, history
  <2> QED
    BY <2>4, <2>8, SilentKept
<1>7. CASE LoopGiveUp
  BY <1>7, SilentFixed DEF LoopGiveUp, Leave, Silent, Linked, Reached, netVars, history
<1>8. CASE ReconnectTooEarly
  BY <1>8, SilentFixed DEF ReconnectTooEarly, Silent, Linked, Reached, clientVars,
     netVars, history
<1>9. CASE HandleReconnect
  BY <1>9, SilentFixed DEF HandleReconnect, Silent, Linked, Opening, Reached,
     clientVars, netVars
<1>10. CASE Reconnected
  <2>1. silentFor' = 0 /\ ~Opening'
    BY <1>10 DEF Reconnected, ConnectedAgain, NewEpisode, Opening
  <2> QED
    BY <2>1, SilentStarts
<1>11. CASE ReconnectFails
  BY <1>11, SilentFixed DEF ReconnectFails, DoubleInterval, Silent, Linked, Opening,
     Reached, netVars, history
<1>12. CASE ReconnectedPartly
  <2>1. silentFor' = 0 /\ ~Opening'
    BY <1>12 DEF ReconnectedPartly, ConnectedAgain, DoubleInterval, NewEpisode, Opening
  <2> QED
    BY <2>1, SilentStarts
<1>13. CASE ReadPacket
  <2>1. /\ RoundsLeft' = RoundsLeft
        /\ Head(inbox) = "PINGRESP" => AnswerWaits
        /\ Head(inbox) # "PINGRESP" => (AnswerWaits' <=> AnswerWaits)
        /\ Head(inbox) # "PINGRESP" /\ AnswerWaits => DelayAhead' = DelayAhead - Delay
    BY <1>13, CostRead DEF ReadPacket
  <2>2. ASSUME Head(inbox) = "PINGRESP" PROVE SilentTime' <= SilentTime
    <3>1. /\ ~isPingOutstanding' /\ pingTimer' = KeepAliveInterval
          /\ isPingOutstanding /\ AnswerWaits
      BY <1>13, <2>1, <2>2 DEF ReadPacket, PingAnswered, Answers
    <3>2. SilentLook' = KeepAliveInterval + Round
      BY <3>1 DEF SilentLook, NextLook, Round
    <3>3. SilentTime' = RoundsLeft + (KeepAliveInterval + Round)
      BY <2>1, <3>1, <3>2 DEF SilentTime
    <3>4. RoundsLeft + (KeepAliveInterval + Round) <= SilentTime
      BY <3>1, StayFacts DEF SilentTime
    <3> QED
      BY <3>3, <3>4
  <2>3. ASSUME Head(inbox) # "PINGRESP" PROVE SilentTime' <= SilentTime
    <3>1. /\ UNCHANGED << isPingOutstanding, pingTimer, timer, pong >>
          /\ pc = "read" /\ pc' = "handler" /\ busy' = HandlerTime
      BY <1>13, <2>3 DEF ReadPacket
    <3> DEFINE look == SilentLook'
               stay == Stay'
               ahead == DelayAhead'
    <3>2. stay = HandlerTime + MaxAway
      BY <3>1 DEF Stay
    <3>3. Stay \in Nat /\ pingTimer \in Nat /\ timer \in Nat /\ pong \in Int
      BY StayFacts DEF Values
    <3>4. /\ SilentLook = IF pingTimer > 0 THEN pingTimer + Round ELSE timer + HandlerTime
          /\ look = IF pingTimer > 0 THEN pingTimer + Round ELSE HandlerTime
      BY <3>1, <3>3 DEF SilentLook, NextLook, Round
    <3>5. SilentTime' = RoundsLeft
            + (IF ~isPingOutstanding THEN look
               ELSE IF AnswerWaits THEN ahead + stay + KeepAliveInterval + Round
               ELSE pong + DelayBound + KeepAliveInterval + Round)
      BY <2>1, <2>3, <3>1 DEF SilentTime, Round, DelayBound, Delay
    <3>6. AnswerWaits => ahead = DelayAhead - Delay
      BY <2>1, <2>3
    <3> HIDE DEF look, stay, ahead
    <3>7. look <= SilentLook /\ look \in Nat /\ SilentLook \in Nat
      BY <3>3, <3>4
    <3>8. RoundsLeft + (IF ~isPingOutstanding THEN look
                        ELSE IF AnswerWaits THEN ahead + stay + KeepAliveInterval + Round
                        ELSE pong + DelayBound + KeepAliveInterval + Round)
          <= SilentTime
      <4>1. /\ Delay \in Nat /\ Delay = HandlerTime + MaxAway /\ HandlerTime \in Nat
            /\ MaxAway \in Nat /\ RoundsLeft \in Nat /\ Round \in Nat
            /\ DelayBound \in Nat /\ KeepAliveInterval \in Nat
            /\ AnswerWaits => DelayAhead \in Nat
        BY CostTypes
      <4>2. CASE ~isPingOutstanding
        BY <3>7, <4>1, <4>2 DEF SilentTime
      <4>3. CASE isPingOutstanding /\ AnswerWaits
        <5>1. ahead + stay = DelayAhead /\ DelayAhead \in Nat
          BY <3>2, <3>6, <4>1, <4>3
        <5>2. ahead + stay + KeepAliveInterval + Round
              <= DelayAhead + Stay + KeepAliveInterval + Round
          BY <3>2, <3>3, <3>6, <4>1, <4>3, <5>1
        <5>3. SilentTime = RoundsLeft + (DelayAhead + Stay + KeepAliveInterval + Round)
          BY <4>3 DEF SilentTime
        <5>4. ahead \in Int /\ stay \in Int
          BY <3>2, <3>6, <4>1, <4>3, <5>1
        <5> QED
          BY <3>3, <4>1, <4>3, <5>1, <5>2, <5>3, <5>4
      <4>4. CASE isPingOutstanding /\ ~AnswerWaits
        BY <3>3, <4>1, <4>4 DEF SilentTime
      <4> QED
        BY <4>2, <4>3, <4>4
    <3> QED
      BY <3>5, <3>8
  <2>4. SilentTime' <= SilentTime
    BY <2>2, <2>3
  <2>8. UNCHANGED << link, silentFor >>
    BY <1>13 DEF ReadPacket
  <2> QED
    BY <2>4, <2>8, SilentKept
<1>14. CASE ReadUnusable
  <2>1. /\ RoundsLeft' = RoundsLeft - Round
        /\ AnswerWaits' <=> AnswerWaits
        /\ AnswerWaits => DelayAhead' = DelayAhead - Delay
    BY <1>14, CostRead DEF ReadUnusable
  <2>2. /\ UNCHANGED << isPingOutstanding, pingTimer, pong >> /\ pc = "read"
        /\ pc' = "app" /\ timer' = 0
    BY <1>14 DEF ReadUnusable, Leave
  <2>3. Stay' = MaxAway
    BY <2>2 DEF Stay
  <2> DEFINE look == SilentLook'
             ahead == DelayAhead'
  <2>4. Stay \in Nat /\ pingTimer \in Nat /\ timer \in Nat /\ pong \in Int
    BY StayFacts DEF Values
  <2>5. /\ SilentLook = IF pingTimer > 0 THEN pingTimer + Round ELSE timer + HandlerTime
        /\ look = IF pingTimer > 0 THEN pingTimer + Round
                  ELSE MaxAway - 0 + YieldTime + HandlerTime
    BY <2>2, <2>4 DEF SilentLook, NextLook, Round
  <2>6. SilentTime' = RoundsLeft - Round
            + (IF ~isPingOutstanding THEN look
               ELSE IF AnswerWaits THEN ahead + MaxAway + KeepAliveInterval + Round
               ELSE pong + DelayBound + KeepAliveInterval + Round)
    BY <2>1, <2>2, <2>3 DEF SilentTime, Round, DelayBound, Delay
  <2>7. AnswerWaits => ahead = DelayAhead - Delay
    BY <2>1
  <2> HIDE DEF look, ahead
  <2>9. look <= SilentLook + Round /\ look \in Nat /\ SilentLook \in Nat
    BY <2>4, <2>5
  <2>10. RoundsLeft - Round
            + (IF ~isPingOutstanding THEN look
               ELSE IF AnswerWaits THEN ahead + MaxAway + KeepAliveInterval + Round
               ELSE pong + DelayBound + KeepAliveInterval + Round)
        <= SilentTime
    <3>1. /\ Delay \in Nat /\ MaxAway <= Delay
          /\ MaxAway \in Nat /\ RoundsLeft \in Nat /\ Round \in Nat
          /\ DelayBound \in Nat /\ KeepAliveInterval \in Nat
          /\ AnswerWaits => DelayAhead \in Nat
      BY CostTypes
    <3>2. CASE ~isPingOutstanding
      BY <2>9, <3>1, <3>2 DEF SilentTime
    <3>3. CASE isPingOutstanding /\ AnswerWaits
      <4>1. SilentTime = RoundsLeft + (DelayAhead + Stay + KeepAliveInterval + Round)
        BY <3>3 DEF SilentTime
      <4>2. ahead = DelayAhead - Delay /\ DelayAhead \in Nat
        BY <2>7, <3>1, <3>3
      <4> QED
        BY <2>4, <3>1, <3>3, <4>1, <4>2
    <3>4. CASE isPingOutstanding /\ ~AnswerWaits
      BY <2>4, <3>1, <3>4 DEF SilentTime
    <3> QED
      BY <3>2, <3>3, <3>4
  <2>11. SilentTime' <= SilentTime
    BY <2>6, <2>10
  <2>8. UNCHANGED << link, silentFor >>
    BY <1>14 DEF ReadUnusable, Leave, history
  <2> QED
    BY <2>11, <2>8, SilentKept
<1>15. CASE ReadNothing
  <2>1. /\ UNCHANGED << RoundsLeft, DelayAhead, isPingOutstanding, pong >>
        /\ AnswerWaits' <=> AnswerWaits
    BY <1>15, CostSame DEF ReadNothing, clientVars, netVars, history
  <2>2. Stay' <= Stay
    BY <1>15 DEF ReadNothing, Stay, Values, Timed, clientVars, netVars, history
  <2>3. Connected => SilentLook' <= SilentLook
    BY <1>15 DEF ReadNothing, SilentLook, NextLook, Round, Values, Timed, clientVars,
       netVars, history
  <2>4. link = "up" => SilentTime' <= SilentTime
    BY <2>1, <2>2, <2>3, SilentTimeDown DEF Linked
  <2>8. UNCHANGED << link, silentFor >>
    BY <1>15 DEF ReadNothing, clientVars, netVars, history
  <2> QED
    BY <2>4, <2>8, SilentKept
<1>16. CASE ReadError
  BY <1>16, LostFacts, SilentStarts DEF ReadError
<1>17. CASE NothingDue
  <2>1. /\ UNCHANGED << RoundsLeft, DelayAhead, isPingOutstanding, pong >>
        /\ AnswerWaits' <=> AnswerWaits
    BY <1>17, CostSame DEF NothingDue, clientVars, netVars, history
  <2>2. Stay' <= Stay
    BY <1>17 DEF NothingDue, Stay, Values, Timed, clientVars, netVars, history
  <2>3. Connected => SilentLook' <= SilentLook
    BY <1>17 DEF NothingDue, SilentLook, NextLook, Round, Values, Timed, clientVars,
       netVars, history
  <2>4. link = "up" => SilentTime' <= SilentTime
    BY <2>1, <2>2, <2>3, SilentTimeDown DEF Linked
  <2>8. UNCHANGED << link, silentFor >>
    BY <1>17 DEF NothingDue, clientVars, netVars, history
  <2> QED
    BY <2>4, <2>8, SilentKept
<1>18. CASE PingOverdue
  BY <1>18, LostFacts, SilentStarts DEF PingOverdue
<1>19. CASE SendPing
  <2>1. silentFor' = 0 /\ ~Opening'
    BY <1>19 DEF SendPing, PingSent, Opening
  <2> QED
    BY <2>1, SilentStarts
<1>20. CASE SendPingFails
  BY <1>20, LostFacts, SilentStarts DEF SendPingFails
<1>21. CASE Again
  <2>1. /\ UNCHANGED << RoundsLeft, DelayAhead, isPingOutstanding, pong >>
        /\ AnswerWaits' <=> AnswerWaits
    BY <1>21, CostSame DEF Again, clientVars, netVars, history
  <2>2. Stay' <= Stay
    BY <1>21 DEF Again, Stay, Values, Timed, clientVars, netVars, history
  <2>3. Connected => SilentLook' <= SilentLook
    BY <1>21 DEF Again, SilentLook, NextLook, Round, Values, Timed, clientVars, netVars,
       history
  <2>4. link = "up" => SilentTime' <= SilentTime
    BY <2>1, <2>2, <2>3, SilentTimeDown DEF Linked
  <2>8. UNCHANGED << link, silentFor >>
    BY <1>21 DEF Again, clientVars, netVars, history
  <2> QED
    BY <2>4, <2>8, SilentKept
<1>22. CASE YieldReturns
  <2>1. /\ UNCHANGED << RoundsLeft, DelayAhead, isPingOutstanding, pong >>
        /\ AnswerWaits' <=> AnswerWaits
    BY <1>22, CostSame DEF YieldReturns, Leave, netVars, history
  <2>2. Stay' <= Stay
    BY <1>22 DEF YieldReturns, Leave, Stay, Values, Timed, netVars, history
  <2>3. Connected => SilentLook' <= SilentLook
    BY <1>22 DEF YieldReturns, Leave, SilentLook, NextLook, Round, Values, Timed,
       netVars, history
  <2>4. link = "up" => SilentTime' <= SilentTime
    BY <2>1, <2>2, <2>3, SilentTimeDown DEF Linked
  <2>8. UNCHANGED << link, silentFor >>
    BY <1>22 DEF YieldReturns, Leave, netVars, history
  <2> QED
    BY <2>4, <2>8, SilentKept
<1>23. CASE Publish
  <2>1. /\ UNCHANGED << RoundsLeft, DelayAhead >>
        /\ AnswerWaits' <=> AnswerWaits
    BY <1>23, CostArrives DEF Publish, Arrive, Packets
  <2>2. UNCHANGED << isPingOutstanding, pingTimer, pc, timer, busy, pong >>
    BY <1>23 DEF Publish, Arrive, clientVars
  <2>3. Stay' = Stay /\ SilentLook' = SilentLook
    BY <2>2 DEF Stay, SilentLook, NextLook, Round
  <2>4. Stay <= Stay /\ SilentLook <= SilentLook
    BY StayFacts, LookFacts DEF Looks
  <2>5. SilentTime' <= SilentTime
    BY <2>1, <2>2, <2>3, <2>4, SilentTimeDown
  <2>8. UNCHANGED << link, silentFor >>
    BY <1>23 DEF Publish, Arrive, clientVars, history
  <2> QED
    BY <2>5, <2>8, SilentKept
<1>24. CASE PublishUnusable
  <2>1. /\ UNCHANGED << RoundsLeft, DelayAhead >>
        /\ AnswerWaits' <=> AnswerWaits
    BY <1>24, CostArrives DEF PublishUnusable, Arrive, Packets
  <2>2. UNCHANGED << isPingOutstanding, pingTimer, pc, timer, busy, pong >>
    BY <1>24 DEF PublishUnusable, Arrive, clientVars
  <2>3. Stay' = Stay /\ SilentLook' = SilentLook
    BY <2>2 DEF Stay, SilentLook, NextLook, Round
  <2>4. Stay <= Stay /\ SilentLook <= SilentLook
    BY StayFacts, LookFacts DEF Looks
  <2>5. SilentTime' <= SilentTime
    BY <2>1, <2>2, <2>3, <2>4, SilentTimeDown
  <2>8. UNCHANGED << link, silentFor >>
    BY <1>24 DEF PublishUnusable, Arrive, clientVars, history
  <2> QED
    BY <2>5, <2>8, SilentKept
<1>25. CASE PingResp
  <2> DEFINE stay == Stay'
             ahead == DelayAhead'
  <2>1. /\ isPingOutstanding /\ isPingOutstanding' /\ ~AnswerWaits
        /\ pong \in Nat
    BY <1>25 DEF PingResp, Answers, Values, NoPong, clientVars
  <2>2. RoundsLeft' = RoundsLeft /\ AnswerWaits' /\ ahead = DelayWaits
    BY <1>25, <2>1, CostArrives DEF PingResp, Packets
  <2>3. SilentTime' = RoundsLeft + (ahead + stay + KeepAliveInterval + Round)
    BY <2>1, <2>2 DEF SilentTime, Round
  <2>4. stay \in Nat /\ stay <= Delay
    BY StayFacts
  <2> HIDE DEF stay, ahead
  <2>5. RoundsLeft + (ahead + stay + KeepAliveInterval + Round) <= SilentTime
    <3>1. /\ DelayWaits \in Nat /\ DelayWaits + Delay <= DelayBound /\ Delay \in Nat
          /\ DelayBound \in Nat /\ RoundsLeft \in Nat /\ Round \in Nat
          /\ KeepAliveInterval \in Nat
      BY <2>1, CostTypes
    <3>2. SilentTime = RoundsLeft + (pong + DelayBound + KeepAliveInterval + Round)
      BY <2>1 DEF SilentTime
    <3> QED
      BY <2>1, <2>2, <2>4, <3>1, <3>2
  <2>6. SilentTime' <= SilentTime
    BY <2>3, <2>5
  <2>8. UNCHANGED << link, silentFor >>
    BY <1>25 DEF PingResp, clientVars, history
  <2> QED
    BY <2>6, <2>8, SilentKept
<1>26. CASE LinkFails
  BY <1>26, SilentFixed DEF LinkFails, Silent, history
<1>27. CASE NetworkChanges
  <2>1. /\ UNCHANGED << RoundsLeft, DelayAhead >>
        /\ AnswerWaits' <=> AnswerWaits
    BY <1>27, CostSame DEF NetworkChanges
  <2>2. UNCHANGED << isPingOutstanding, pingTimer, pc, timer, busy, pong >>
    BY <1>27 DEF NetworkChanges, clientVars
  <2>3. Stay' = Stay /\ SilentLook' = SilentLook
    BY <2>2 DEF Stay, SilentLook, NextLook, Round
  <2>4. Stay <= Stay /\ SilentLook <= SilentLook
    BY StayFacts, LookFacts DEF Looks
  <2>5. SilentTime' <= SilentTime
    BY <2>1, <2>2, <2>3, <2>4, SilentTimeDown
  <2>8. UNCHANGED << link, silentFor >>
    BY <1>27 DEF NetworkChanges, clientVars, history
  <2> QED
    BY <2>5, <2>8, SilentKept
<1>28. CASE Tick
  <2>1. CASE link # "up"
    BY <1>28, <2>1, SilentFixed DEF Tick, Silent
  <2>2. CASE link = "up"
    <3>1. /\ RoundsLeft' = RoundsLeft /\ DelayAhead' = DelayAhead
          /\ AnswerWaits' <=> AnswerWaits
          /\ UNCHANGED << isPingOutstanding, pc >>
      BY <1>28, CostSame DEF Tick
    <3>2. /\ Connected
          /\ \/ pc = "app" /\ timer < MaxAway /\ timer' = timer + 1
             \/ pc = "read" /\ timer > 0 /\ timer' = timer - 1 /\ inbox = << >>
             \/ pc = "handler" /\ busy > 0 /\ busy' = busy - 1
      BY <1>28, <2>2 DEF Tick, Down, Spinning, Waiting, Away, Connecting, Handling, Linked,
         Opening, Reached, Values
    <3> DEFINE look == SilentLook'
               time == SilentTime'
               stay == Stay'
    <3>3. isPingOutstanding /\ ~AnswerWaits => pong' = pong - 1
      <4>1. isPingOutstanding /\ ~AnswerWaits => pong # NoPong
        BY <2>2 DEF Answers
      <4>2. /\ pong \in Int /\ -1 <= pong /\ pong # 0
            /\ pong > 0 => pong' = pong - 1
        BY <1>28 DEF Tick, Values
      <4> QED
        BY <4>1, <4>2 DEF NoPong
    <3>4. AnswerWaits => stay = Stay - 1
      <4>1. timer \in Nat /\ busy \in Nat /\ MaxAway \in Nat
        BY DEF Values
      <4>2. CASE pc = "app"
        <5>1. Stay = MaxAway - timer /\ stay = MaxAway - (timer + 1)
          BY <3>1, <3>2, <4>2 DEF Stay
        <5> QED
          BY <4>1, <5>1
      <4>3. CASE pc = "handler"
        <5>1. Stay = busy + MaxAway /\ stay = busy - 1 + MaxAway
          BY <3>1, <3>2, <4>3 DEF Stay
        <5> QED
          BY <4>1, <5>1
      <4>4. CASE pc = "read"
        BY <3>2, <4>4, NothingToRead
      <4> QED
        BY <3>2, <4>2, <4>3, <4>4
    <3>5. look <= SilentLook - 1
      <4>1. /\ pingTimer > 0 => pingTimer' = pingTimer - 1
            /\ pingTimer = 0 => pingTimer' = 0
            /\ pingTimer \in Nat /\ timer \in Nat /\ busy \in Nat
        BY <1>28 DEF Tick, Down, Values
      <4>2. /\ pc = "read" => timer <= YieldTime
            /\ pc = "handler" => busy <= HandlerTime
        BY DEF Timed
      <4> DEFINE soon == IF pc = "app" THEN MaxAway - timer + YieldTime + HandlerTime
                         ELSE IF pc = "handler" THEN busy ELSE timer + HandlerTime
      <4>3. /\ pingTimer > 0 => SilentLook = pingTimer + Round
            /\ pingTimer = 0 => SilentLook = soon
        BY <3>2, <4>1 DEF SilentLook, NextLook
      <4>4. pingTimer <= 1 => pingTimer' = 0
        BY <4>1
      <4>5. /\ pingTimer > 1 => look = pingTimer - 1 + Round
            /\ pingTimer <= 1 => look = soon - 1
        <5>1. pingTimer > 1 => look = pingTimer - 1 + Round
          BY <4>1 DEF SilentLook, NextLook, Round
        <5>2. CASE pc = "app"
          BY <3>1, <3>2, <4>1, <4>4, <5>1, <5>2 DEF SilentLook, NextLook
        <5>3. CASE pc = "read"
          BY <3>1, <3>2, <4>1, <4>4, <5>1, <5>3 DEF SilentLook, NextLook
        <5>4. CASE pc = "handler"
          BY <3>1, <3>2, <4>1, <4>4, <5>1, <5>4 DEF SilentLook, NextLook
        <5> QED
          BY <3>2, <5>2, <5>3, <5>4
      <4>6. soon \in Nat /\ soon <= Round
        BY <3>2, <4>1, <4>2
      <4> HIDE DEF look, soon
      <4> QED
        BY <4>1, <4>3, <4>5, <4>6
    <3>6. time = RoundsLeft
                 + (IF ~isPingOutstanding THEN look
                    ELSE IF AnswerWaits THEN DelayAhead + stay + KeepAliveInterval + Round
                    ELSE pong - 1 + DelayBound + KeepAliveInterval + Round)
      BY <3>1, <3>3 DEF SilentTime, Round, DelayBound, Delay
    <3>7. /\ look \in Nat /\ SilentLook \in Nat /\ silentFor \in Nat
          /\ time \in Nat /\ SilentTime \in Nat /\ Stay \in Nat /\ pong \in Int
      BY LookFacts, StayFacts, SilentTimeType, SilentTimeMax DEF Looks, Values
    <3>8. /\ silentFor' = silentFor + 1 /\ link' = "up"
          /\ silentFor + SilentTime <= SilentBound
      BY <1>28, <2>2, <3>2 DEF Tick, Silent
    <3> HIDE DEF look, time, stay
    <3>9. time <= SilentTime - 1
      <4>1. /\ RoundsLeft \in Nat /\ Round \in Nat /\ DelayBound \in Nat
            /\ KeepAliveInterval \in Nat
            /\ AnswerWaits => DelayAhead \in Nat
        BY CostTypes
      <4>2. CASE ~isPingOutstanding
        BY <3>5, <3>6, <3>7, <4>1, <4>2 DEF SilentTime
      <4>3. CASE isPingOutstanding /\ AnswerWaits
        <5>1. /\ time = RoundsLeft + (DelayAhead + stay + KeepAliveInterval + Round)
              /\ SilentTime = RoundsLeft + (DelayAhead + Stay + KeepAliveInterval + Round)
          BY <3>6, <4>3 DEF SilentTime
        <5>2. stay = Stay - 1 /\ Stay \in Nat /\ DelayAhead \in Nat
          BY <3>4, <3>7, <4>1, <4>3
        <5> QED
          BY <4>1, <5>1, <5>2
      <4>4. CASE isPingOutstanding /\ ~AnswerWaits
        <5>1. /\ time = RoundsLeft + (pong - 1 + DelayBound + KeepAliveInterval + Round)
              /\ SilentTime = RoundsLeft + (pong + DelayBound + KeepAliveInterval + Round)
          BY <3>6, <4>4 DEF SilentTime
        <5>2. pong \in Int
          BY <3>7
        <5> QED
          BY <4>1, <5>1, <5>2
      <4> QED
        BY <4>2, <4>3, <4>4
    <3>10. silentFor + 1 + time <= SilentBound /\ silentFor + 1 <= SilentBound
      BY <3>7, <3>8, <3>9, SilentFixed
    <3> QED
      BY <3>8, <3>10, SilentFixed DEF Silent, time
  <2> QED
    BY <2>1, <2>2
<1>29. CASE UNCHANGED vars
  BY <1>29, CostSame, SilentFixed DEF vars, clientVars, netVars, history, Silent,
     SilentTime, SilentLook, NextLook, Stay, Round
<1>30. CASE HandlerReturns
  <2>1. /\ UNCHANGED << RoundsLeft, DelayAhead, isPingOutstanding, pong >>
        /\ AnswerWaits' <=> AnswerWaits
    BY <1>30, CostSame DEF HandlerReturns, clientVars, netVars, history
  <2>2. Stay' <= Stay
    BY <1>30 DEF HandlerReturns, Stay, Values, Timed, clientVars, netVars, history
  <2>3. Connected => SilentLook' <= SilentLook
    BY <1>30 DEF HandlerReturns, SilentLook, NextLook, Round, Values, Timed, clientVars,
       netVars, history
  <2>4. link = "up" => SilentTime' <= SilentTime
    BY <2>1, <2>2, <2>3, SilentTimeDown DEF Linked
  <2>8. UNCHANGED << link, silentFor >>
    BY <1>30 DEF HandlerReturns, clientVars, netVars, history
  <2> QED
    BY <2>4, <2>8, SilentKept
<1> QED
  BY <1>1, <1>2, <1>3, <1>4, <1>5, <1>6, <1>7, <1>8, <1>9, <1>10, <1>11, <1>12, <1>13,
     <1>14, <1>15, <1>16, <1>17, <1>18, <1>19, <1>20, <1>21, <1>22, <1>23, <1>24, <1>25,
     <1>26, <1>27, <1>28, <1>29, <1>30
     DEF Next, ConnectStep, YieldStep, Environment

\* The broker hears from a live client in time: between two pings no more passes
\* than one interval, the time an answer takes on its way and behind the messages
\* that wait in front of it (their handlers, and the application between two
\* yields), and the rounds of the application that unusable packets cut short.
THEOREM SilenceIsBounded == Spec => []SilenceBounded
<1>1. CASE KeepAliveInterval > 0
  <2>1. Init => Silent
    BY SilentFixed DEF Init, Silent
  <2> DEFINE Known == (Flags /\ Values /\ Linked /\ Timed) /\ Answers
  <2>2. Known /\ Known' /\ Silent /\ [Next]_vars => Silent'
    BY <1>1, SilentNext
  <2>3. Silent => SilenceBounded
    BY DEF SilenceBounded, SilentBound, DelayBound, RoundsBound, Silent
  <2> QED
    BY <2>1, <2>2, <2>3, AnswersAlways, LinkedAlways, PTL DEF Spec
<1>2. CASE ~(KeepAliveInterval > 0)
  <2>1. SilenceBounded
    BY <1>2 DEF SilenceBounded
  <2> QED
    BY <2>1, PTL
<1> QED
  BY <1>1, <1>2

-----------------------------------------------------------------------------
(* The back-off is paced *)

\* A power of two is the number of subsets of a set, and one more element doubles
\* it: each subset is there with and without that element.
LEMMA Doubling ==
    /\ 2^0 = 1
    /\ \A n \in Nat : 2^n \in Nat /\ 2^(n + 1) = 2 * 2^n
<1>1. 2^0 = 1
  OBVIOUS
<1>2. ASSUME NEW n \in Nat PROVE 2^n \in Nat /\ 2^(n + 1) = 2 * 2^n
  <2> DEFINE Low == SUBSET (1..n)
             High == { S \cup { n + 1 } : S \in Low }
             with == [S \in Low |-> S \cup { n + 1 }]
  <2>1. IsFiniteSet(1..n) /\ Cardinality(1..n) = n
    BY FS_Interval
  <2>2. IsFiniteSet(1..(n + 1)) /\ Cardinality(1..(n + 1)) = n + 1
    BY FS_Interval
  <2>3. IsFiniteSet(Low) /\ Cardinality(Low) = 2^n
    BY <2>1, FS_SUBSET, Zenon
  <2>4. Cardinality(SUBSET (1..(n + 1))) = 2^(n + 1)
    BY <2>2, FS_SUBSET, Zenon
  <2>5. n + 1 \notin 1..n /\ 1..(n + 1) = (1..n) \cup { n + 1 }
    OBVIOUS
  <2>6. SUBSET (1..(n + 1)) = Low \cup High
    <3>1. ASSUME NEW T \in SUBSET (1..(n + 1)) PROVE T \in Low \cup High
      <4>1. CASE n + 1 \in T
        <5>1. T \ { n + 1 } \in Low /\ T = (T \ { n + 1 }) \cup { n + 1 }
          BY <2>5, <3>1, <4>1
        <5> QED
          BY <5>1
      <4>2. CASE n + 1 \notin T
        BY <2>5, <3>1, <4>2
      <4> QED
        BY <4>1, <4>2
    <3>2. Low \cup High \subseteq SUBSET (1..(n + 1))
      BY <2>5
    <3> QED
      BY <3>1, <3>2
  <2>7. Low \cap High = {}
    BY <2>5
  <2>8. with \in Bijection(Low, High)
    <3>1. with \in [Low -> High]
      BY Zenon
    <3>2. \A S, T \in Low : with[S] = with[T] => S = T
      <4> SUFFICES ASSUME NEW S \in Low, NEW T \in Low,
                          S \cup { n + 1 } = T \cup { n + 1 }
                   PROVE  S = T
        BY Zenon
      <4>1. n + 1 \notin S /\ n + 1 \notin T
        BY <2>5
      <4> QED
        BY <4>1
    <3>3. \A T \in High : \E S \in Low : with[S] = T
      BY Zenon
    <3> HIDE DEF with, Low, High
    <3> QED
      BY <3>1, <3>2, <3>3, Zenon DEF Bijection, Injection, Surjection, IsInjective
  <2> HIDE DEF with, Low, High
  <2>9. IsFiniteSet(High) /\ Cardinality(High) = Cardinality(Low)
    BY <2>3, <2>8, FS_Bijection, Zenon DEF ExistsBijection
  <2>10. Cardinality(Low \cup High)
         = Cardinality(Low) + Cardinality(High) - Cardinality(Low \cap High)
    BY <2>3, <2>9, FS_Union
  <2>11. Cardinality(Low \cap High) = 0
    BY <2>7, FS_EmptySet
  <2>12. Cardinality(Low) \in Nat
    BY <2>3, FS_CardinalityType
  <2>13. Cardinality(Low \cup High) = 2 * Cardinality(Low)
    BY <2>9, <2>10, <2>11, <2>12
  <2>14. 2^(n + 1) = 2 * Cardinality(Low)
    BY <2>4, <2>6, <2>13, Zenon
  <2> QED
    BY <2>3, <2>12, <2>14, Zenon
<1> QED
  BY <1>1, <1>2

LEMMA PacedKept ==
    ASSUME Paced, pc' = pc \/ (pc # "reconnect" /\ pc' # "reconnect"),
           UNCHANGED << ownEpisode, waitInterval, attempts, waited, reconnectTimer >>
    PROVE  Paced'
  BY DEF Paced

LEMMA PacedNext == Flags /\ Values /\ Linked /\ Paced /\ [Next]_vars => Paced'
<1> SUFFICES ASSUME Flags, Values, Linked, Paced, [Next]_vars PROVE Paced'
  OBVIOUS
<1>1. CASE Connect
  BY <1>1, PacedKept DEF Connect, clientVars, netVars, history
<1>2. CASE AttemptReconnect
  BY <1>2, PacedKept DEF AttemptReconnect, clientVars, netVars, history
<1>3. CASE Yield
  BY <1>3, PacedKept DEF Yield, netVars, history
<1>4. CASE ConnectSucceeds
  BY <1>4 DEF ConnectSucceeds, ConnectedAgain, NewEpisode, Paced
<1>5. CASE ConnectFails
  BY <1>5 DEF ConnectFails, NewEpisode, Paced
<1>6. CASE LoopRead
  BY <1>6, PacedKept DEF LoopRead, clientVars, netVars, history
<1>7. CASE LoopGiveUp
  BY <1>7, PacedKept DEF LoopGiveUp, Leave, netVars, history
<1>8. CASE ReconnectTooEarly
  BY <1>8, PacedKept DEF ReconnectTooEarly, clientVars, netVars, history
<1>9. CASE HandleReconnect
  <2> SUFFICES ASSUME ownEpisode, ownEpisode' PROVE Paced'
    BY <1>9 DEF HandleReconnect, Paced
  <2>1. /\ pc' = "reconnect" /\ attempts' = attempts + 1
        /\ waitInterval' = waitInterval /\ waited' = waited
        /\ pc # "reconnect" /\ reconnectTimer = 0 /\ waitInterval <= MaxReconnectWait
    BY <1>9 DEF HandleReconnect, clientVars
  <2>2. /\ waitInterval = MinReconnectWait * 2^attempts
        /\ waited >= 2 * waitInterval - MinReconnectWait
    BY <2>1 DEF Paced, Values
  <2>3. attempts + 1 - 1 = attempts /\ attempts + 1 > 0
    BY DEF Values
  <2>4. (IF pc = "reconnect" THEN attempts - 1 ELSE attempts)' = attempts + 1 - 1
    BY <2>1 DEF Values
  <2>5. waitInterval = MinReconnectWait * 2^(attempts + 1 - 1)
    BY <2>2, <2>3
  <2> QED
    BY <2>1, <2>2, <2>3, <2>4, <2>5, Zenon DEF Paced
<1>10. CASE Reconnected
  BY <1>10 DEF Reconnected, ConnectedAgain, NewEpisode, Paced
<1>11. CASE ReconnectFails
  <2> SUFFICES ASSUME ownEpisode, ownEpisode' PROVE Paced'
    BY <1>11 DEF ReconnectFails, Paced, history
  <2>1. /\ pc = "reconnect" /\ pc' = "again" /\ waitInterval' = 2 * waitInterval
        /\ UNCHANGED << attempts, waited >>
        /\ waitInterval' <= MaxReconnectWait => reconnectTimer' = waitInterval'
    BY <1>11, Constants DEF ReconnectFails, DoubleInterval, Values, history
  <2>2. /\ attempts - 1 \in Nat /\ waitInterval = MinReconnectWait * 2^(attempts - 1)
        /\ waitInterval <= MaxReconnectWait
        /\ waited >= 2 * waitInterval - MinReconnectWait
    BY <2>1 DEF Paced, Values
  <2>3. 2^attempts = 2 * 2^(attempts - 1) /\ 2^(attempts - 1) \in Nat
    <3>1. attempts - 1 + 1 = attempts
      BY DEF Values
    <3> QED
      BY <2>2, <3>1, Doubling
  <2> DEFINE power == 2^(attempts - 1)
  <2>4. waitInterval' = MinReconnectWait * 2^attempts
    <3>1. /\ waitInterval' = 2 * (MinReconnectWait * power)
          /\ 2^attempts = 2 * power /\ power \in Nat
      BY <2>1, <2>2, <2>3
    <3> HIDE DEF power
    <3> QED
      BY <3>1, Constants
  <2>5. /\ waitInterval' <= 2 * MaxReconnectWait
        /\ waited >= waitInterval' - MinReconnectWait
        /\ waitInterval' <= MaxReconnectWait =>
            waited + reconnectTimer' >= 2 * waitInterval' - MinReconnectWait
    BY <2>1, <2>2, Constants DEF Values
  <2> QED
    BY <2>1, <2>4, <2>5 DEF Paced
<1>12. CASE ReconnectedPartly
  BY <1>12 DEF ReconnectedPartly, ConnectedAgain, DoubleInterval, NewEpisode, Paced
<1>13. CASE ReadPacket
  BY <1>13, PacedKept DEF ReadPacket, PingAnswered, history
<1>14. CASE ReadUnusable
  BY <1>14, PacedKept DEF ReadUnusable, Leave, history
<1>15. CASE ReadNothing
  BY <1>15, PacedKept DEF ReadNothing, clientVars, netVars, history
<1>16. CASE ReadError
  <2>1. /\ attempts' = 0 /\ waited' = 0 /\ pc' # "reconnect"
        /\ ownEpisode' => /\ waitInterval' = MinReconnectWait
                          /\ reconnectTimer' = MinReconnectWait
    BY <1>16, LostFacts DEF ReadError
  <2> QED
    BY <2>1, Doubling, Constants DEF Paced
<1>17. CASE NothingDue
  BY <1>17, PacedKept DEF NothingDue, clientVars, netVars, history
<1>18. CASE PingOverdue
  <2>1. /\ attempts' = 0 /\ waited' = 0 /\ pc' # "reconnect"
        /\ ownEpisode' => /\ waitInterval' = MinReconnectWait
                          /\ reconnectTimer' = MinReconnectWait
    BY <1>18, LostFacts DEF PingOverdue
  <2> QED
    BY <2>1, Doubling, Constants DEF Paced
<1>19. CASE SendPing
  BY <1>19, PacedKept DEF SendPing, PingSent
<1>20. CASE SendPingFails
  <2>1. /\ attempts' = 0 /\ waited' = 0 /\ pc' # "reconnect"
        /\ ownEpisode' => /\ waitInterval' = MinReconnectWait
                          /\ reconnectTimer' = MinReconnectWait
    BY <1>20, LostFacts DEF SendPingFails
  <2> QED
    BY <2>1, Doubling, Constants DEF Paced
<1>21. CASE Again
  BY <1>21, PacedKept DEF Again, clientVars, netVars, history
<1>22. CASE YieldReturns
  BY <1>22, PacedKept DEF YieldReturns, Leave, netVars, history
<1>23. CASE Publish
  BY <1>23, PacedKept DEF Publish, Arrive, clientVars, history
<1>24. CASE PublishUnusable
  BY <1>24, PacedKept DEF PublishUnusable, Arrive, clientVars, history
<1>25. CASE PingResp
  BY <1>25, PacedKept DEF PingResp, clientVars, history
<1>26. CASE LinkFails
  BY <1>26, PacedKept DEF LinkFails, clientVars, history
<1>27. CASE NetworkChanges
  BY <1>27, PacedKept DEF NetworkChanges, clientVars, history
<1>28. CASE Tick
  <2> SUFFICES ASSUME ownEpisode, ownEpisode' PROVE Paced'
    BY <1>28 DEF Tick, Paced
  <2>1. /\ UNCHANGED << pc, attempts, waitInterval >>
        /\ waited' = IF pc # "reconnect" /\ waited < LongestWait THEN waited + 1 ELSE waited
        /\ reconnectTimer' = IF reconnectTimer > 0 THEN reconnectTimer - 1 ELSE 0
    BY <1>28 DEF Tick, Down
  <2>2. CASE pc = "reconnect"
    BY <2>1, <2>2 DEF Paced
  <2>3. CASE pc # "reconnect"
    <3>1. /\ waitInterval = MinReconnectWait * 2^attempts
          /\ attempts > 0 => waitInterval <= 2 * MaxReconnectWait
          /\ waited >= waitInterval - MinReconnectWait
          /\ waitInterval <= MaxReconnectWait =>
                waited + reconnectTimer >= 2 * waitInterval - MinReconnectWait
      BY <2>3 DEF Paced
    <3>2. waited' \in Nat /\ reconnectTimer' \in Nat /\ waited' >= waited
      BY <2>1, Constants DEF Values, LongestWait
    <3>3. waitInterval <= MaxReconnectWait =>
            waited' + reconnectTimer' >= 2 * waitInterval - MinReconnectWait
      BY <2>1, <2>3, <3>1, Constants DEF Values, LongestWait
    <3>4. waited' >= waitInterval - MinReconnectWait
      BY <3>1, <3>2, Constants DEF Values
    <3> QED
      BY <2>1, <2>3, <3>1, <3>3, <3>4 DEF Paced
  <2> QED
    BY <2>2, <2>3
<1>29. CASE UNCHANGED vars
  BY <1>29 DEF vars, clientVars, netVars, history, Paced
<1>30. CASE HandlerReturns
  BY <1>30, PacedKept DEF HandlerReturns, clientVars, netVars, history
<1> QED
  BY <1>1, <1>2, <1>3, <1>4, <1>5, <1>6, <1>7, <1>8, <1>9, <1>10, <1>11, <1>12, <1>13,
     <1>14, <1>15, <1>16, <1>17, <1>18, <1>19, <1>20, <1>21, <1>22, <1>23, <1>24, <1>25,
     <1>26, <1>27, <1>28, <1>29, <1>30
     DEF Next, ConnectStep, YieldStep, Environment

\* The n-th attempt of a back-off comes after waits of MIN, 2 * MIN, 4 * MIN and
\* so on, and none comes after a wait that would exceed the maximum.
THEOREM BackoffIsPaced == Spec => []BackoffPaced
<1>1. Init => Paced
  BY DEF Init, Paced
<1>2. (Flags /\ Values /\ Linked /\ Timed) /\ Paced /\ [Next]_vars => Paced'
  BY PacedNext
<1>3. Flags /\ Values /\ Linked /\ Timed /\ Paced => BackoffPaced
  <2> SUFFICES ASSUME Values, Paced, ownEpisode, attempts > 0
               PROVE  /\ waited >= MinReconnectWait * (2^attempts - 1)
                      /\ MinReconnectWait * 2^(attempts - 1) <= MaxReconnectWait
    BY DEF BackoffPaced
  <2> DEFINE power == 2^(attempts - 1)
  <2>1. attempts - 1 \in Nat /\ attempts - 1 + 1 = attempts
    BY DEF Values
  <2>2. power \in Nat /\ 2^attempts = 2 * power
    BY <2>1, Doubling
  <2>3. CASE pc = "reconnect"
    <3>1. /\ waitInterval = MinReconnectWait * power
          /\ waitInterval <= MaxReconnectWait
          /\ waited >= 2 * waitInterval - MinReconnectWait
      BY <2>3 DEF Paced
    <3> HIDE DEF power
    <3>2. MinReconnectWait * (2 * power - 1)
          = 2 * (MinReconnectWait * power) - MinReconnectWait
      BY <2>2, Constants
    <3>3. waited >= MinReconnectWait * (2 * power - 1)
      BY <3>1, <3>2
    <3> QED
      BY <2>2, <3>1, <3>3 DEF power
  <2>4. CASE pc # "reconnect"
    <3>1. /\ waitInterval = MinReconnectWait * (2 * power)
          /\ waitInterval <= 2 * MaxReconnectWait
          /\ waited >= waitInterval - MinReconnectWait
      BY <2>2, <2>4 DEF Paced
    <3> HIDE DEF power
    <3>2. /\ MinReconnectWait * (2 * power - 1)
             = MinReconnectWait * (2 * power) - MinReconnectWait
          /\ MinReconnectWait * (2 * power) = 2 * (MinReconnectWait * power)
          /\ MinReconnectWait * power \in Nat
      BY <2>2, Constants
    <3>3. /\ waited >= MinReconnectWait * (2 * power - 1)
          /\ MinReconnectWait * power <= MaxReconnectWait
      BY <3>1, <3>2, Constants
    <3> QED
      BY <2>2, <3>3 DEF power
  <2> QED
    BY <2>3, <2>4
<1> QED
  BY <1>1, <1>2, <1>3, LinkedAlways, PTL DEF Spec

=============================================================================
