SPECIFICATION FairSpec
CONSTANTS
    KeepAliveInterval = 4
    YieldTime = 2
    MinReconnectWait = 1
    MaxReconnectWait = 4
    ConnectTime = 1
    HandlerTime = 1
    MaxAway = 1
    MaxDelay = 1
    MaxInbox = 2
    MaxUnusable = 1
    UnsetWaits <- AnyWait
INVARIANTS
    DeadNoticed
    
    NoFalseAlarm
    BackoffPaced
PROPERTIES
    Reconnects
    BackoffEnds
    ImplementsConnection
