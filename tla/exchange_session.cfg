SPECIFICATION Spec
CONSTANTS
    Topics = { a, b }
    NoTopic = NoTopic
    NumHandlers = 2
    MaxPacketId = 2
    AppCalls = { "publish", "subscribe", "unsubscribe", "yield" }
    CallbackCalls = { "publish0", "unsubscribe" }
    MaxDepth = 2
    MaxRequests = 4
    MaxMessages = 2
    MaxTimeouts = 1
    MaxDrops = 1
    MaxRefusals = 1
SYMMETRY Symmetry
INVARIANTS
    SubscriptionKept
    InSync
    MessageAccounted
    ResubscribeHasTopic
PROPERTIES
    PublishConfirmed
CHECK_DEADLOCK FALSE
