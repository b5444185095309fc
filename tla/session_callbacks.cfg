SPECIFICATION Spec
CONSTANTS
    t1 = t1
    t2 = t2
    t3 = t3
    Threads = { t1 }
    Calls <- PlainClient
    CallbackCalls <- HandlerRequests
    HandlerCalls <- NoCalls
    EnableAutoReconnect = { FALSE }
    Delivers = TRUE
    MaxDepth = 4
INVARIANTS
    NoYieldDuringCallback
PROPERTIES
    ImplementsManualConnection
