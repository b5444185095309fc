SPECIFICATION Spec
CONSTANTS
    t1 = t1
    t2 = t2
    t3 = t3
    Threads = { t1, t2, t3 }
    Calls <- YieldAndRequests
    CallbackCalls <- NoCalls
    HandlerCalls <- NoCalls
    EnableAutoReconnect = { TRUE, FALSE }
    Delivers = FALSE
    MaxDepth = 0
INVARIANTS
    NotIdleMeansInProgress
    OneReader
PROPERTIES
    ImplementsConnection
