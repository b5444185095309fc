SPECIFICATION Spec
CONSTANTS
    t1 = t1
    t2 = t2
    t3 = t3
    Threads = { t1, t2 }
    Calls <- YieldAndPublish
    CallbackCalls <- NoCalls
    HandlerCalls <- NoCalls
    EnableAutoReconnect = { FALSE }
    Delivers = TRUE
    MaxDepth = 0
INVARIANTS
    NotIdleMeansInProgress
