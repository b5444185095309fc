SPECIFICATION Spec
CONSTANTS
    t1 = t1
    t2 = t2
    t3 = t3
    Threads = { t1 }
    Calls <- EveryCall
    CallbackCalls <- ApiCalls
    HandlerCalls <- NoCalls
    EnableAutoReconnect = { TRUE, FALSE }
    Delivers = TRUE
    MaxDepth = 4
INVARIANTS
    StackDiscipline
    TlsClosedWhileDisconnected
PROPERTIES
    ImplementsConnection
