SPECIFICATION FairSpec
CONSTANTS
    Keys = { k1, k2 }
    Tokens = { t1, t2, t3 }
    AckSlots <- TwoSlots
    SubSlots <- FourSlots
    HandlerSlots <- FourSlots
    Stickies <- OnePersistent
    CallbacksAct = FALSE
    HandlersAct = FALSE
    MaxDepth = 0
    MaxFailures = 1
    MaxConnects = 0
INVARIANTS
    ListensExactly
    ActionTracked
PROPERTIES
    ActionAnswered
CHECK_DEADLOCK FALSE
