SPECIFICATION Spec
CONSTANTS
    Keys = { k1, k2 }
    Tokens = { t1, t2, t3 }
    AckSlots <- TwoSlots
    SubSlots <- FiveSlots
    HandlerSlots <- ThreeSlots
    Stickies <- NonePersistent
    CallbacksAct = FALSE
    HandlersAct = TRUE
    MaxDepth = 1
    MaxFailures = 1
    MaxConnects = 1
SYMMETRY Symmetry
INVARIANTS
    CalledOnce
CHECK_DEADLOCK FALSE
