SPECIFICATION Spec
CONSTANTS
    MaxTokens = 2
    Responses = TRUE
    OtherThings = TRUE
    MaxVersion = 3
    MaxInFlight = 3
    MaxFailures = 1
    MaxConnects = 1
INVARIANTS
    DeltasInOrder
