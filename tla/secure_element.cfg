SPECIFICATION Spec
CONSTANTS
    NumChannels = 2
    Containers <- FiveContainers
    KidSpan = 4
    Directory <- Files
    Labels = { "a", "b" }
    Blocks = 2
    Parts = 3
    MaxFaults = 2
INVARIANTS
    ReadyOnChannel
    OpenBounded
    SelectUnlessFull
    SignatureWhole
    ObjectWhole
    KeysListed
