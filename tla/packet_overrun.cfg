SPECIFICATION Spec
CONSTANTS
    InLengths <- Lengths
    OutPackets <- Packets
    ReadBufSize = 200
    WriteBufSize = 131
    Fragment = 100
    MaxQueued = 2
    MaxPieces = 3
    Unset <- AnyRet
    SizeMax = 65536
INVARIANTS
    KeptPacketFits
