SPECIFICATION LiveSpec
CONSTANTS
    PACKET = 4
    LARGEST = 6
    Peers <- SupportedPeers
    PeerPacket = 4
    MaxSent = 4
INVARIANTS TypeOK FramesAsSent
PROPERTIES EveryFrameComesOut
CHECK_DEADLOCK FALSE
