\* Streams set up, started, stopped and closed the way the examples do.
SPECIFICATION FairSpec
CONSTANTS
    Liberties = {}
INVARIANTS
    FifosOutliveLoops
    PacketShapesAgree
    LoopsServeActiveStreams
PROPERTIES
    CallsReturn
