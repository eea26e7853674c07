CONSTANTS
    MaxPacketSize = 4
    SeqMod = 4
    Packs = {"rfc", "annexb", "avcc1", "avcc2", "avcc4"}
    ParamSets <- Sets
    Frames <- FrameSet
    MaxFrames = 2
SPECIFICATION Spec
INVARIANTS FitsPacket AllRebuilt AnnouncedIsSent
PROPERTIES MarksFrameEnd InSequence ReceiverSpec
\* The bound on the calls of push_frame stops the system.
CHECK_DEADLOCK FALSE
