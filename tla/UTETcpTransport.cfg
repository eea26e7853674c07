CONSTANTS
    Payload = {response, frame}
    MsgUnits = 2
    MaxWrites = 4
SPECIFICATION FairSpec
INVARIANTS OneWriteInFlight NoStalledData
PROPERTIES SilentAfterFailure ChannelSpec EverythingSent
\* The bound on the calls of write() stops the system.
CHECK_DEADLOCK FALSE
