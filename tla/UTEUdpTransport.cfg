CONSTANTS
    Streams = {s1}
    PortSpan = 6
    FirstPort = 2
    MaxSetups = 3
    MaxPackets = 2
    None = None
SPECIFICATION FairSpec
INVARIANTS OwnPort
PROPERTIES LinkSpec RefusalReleases
\* The bounds on SETUPs and packets stop the system, and so does a thrown exception.
CHECK_DEADLOCK FALSE
